--------------------------- MODULE AuditFileProofs ---------------------------
(***************************************************************************)
(* Proofs about AuditFile for any number of files, slots, records and      *)
(* process lives, any sizes and any rotation limit.  The size the sink     *)
(* keeps only chooses between rotating and writing, and nothing but its    *)
(* own account depends on it: both are allowed at every record.            *)
(***************************************************************************)
EXTENDS AuditFile, SequenceTheorems, WellFoundedInduction, TLAPS

\* The sequence s is empty or ends a line.
Clean(s) == s = <<>> \/ s[Len(s)].t = "nl"

\* Every record of s is on a line of its own, but for a process's first.
Parses(s) ==
  \A k \in 1..Len(s) :
    k > 1 /\ s[k].t = "rec" /\ s[k-1].t # "nl" => s[k].seq = 1 /\ s[k].run > 1

\* A line put after another one glues nothing, unless it starts with a
\* record and the other is not ended.
LEMMA ParsesConcat ==
  ASSUME NEW d \in Seq(Token), NEW s \in Seq(Token), Parses(d), Parses(s),
         s = <<>> \/ s[1].t # "rec" \/ Clean(d) \/ (s[1].seq = 1 /\ s[1].run > 1)
  PROVE  Parses(d \o s)
<1> DEFINE u == d \o s
<1>1. /\ Len(d) \in Nat /\ Len(s) \in Nat /\ Len(u) = Len(d) + Len(s)
      /\ \A k \in 1..Len(d) + Len(s) :
           u[k] = IF k <= Len(d) THEN d[k] ELSE s[k - Len(d)]
  BY ConcatProperties
<1> HIDE DEF u
<1>2. ASSUME NEW k \in 1..Len(u), k > 1, u[k].t = "rec", u[k-1].t # "nl"
      PROVE  u[k].seq = 1 /\ u[k].run > 1
  <2>1. CASE k <= Len(d)
    <3>1. k \in 1..Len(d) /\ u[k] = d[k] /\ u[k-1] = d[k-1]
      BY <1>1, <1>2, <2>1
    <3> QED BY <1>2, <3>1 DEF Parses
  <2>2. CASE k > Len(d) + 1
    <3>1. /\ k - Len(d) \in 1..Len(s) /\ k - Len(d) > 1
          /\ u[k] = s[k - Len(d)] /\ u[k-1] = s[(k - Len(d)) - 1]
      BY <1>1, <1>2, <2>2
    <3> QED BY <1>2, <3>1 DEF Parses
  <2>3. CASE k = Len(d) + 1
    <3>1. /\ u[k] = s[1] /\ u[k-1] = d[Len(d)] /\ d # <<>> /\ s # <<>>
      BY <1>1, <1>2, <2>3
    <3> QED BY <1>2, <3>1 DEF Clean
  <2> QED BY <1>1, <2>1, <2>2, <2>3
<1>3. Parses(u)
  BY <1>2 DEF Parses
<1> QED BY <1>3 DEF u

-----------------------------------------------------------------------------
(* Types, names and where a rotation stands.                               *)

\* TypeOK but for the size.
FileTypes ==
  /\ dir \in [Slots -> Files \union {NoFile}]
  /\ fd \in Files \union {NoFile}
  /\ data \in [Files -> Seq(Token)]
  /\ seq \in Nat /\ dropped \in Nat /\ len \in Nat /\ run \in Nat
  /\ attempts \in Nat /\ rotFails \in Nat /\ debris \in Nat
  /\ torn \in BOOLEAN /\ what \in {"gap", "own"} /\ n \in Slots
  /\ pc \in {"down", "idle", "next", "remove", "shift", "reopen", "syncdir",
             "write"}

\* A live process has its file; the slot a rename is about to fill is free.
LifeInv ==
  /\ pc # "down" => fd \in Files /\ run > 0
  /\ pc \notin {"down", "idle"} => len > 0
  /\ run = 0 => \A i \in Slots : dir[i] = NoFile
  /\ pc = "shift" => n > 0 /\ dir[n] = NoFile
  /\ pc = "reopen" => dir[0] = NoFile

NInv == FileTypes /\ LifeInv /\ OneNamePerFile

LEMMA NInit == Init => NInv
<1> SUFFICES ASSUME Init PROVE NInv
  OBVIOUS
<1>1. 0 \in Slots /\ <<>> \in Seq(Token)
  BY KeepAssumption DEF Slots
<1>2. FileTypes
  BY <1>1 DEF Init, FileTypes
<1>3. LifeInv /\ OneNamePerFile
  BY DEF Init, LifeInv, OneNamePerFile
<1> QED BY <1>2, <1>3 DEF NInv

\* A sequence of one or two, built.
LEMMA AppendShort ==
  ASSUME NEW a, NEW b
  PROVE  Append(<<a>>, b) = <<a, b>> /\ Append(<<>>, b) = <<b>>
<1> DEFINE S == {a, b}
<1>1. /\ <<a>> \in Seq(S) /\ <<>> \in Seq(S) /\ b \in S
      /\ <<a, b>> \in Seq(S) /\ <<b>> \in Seq(S)
      /\ Len(<<a, b>>) = 2 /\ <<a, b>>[1] = a /\ <<a, b>>[2] = b
      /\ Len(<<b>>) = 1 /\ <<b>>[1] = b /\ Len(<<a>>) = 1 /\ <<a>>[1] = a
      /\ Len(<<>>) = 0
  OBVIOUS
<1> DEFINE u == Append(<<a>>, b)
           v == Append(<<>>, b)
<1>2. u \in Seq(S) /\ Len(u) = 2 /\ u[1] = a /\ u[2] = b
  BY <1>1, AppendProperties
<1>3. v \in Seq(S) /\ Len(v) = 1 /\ v[1] = b
  BY <1>1, AppendProperties
<1> HIDE DEF u, v, S
<1>4. u = <<a, b>>
  <2>1. \A i \in 1..Len(u) : u[i] = <<a, b>>[i]
    BY <1>1, <1>2
  <2> QED BY <1>1, <1>2, <2>1, SeqEqual
<1>5. v = <<b>>
  <2>1. \A i \in 1..Len(v) : v[i] = <<b>>[i]
    BY <1>1, <1>3
  <2> QED BY <1>1, <1>3, <2>1, SeqEqual
<1> QED BY <1>4, <1>5 DEF u, v

\* The tokens of a line are tokens, and only a line that needs no repair
\* starts with a record, the one in hand.
LEMMA LineType ==
  ASSUME NInv, pc = "write", NEW s \in Partial \union {Line}
  PROVE  /\ s \in Seq(Token) /\ Parses(s)
         /\ s = <<>> \/ s[1].t # "rec" \/ (~torn /\ s[1] = Record)
<1>1. /\ Newline \in Token /\ Fragment \in Token /\ Record \in Token
      /\ Newline.t = "nl" /\ Fragment.t = "frag" /\ Record.t = "rec"
  <2>1. seq \in Nat /\ run \in Nat /\ len \in Nat /\ len > 0
    BY DEF NInv, FileTypes, LifeInv
  <2> QED BY <2>1 DEF Newline, Fragment, Record, Token
<1> DEFINE N == Newline
           F == Fragment
           R == Record
<1>a. /\ Append(<<N>>, F) = <<N, F>> /\ Append(<<N>>, R) = <<N, R>>
      /\ Append(<<>>, F) = <<F>> /\ Append(<<>>, R) = <<R>>
  BY AppendShort
<1>b. ASSUME torn PROVE s \in {<<>>, <<N>>, <<N, F>>, <<N, R>>, <<N, R, N>>}
  <2>1. s \in {<<>>, <<N>>, Append(<<N>>, F), Append(<<N>>, R), <<N, R, N>>}
    BY <1>b DEF Partial, Line
  <2> HIDE DEF N, F, R
  <2> QED BY <1>a, <2>1, Zenon
<1>c. ASSUME ~torn PROVE s \in {<<>>, <<F>>, <<R>>, <<R, N>>}
  <2>1. s \in {<<>>, Append(<<>>, F), Append(<<>>, R), <<R, N>>}
    BY <1>c DEF Partial, Line
  <2> HIDE DEF N, F, R
  <2> QED BY <1>a, <2>1, Zenon
<1>3. N \in Token /\ F \in Token /\ R \in Token
  BY <1>1
<1>4. N.t = "nl" /\ F.t = "frag" /\ R.t = "rec"
  BY <1>1
<1>5. R = Record
  OBVIOUS
<1> HIDE DEF N, F, R
<1>6. s \in Seq(Token)
  <2>1. /\ <<>> \in Seq(Token) /\ <<N>> \in Seq(Token) /\ <<N, F>> \in Seq(Token)
        /\ <<N, R>> \in Seq(Token) /\ <<N, R, N>> \in Seq(Token)
        /\ <<F>> \in Seq(Token) /\ <<R>> \in Seq(Token) /\ <<R, N>> \in Seq(Token)
    BY <1>3
  <2> QED BY <1>b, <1>c, <2>1
<1>7. Parses(s)
  BY <1>b, <1>c, <1>4 DEF Parses
<1>8. s = <<>> \/ s[1].t # "rec" \/ (~torn /\ s[1] = R)
  BY <1>b, <1>c, <1>4
<1> QED BY <1>5, <1>6, <1>7, <1>8

\* What opening or recreating the live file does.
LEMMA OpenType ==
  ASSUME NInv, OpenLive
  PROVE  /\ fd' \in Files /\ dir'[0] = fd'
         /\ dir' \in [Slots -> Files \union {NoFile}]
         /\ data' \in [Files -> Seq(Token)] /\ OneNamePerFile'
         /\ \A f \in Files : data'[f] = data[f] \/ data'[f] = <<>>
         /\ dir[0] = NoFile => data'[fd'] = <<>>
         /\ Linked' \subseteq Linked \union {fd'}
<1>0. /\ 0 \in Slots /\ <<>> \in Seq(Token)
      /\ dir \in [Slots -> Files \union {NoFile}] /\ data \in [Files -> Seq(Token)]
      /\ OneNamePerFile
  BY KeepAssumption DEF Slots, NInv, FileTypes
<1>1. CASE dir[0] # NoFile
  <2>1. fd' = dir[0] /\ dir' = dir /\ data' = data
    BY <1>1 DEF OpenLive, disk
  <2>2. fd' \in Files
    BY <1>0, <1>1, <2>1
  <2>3. OneNamePerFile' /\ Linked' = Linked
    BY <1>0, <2>1 DEF OneNamePerFile, Linked
  <2> QED BY <1>0, <1>1, <2>1, <2>2, <2>3
<1>2. CASE dir[0] = NoFile
  <2> PICK f \in Files \ (Linked \union {fd}) :
         /\ fd' = f
         /\ dir' = [dir EXCEPT ![0] = f]
         /\ data' = [data EXCEPT ![f] = <<>>]
    BY <1>2 DEF OpenLive
  <2>1. \A i \in Slots : dir[i] # f
    BY FilesAssumption DEF Linked
  <2>2. /\ dir' \in [Slots -> Files \union {NoFile}] /\ dir'[0] = f
        /\ \A i \in Slots : i # 0 => dir'[i] = dir[i]
    BY <1>0
  <2>3. OneNamePerFile'
    BY <1>0, <2>1, <2>2 DEF OneNamePerFile
  <2>4. /\ data' \in [Files -> Seq(Token)] /\ data'[f] = <<>>
        /\ \A g \in Files : g # f => data'[g] = data[g]
    BY <1>0
  <2>5. Linked' \subseteq Linked \union {f}
    BY <2>2 DEF Linked
  <2> QED BY <2>2, <2>3, <2>4, <2>5
<1> QED BY <1>1, <1>2

\* A line or a part of one goes to the end of the open file.
LEMMA ExtendType ==
  ASSUME NInv, pc = "write", NEW s \in Partial \union {Line}, Extend(s)
  PROVE  /\ data' \in [Files -> Seq(Token)] /\ data'[fd] = data[fd] \o s
         /\ \A f \in Files : f # fd => data'[f] = data[f]
<1>1. s \in Seq(Token)
  BY LineType
<1>2. fd \in Files /\ data \in [Files -> Seq(Token)]
  BY DEF NInv, FileTypes, LifeInv
<1>3. data[fd] \o s \in Seq(Token)
  BY <1>1, <1>2, ConcatProperties
<1> QED BY <1>2, <1>3 DEF Extend

\* Every system call keeps the types and moves names without copying them.
LEMMA NStep == NInv /\ [Next]_vars => NInv'
<1> SUFFICES ASSUME NInv, [Next]_vars PROVE NInv'
  OBVIOUS
<1>0. FileTypes /\ LifeInv /\ OneNamePerFile /\ 0 \in Slots /\ Keep \in Slots
  BY KeepAssumption DEF NInv, Slots
<1>1. CASE Open
  <2>1. /\ pc = "down" /\ OpenLive /\ seq' = 0 /\ torn' = FALSE /\ dropped' = 0
        /\ pc' = "idle" /\ what' = "own" /\ len' = 0 /\ n' = 0
        /\ run' = run + 1 /\ rotFails' = 0 /\ debris' = 0 /\ attempts' = attempts
    BY <1>1 DEF Open, Return
  <2>2. /\ fd' \in Files /\ dir' \in [Slots -> Files \union {NoFile}]
        /\ data' \in [Files -> Seq(Token)] /\ OneNamePerFile'
    BY <2>1, OpenType
  <2>a. /\ seq' \in Nat /\ dropped' \in Nat /\ len' \in Nat /\ run' \in Nat
        /\ attempts' \in Nat /\ rotFails' \in Nat /\ debris' \in Nat
    BY <1>0, <2>1 DEF FileTypes
  <2>b. torn' \in BOOLEAN /\ what' \in {"gap", "own"} /\ n' \in Slots
    BY <1>0, <2>1
  <2>3. FileTypes'
    BY <2>1, <2>2, <2>a, <2>b DEF FileTypes
  <2>4. LifeInv'
    BY <1>0, <2>1, <2>2 DEF FileTypes, LifeInv
  <2> QED BY <2>2, <2>3, <2>4 DEF NInv
<1>2. CASE Stamp
  <2>1. len' \in Nat /\ len' > 0 /\ pc' \in {"remove", "write"}
    BY <1>2, SizesAssumption DEF Stamp
  <2>2. /\ pc \in {"idle", "next"} /\ attempts' \in {attempts, attempts + 1}
        /\ what' \in {"gap", "own"}
        /\ UNCHANGED <<disk, state, n, run, rotFails, debris>>
    BY <1>2 DEF Stamp
  <2>3. FileTypes'
    BY <1>0, <2>1, <2>2, SizesAssumption DEF FileTypes, disk, state
  <2>4. LifeInv' /\ OneNamePerFile'
    BY <1>0, <2>1, <2>2, SizesAssumption
    DEF LifeInv, OneNamePerFile, disk, state
  <2> QED BY <2>3, <2>4 DEF NInv
<1>3. CASE RemoveOldest
  <2>1. /\ pc = "remove" /\ dir' = [dir EXCEPT ![Keep] = NoFile]
        /\ n' = Keep /\ pc' = "shift"
        /\ UNCHANGED <<data, state, what, len, run, attempts, rotFails, debris>>
    BY <1>3 DEF RemoveOldest
  <2>2. /\ dir' \in [Slots -> Files \union {NoFile}] /\ dir'[Keep] = NoFile
        /\ \A j \in Slots : dir'[j] # NoFile => dir'[j] = dir[j]
    BY <1>0, <2>1 DEF FileTypes
  <2>3. FileTypes'
    BY <1>0, <2>1, <2>2 DEF FileTypes, state
  <2>4. LifeInv'
    BY <1>0, <2>1, <2>2, KeepAssumption DEF LifeInv, state
  <2>5. OneNamePerFile'
    BY <1>0, <2>2 DEF OneNamePerFile
  <2> QED BY <2>3, <2>4, <2>5 DEF NInv
<1>4. CASE Shift
  <2>1. /\ pc = "shift" /\ n' = n - 1
        /\ dir' = IF dir[n-1] = NoFile THEN dir
                  ELSE [dir EXCEPT ![n] = dir[n-1], ![n-1] = NoFile]
        /\ pc' = IF n = 1 THEN "reopen" ELSE "shift"
        /\ UNCHANGED <<data, state, what, len, run, attempts, rotFails, debris>>
    BY <1>4 DEF Shift
  <2>2. n \in Slots /\ n - 1 \in Slots /\ n > 0 /\ n \in Nat
    BY <1>0, <2>1 DEF FileTypes, LifeInv, Slots
  <2>3. /\ dir' \in [Slots -> Files \union {NoFile}] /\ dir'[n-1] = NoFile
        /\ \A j \in Slots \ {n, n-1} : dir'[j] = dir[j]
        /\ dir'[n] = dir[n-1]
    BY <1>0, <2>1, <2>2 DEF FileTypes, LifeInv
  <2>4. FileTypes'
    BY <1>0, <2>1, <2>2, <2>3 DEF FileTypes, state
  <2>5. LifeInv'
    BY <1>0, <2>1, <2>2, <2>3 DEF LifeInv, state
  <2>6. OneNamePerFile'
    BY <1>0, <2>2, <2>3 DEF OneNamePerFile
  <2> QED BY <2>4, <2>5, <2>6 DEF NInv
<1>5. CASE Reopen
  <2>1. /\ pc = "reopen" /\ OpenLive /\ rotFails' = 0 /\ pc' = "syncdir"
        /\ UNCHANGED <<seq, torn, dropped, what, len, n, run, attempts, debris>>
    BY <1>5 DEF Reopen
  <2>2. /\ fd' \in Files /\ dir' \in [Slots -> Files \union {NoFile}]
        /\ data' \in [Files -> Seq(Token)] /\ OneNamePerFile'
    BY <2>1, OpenType
  <2>3. FileTypes'
    BY <1>0, <2>1, <2>2 DEF FileTypes
  <2>4. LifeInv'
    BY <1>0, <2>1, <2>2 DEF FileTypes, LifeInv
  <2> QED BY <2>2, <2>3, <2>4 DEF NInv
<1>6. CASE SyncDir
  BY <1>0, <1>6 DEF SyncDir, NInv, FileTypes, LifeInv, OneNamePerFile, disk, state
<1>7. CASE RotateFails
  <2>1. /\ pc \notin {"down", "idle"} /\ pc' = "idle" /\ what' = "own" /\ len' = 0
        /\ n' = 0 /\ dropped' = dropped + 1 /\ rotFails' \in {0, rotFails + 1}
        /\ UNCHANGED <<dir, data, fd, seq, torn, run, attempts, debris>>
    BY <1>7 DEF RotateFails, Lose, Return, disk
  <2> QED BY <1>0, <2>1 DEF NInv, FileTypes, LifeInv, OneNamePerFile
<1>8. CASE WriteOk
  <2>1. /\ pc = "write" /\ Extend(Line) /\ torn' = FALSE /\ seq' = seq + 1
        /\ dropped' \in {0, dropped} /\ debris' = 0
        /\ \/ pc' = "next" /\ UNCHANGED <<what, len, n>>
           \/ pc' = "idle" /\ what' = "own" /\ len' = 0 /\ n' = 0
        /\ UNCHANGED <<dir, fd, run, attempts, rotFails>>
    BY <1>8 DEF WriteOk, Return
  <2>2. data' \in [Files -> Seq(Token)]
    BY <2>1, ExtendType
  <2>a. /\ seq' \in Nat /\ dropped' \in Nat /\ len' \in Nat /\ debris' \in Nat
        /\ what' \in {"gap", "own"} /\ n' \in Slots
    BY <1>0, <2>1 DEF FileTypes
  <2>3. FileTypes'
    BY <1>0, <2>1, <2>2, <2>a DEF FileTypes
  <2>4. LifeInv' /\ OneNamePerFile'
    BY <1>0, <2>1 DEF LifeInv, OneNamePerFile
  <2> QED BY <2>3, <2>4 DEF NInv
<1>9. CASE WriteFails
  <2>1. PICK s \in Partial \union {Line} : Extend(s) /\ debris' \in {debris, debris + 1}
    BY <1>9 DEF WriteFails
  <2>2. /\ pc = "write" /\ torn' = TRUE /\ pc' = "idle" /\ what' = "own"
        /\ len' = 0 /\ n' = 0 /\ dropped' = dropped + 1
        /\ UNCHANGED <<dir, fd, seq, run, attempts, rotFails>>
    BY <1>9 DEF WriteFails, Lose, Return
  <2>3. data' \in [Files -> Seq(Token)]
    BY <2>1, <2>2, ExtendType
  <2> QED BY <1>0, <2>1, <2>2, <2>3 DEF NInv, FileTypes, LifeInv, OneNamePerFile
<1>10. CASE Crash
  <2>1. /\ pc # "down" /\ pc' = "down" /\ fd' = NoFile /\ seq' = 0 /\ torn' = FALSE
        /\ dropped' = 0 /\ what' = "own" /\ len' = 0 /\ n' = 0
        /\ UNCHANGED <<dir, run, attempts, rotFails, debris>>
    BY <1>10 DEF Crash
  <2>2. data' \in [Files -> Seq(Token)]
    BY <1>0, <1>10, ExtendType DEF Crash, FileTypes
  <2> QED BY <1>0, <2>1, <2>2 DEF NInv, FileTypes, LifeInv, OneNamePerFile
<1>11. CASE UNCHANGED vars
  BY <1>0, <1>11 DEF vars, disk, state, NInv, FileTypes, LifeInv, OneNamePerFile
<1> QED BY <1>1, <1>2, <1>3, <1>4, <1>5, <1>6, <1>7, <1>8, <1>9, <1>10, <1>11 DEF Next

\* No rotation, failed or not, and no restart puts a file under two names.
THEOREM NamesCorrect == Spec => []OneNamePerFile
<1>1. NInv => OneNamePerFile
  BY DEF NInv
<1> QED BY <1>1, NInit, NStep, PTL DEF Spec

-----------------------------------------------------------------------------
(* Where the open file's name is.                                          *)

\* Each rotation that fails pushes the open file one slot further at most;
\* while one is under way its file is a slot below the hole, or moved.
PlaceInv ==
  /\ pc \in {"idle", "next", "write", "remove"} /\ rotFails <= Keep =>
       \E i \in Slots : dir[i] = fd /\ i <= rotFails
  /\ pc = "shift" /\ rotFails < Keep =>
       \E i \in Slots : dir[i] = fd /\ i <= rotFails + 1 /\ (i < n => i <= rotFails)
  /\ pc = "reopen" /\ rotFails < Keep =>
       \E i \in Slots : dir[i] = fd /\ i <= rotFails + 1
  /\ pc = "syncdir" => rotFails = 0 /\ dir[0] = fd

LEMMA PlaceStep == NInv /\ PlaceInv /\ [Next]_vars => PlaceInv'
<1> SUFFICES ASSUME NInv, PlaceInv, [Next]_vars PROVE PlaceInv'
  OBVIOUS
<1>0. /\ FileTypes /\ LifeInv /\ 0 \in Slots /\ Keep \in Nat /\ Keep > 0
      /\ Slots \subseteq Nat /\ rotFails \in Nat
  BY KeepAssumption DEF NInv, FileTypes, Slots
<1>1. CASE Open
  <2>1. OpenLive /\ rotFails' = 0 /\ pc' = "idle"
    BY <1>1 DEF Open, Return
  <2>2. dir'[0] = fd'
    BY <2>1, OpenType
  <2> QED BY <1>0, <2>1, <2>2 DEF PlaceInv
<1>2. CASE Stamp
  <2>1. /\ pc \in {"idle", "next"} /\ pc' \in {"remove", "write"}
        /\ UNCHANGED <<dir, fd, rotFails>>
    BY <1>2 DEF Stamp, disk, state
  <2> QED BY <2>1 DEF PlaceInv
<1>3. CASE RemoveOldest
  <2>1. /\ pc = "remove" /\ dir' = [dir EXCEPT ![Keep] = NoFile]
        /\ n' = Keep /\ pc' = "shift" /\ UNCHANGED <<fd, rotFails>>
    BY <1>3 DEF RemoveOldest, state
  <2>2. ASSUME rotFails < Keep
        PROVE  \E i \in Slots : dir'[i] = fd /\ i <= rotFails
    <3>1. PICK i \in Slots : dir[i] = fd /\ i <= rotFails
      BY <1>0, <2>1, <2>2 DEF PlaceInv
    <3>2. i # Keep
      BY <1>0, <2>2, <3>1
    <3>3. dir'[i] = dir[i]
      BY <1>0, <2>1, <3>2 DEF FileTypes
    <3> QED BY <3>1, <3>3
  <2> QED BY <1>0, <2>1, <2>2 DEF PlaceInv
<1>4. CASE Shift
  <2>1. /\ pc = "shift" /\ n' = n - 1 /\ UNCHANGED <<fd, rotFails>>
        /\ dir' = IF dir[n-1] = NoFile THEN dir
                  ELSE [dir EXCEPT ![n] = dir[n-1], ![n-1] = NoFile]
        /\ pc' = IF n = 1 THEN "reopen" ELSE "shift"
    BY <1>4 DEF Shift, state
  <2>2. /\ n \in Slots /\ n - 1 \in Slots /\ n > 0 /\ n \in Nat /\ dir[n] = NoFile
        /\ fd \in Files /\ fd # NoFile
    BY <1>0, <2>1, FilesAssumption DEF FileTypes, LifeInv, Slots
  <2>3. /\ \A j \in Slots \ {n, n-1} : dir'[j] = dir[j]
        /\ dir'[n] = dir[n-1]
    BY <1>0, <2>1, <2>2 DEF FileTypes
  <2>4. ASSUME rotFails < Keep
        PROVE  \E i \in Slots :
                 dir'[i] = fd /\ i <= rotFails + 1 /\ (i < n - 1 => i <= rotFails)
    <3>1. PICK i \in Slots : /\ dir[i] = fd /\ i <= rotFails + 1
                             /\ (i < n => i <= rotFails)
      BY <2>1, <2>4 DEF PlaceInv
    <3>2. i # n
      BY <2>2, <3>1
    <3>3. CASE i = n - 1
      <4>1. dir'[n] = fd /\ n <= rotFails + 1 /\ ~(n < n - 1)
        BY <1>0, <2>2, <2>3, <3>1, <3>3
      <4> QED BY <2>2, <4>1
    <3>4. CASE i # n - 1
      <4>1. dir'[i] = fd
        BY <2>3, <3>1, <3>2, <3>4
      <4>2. i < n - 1 => i < n
        BY <1>0, <2>2
      <4> QED BY <3>1, <4>1, <4>2
    <3> QED BY <3>3, <3>4
  <2> QED BY <1>0, <2>1, <2>4 DEF PlaceInv
<1>5. CASE Reopen
  <2>1. OpenLive /\ rotFails' = 0 /\ pc' = "syncdir"
    BY <1>5 DEF Reopen
  <2>2. dir'[0] = fd'
    BY <2>1, OpenType
  <2> QED BY <2>1, <2>2 DEF PlaceInv
<1>6. CASE SyncDir
  <2>1. pc = "syncdir" /\ pc' = "write" /\ UNCHANGED <<dir, fd, rotFails>>
    BY <1>6 DEF SyncDir, disk, state
  <2> QED BY <1>0, <2>1 DEF PlaceInv
<1>7. CASE RotateFails
  <2>1. /\ pc \in {"remove", "shift", "reopen", "syncdir"} /\ pc' = "idle"
        /\ rotFails' = IF pc = "syncdir" THEN 0 ELSE rotFails + 1
        /\ UNCHANGED <<dir, fd>>
    BY <1>7 DEF RotateFails, Lose, Return, disk
  <2>2. CASE pc = "syncdir"
    BY <1>0, <2>1, <2>2 DEF PlaceInv
  <2>3. CASE pc # "syncdir"
    <3>1. ASSUME rotFails + 1 <= Keep
          PROVE  \E i \in Slots : dir[i] = fd /\ i <= rotFails + 1
      <4>1. rotFails < Keep /\ rotFails <= Keep
        BY <1>0, <3>1
      <4>2. \A i \in Slots : i <= rotFails => i <= rotFails + 1
        BY <1>0
      <4> QED BY <2>1, <2>3, <4>1, <4>2 DEF PlaceInv
    <3> QED BY <2>1, <2>3, <3>1 DEF PlaceInv
  <2> QED BY <2>2, <2>3
<1>8. CASE WriteOk \/ WriteFails
  <2>1. pc = "write" /\ pc' \in {"idle", "next"} /\ UNCHANGED <<dir, fd, rotFails>>
    BY <1>8 DEF WriteOk, WriteFails, Lose, Return
  <2> QED BY <2>1 DEF PlaceInv
<1>9. CASE Crash
  BY <1>9 DEF Crash, PlaceInv
<1>10. CASE UNCHANGED vars
  BY <1>10 DEF vars, disk, state, PlaceInv
<1> QED BY <1>1, <1>2, <1>3, <1>4, <1>5, <1>6, <1>7, <1>8, <1>9, <1>10 DEF Next

\* A record acknowledged goes to a file that has a name, for any number of
\* slots, unless more rotations in a row have failed than there are slots.
THEOREM AckedCorrect == Spec => AckedRecordsHaveAName
<1>1. Init => NInv /\ PlaceInv
  BY NInit DEF Init, PlaceInv
<1>2. NInv /\ PlaceInv /\ [Next]_vars
        => (seq' > seq /\ rotFails <= Keep => fd' \in Linked') \/ UNCHANGED vars
  <2> SUFFICES ASSUME NInv, PlaceInv, [Next]_vars, seq' > seq, rotFails <= Keep,
                      ~UNCHANGED vars
               PROVE  fd' \in Linked'
    OBVIOUS
  <2>1. seq \in Nat
    BY DEF NInv, FileTypes
  <2>2. WriteOk
    BY <2>1 DEF Next, Open, Stamp, RemoveOldest, Shift, Reopen, SyncDir,
       RotateFails, WriteFails, Crash, state
  <2>3. pc = "write" /\ UNCHANGED <<dir, fd>>
    BY <2>2 DEF WriteOk
  <2>4. (\E i \in Slots : dir[i] = fd) /\ fd # NoFile
    BY <2>3, FilesAssumption DEF PlaceInv, NInv, LifeInv
  <2> QED BY <2>3, <2>4 DEF Linked
<1>3. NInv /\ PlaceInv /\ [Next]_vars => NInv' /\ PlaceInv'
  BY NStep, PlaceStep
<1>4. [][NInv /\ PlaceInv /\ Next => (seq' > seq /\ rotFails <= Keep => fd' \in Linked')]_vars
  BY <1>2, PTL
<1> QED BY <1>1, <1>2, <1>3, PTL DEF Spec, AckedRecordsHaveAName

-----------------------------------------------------------------------------
(* Records and their lines.                                                *)

\* A process that owes no repair writes at the start of a line, or is about
\* to write its first record after what another process left.
LineInv ==
  /\ pc # "down" /\ ~torn => Clean(data[fd]) \/ (run > 1 /\ seq = 0)
  /\ \A f \in Linked : Parses(data[f])

\* Whatever a write leaves in the file, its records parse.
LEMMA LineWritten ==
  ASSUME NInv, LineInv, pc = "write", NEW s \in Partial \union {Line}, Extend(s),
         dir' = dir
  PROVE  \A f \in Linked' : Parses(data'[f])
<1>0. fd \in Files /\ data \in [Files -> Seq(Token)] /\ seq \in Nat
  BY DEF NInv, FileTypes, LifeInv
<1>1. /\ data'[fd] = data[fd] \o s
      /\ \A f \in Files : f # fd => data'[f] = data[f]
  BY ExtendType
<1>2. /\ s \in Seq(Token) /\ Parses(s)
      /\ s = <<>> \/ s[1].t # "rec" \/ (~torn /\ s[1] = Record)
  BY LineType
<1>3. Linked' = Linked /\ Linked \subseteq Files
  BY DEF Linked, NInv, FileTypes
<1>4. s = <<>> \/ s[1].t # "rec" \/ Clean(data[fd]) \/ (s[1].seq = 1 /\ s[1].run > 1)
  BY <1>0, <1>2 DEF LineInv, Record
<1>5. Parses(data[fd]) => Parses(data[fd] \o s)
  BY <1>0, <1>2, <1>4, ParsesConcat
<1> QED BY <1>1, <1>3, <1>5 DEF LineInv

LEMMA LineStep == NInv /\ LineInv /\ [Next]_vars => LineInv'
<1> SUFFICES ASSUME NInv, LineInv, [Next]_vars PROVE LineInv'
  OBVIOUS
<1>0. /\ FileTypes /\ LifeInv /\ Linked \subseteq Files
      /\ Parses(<<>>) /\ Clean(<<>>)
  BY DEF NInv, Linked, FileTypes, Parses, Clean
<1>1. ASSUME OpenLive
      PROVE  /\ \A f \in Linked' : Parses(data'[f])
             /\ dir[0] = NoFile => Clean(data'[fd'])
  <2>1. /\ Linked' \subseteq Linked \union {fd'} /\ fd' \in Files /\ dir'[0] = fd'
        /\ \A f \in Files : data'[f] = data[f] \/ data'[f] = <<>>
        /\ dir[0] = NoFile => data'[fd'] = <<>>
    BY <1>1, OpenType
  <2>2. dir[0] # NoFile => fd' \in Linked
    BY <1>1, KeepAssumption DEF OpenLive, Linked, Slots
  <2> QED BY <1>0, <2>1, <2>2 DEF LineInv
<1>2. CASE Open
  <2>1. /\ OpenLive /\ seq' = 0 /\ torn' = FALSE /\ run' = run + 1 /\ pc' = "idle"
    BY <1>2 DEF Open, Return
  <2>2. run = 0 => dir[0] = NoFile
    BY <1>0, KeepAssumption DEF LifeInv, Slots
  <2>3. Clean(data'[fd']) \/ run' > 1
    BY <1>0, <1>1, <2>1, <2>2 DEF FileTypes
  <2> QED BY <1>1, <2>1, <2>3 DEF LineInv
<1>3. CASE Stamp \/ SyncDir \/ RotateFails \/ UNCHANGED vars
  <2>1. /\ UNCHANGED <<dir, data, fd, torn, run, seq>>
        /\ pc' # "down" => pc # "down"
    BY <1>3 DEF Stamp, SyncDir, RotateFails, vars, disk, state
  <2> QED BY <2>1 DEF LineInv, Linked
<1>4. CASE RemoveOldest \/ Shift
  <2>1. UNCHANGED <<data, fd, torn, run, seq>> /\ pc # "down"
    BY <1>4 DEF RemoveOldest, Shift, state
  <2>2. Linked' \subseteq Linked
    <3>1. CASE RemoveOldest
      BY <1>0, <3>1 DEF RemoveOldest, Linked, FileTypes
    <3>2. CASE Shift
      <4>1. n - 1 \in Slots
        <5>1. n \in 0..Keep /\ n > 0
          BY <1>0, <3>2 DEF Shift, FileTypes, LifeInv, Slots
        <5> QED BY <5>1, KeepAssumption DEF Slots
      <4>2. \A i \in Slots : dir'[i] \in {dir[i], dir[n-1], NoFile}
        BY <1>0, <3>2 DEF Shift, FileTypes
      <4> QED BY <4>1, <4>2 DEF Linked
    <3> QED BY <1>4, <3>1, <3>2
  <2> QED BY <2>1, <2>2 DEF LineInv
<1>5. CASE Reopen
  <2>1. OpenLive /\ pc = "reopen"
    BY <1>5 DEF Reopen
  <2>2. dir[0] = NoFile
    BY <1>0, <2>1 DEF LifeInv
  <2> QED BY <1>1, <2>1, <2>2 DEF LineInv
<1>6. CASE WriteOk
  <2>1. pc = "write" /\ Extend(Line) /\ UNCHANGED <<dir, fd>>
    BY <1>6 DEF WriteOk
  <2>2. data'[fd'] = data[fd] \o Line
    BY <2>1, ExtendType
  <2>3. Clean(data[fd] \o Line)
    <3>1. /\ data[fd] \in Seq(Token) /\ Line \in Seq(Token)
      BY <1>0, <2>1, LineType DEF FileTypes, LifeInv
    <3>2. Len(Line) \in {2, 3} /\ Line[Len(Line)] = Newline
      BY DEF Line
    <3> DEFINE d == data[fd]
               l == Line
               u == d \o l
    <3>3. d \in Seq(Token) /\ l \in Seq(Token) /\ Len(l) > 0 /\ l[Len(l)].t = "nl"
      <4>1. Newline.t = "nl"
        BY DEF Newline
      <4>2. Len(l) > 0
        BY <3>2, SMTT(30)
      <4>3. l[Len(l)] = Newline
        BY <3>2
      <4> QED BY <3>1, <4>1, <4>2, <4>3
    <3> HIDE DEF d, l
    <3>4. /\ Len(d) \in Nat /\ Len(l) \in Nat /\ Len(u) = Len(d) + Len(l)
          /\ u[Len(d) + Len(l)] = l[Len(l)]
      BY <3>3, ConcatProperties
    <3>5. Clean(u)
      BY <3>3, <3>4 DEF Clean
    <3> QED BY <3>5 DEF d, l
  <2> QED BY <2>1, <2>2, <2>3, LineWritten DEF LineInv
<1>7. CASE WriteFails
  <2>1. PICK s \in Partial \union {Line} : Extend(s)
    BY <1>7 DEF WriteFails
  <2>2. pc = "write" /\ torn' = TRUE /\ dir' = dir
    BY <1>7 DEF WriteFails
  <2> QED BY <2>1, <2>2, LineWritten DEF LineInv
<1>8. CASE Crash
  <2>1. pc' = "down" /\ dir' = dir
    BY <1>8 DEF Crash
  <2>2. CASE UNCHANGED data
    BY <2>1, <2>2 DEF LineInv, Linked
  <2>3. ASSUME pc = "write", NEW s \in Partial, Extend(s) PROVE LineInv'
    BY <2>1, <2>3, LineWritten DEF LineInv
  <2> QED BY <1>8, <2>2, <2>3 DEF Crash
<1> QED BY <1>2, <1>3, <1>4, <1>5, <1>6, <1>7, <1>8 DEF Next

\* Every record in a file with a name is on a line of its own, whatever
\* writes, rotations and processes failed before it, but for the first record
\* of a process that found another's debris.
THEOREM ParseCorrect == Spec => []RecordsParse
<1>1. Init => NInv /\ LineInv
  BY NInit DEF Init, LineInv, Linked
<1>2. NInv /\ LineInv /\ [Next]_vars => NInv' /\ LineInv'
  BY NStep, LineStep
<1>3. LineInv => RecordsParse
  BY DEF LineInv, RecordsParse, Glued, Parses
<1> QED BY <1>1, <1>2, <1>3, PTL DEF Spec

-----------------------------------------------------------------------------
(* The size of a file.                                                     *)

\* A set that holds 0, and with every number the next, holds them all.
LEMMA SetInduction ==
  ASSUME NEW S, 0 \in S, \A k \in Nat : k \in S => k + 1 \in S PROVE Nat \subseteq S
<1> SUFFICES ASSUME Nat \ S # {} PROVE FALSE OBVIOUS
<1>1. PICK x \in Nat \ S : \A y \in Nat \ S : ~(<<y, x>> \in OpToRel(<, Nat))
  BY NatLessThanWellFounded, WFMin
<1>2. x # 0 /\ x - 1 \in Nat /\ x - 1 < x OBVIOUS
<1>3. x - 1 \notin S BY <1>1, <1>2 DEF OpToRel
<1>4. \E k \in Nat : k \notin S /\ k < x BY <1>2, <1>3
<1>5. \A y \in Nat \ S : ~(y < x) BY <1>1 DEF OpToRel
<1> QED BY <1>4, <1>5

\* f adds up the lengths of the tokens of s.
Sums(f, s) == f = [i \in 0..Len(s) |-> IF i = 0 THEN 0 ELSE f[i-1] + s[i].len]

\* The sums of the first m tokens of s.
SumsTo(f, s, m) == f = [i \in 0..m |-> IF i = 0 THEN 0 ELSE f[i-1] + s[i].len]

\* The equation the length of a file is defined by has a solution.
LEMMA SumsExist == ASSUME NEW s \in Seq(Token) PROVE \E f : Sums(f, s)
<1> DEFINE S == {m \in Nat : \E f : SumsTo(f, s, m)}
<1>1. 0 \in S
  <2>1. SumsTo([i \in 0..0 |-> 0], s, 0) BY DEF SumsTo
  <2> QED BY <2>1
<1>2. ASSUME NEW m \in Nat, m \in S PROVE m + 1 \in S
  <2>1. PICK f : SumsTo(f, s, m) BY <1>2
  <2> DEFINE g == [i \in 0..m + 1 |-> IF i = m + 1 THEN f[m] + s[m + 1].len ELSE f[i]]
  <2>2. ASSUME NEW i \in 0..m + 1
        PROVE  g[i] = IF i = 0 THEN 0 ELSE g[i-1] + s[i].len
    <3>1. CASE i = m + 1
      <4>1. i - 1 = m /\ m \in 0..m + 1 /\ m # m + 1 /\ i # 0 BY <3>1
      <4> QED BY <3>1, <4>1
    <3>2. CASE i # m + 1
      <4>1. i \in 0..m /\ (i # 0 => i - 1 \in 0..m /\ i - 1 \in 0..m + 1 /\ i - 1 # m + 1)
        BY <3>2
      <4> QED BY <2>1, <3>2, <4>1 DEF SumsTo
    <3> QED BY <3>1, <3>2
  <2>3. g = [i \in 0..m + 1 |-> g[i]] OBVIOUS
  <2> HIDE DEF g
  <2>4. SumsTo(g, s, m + 1) BY <2>2, <2>3 DEF SumsTo
  <2> QED BY <2>4
<1>3. Len(s) \in S
  <2>1. Len(s) \in Nat OBVIOUS
  <2> HIDE DEF S
  <2> QED BY <1>1, <1>2, <2>1, SetInduction
<1> QED BY <1>3 DEF Sums, SumsTo

\* The length of a file is the last of its sums, each one token on.
LEMMA BytesSum ==
  ASSUME NEW s \in Seq(Token)
  PROVE  \E f : /\ Bytes(s) = f[Len(s)] /\ f[0] = 0
                /\ \A i \in 1..Len(s) : f[i] = f[i-1] + s[i].len
                /\ \A i \in 0..Len(s) : f[i] \in Nat
<1> DEFINE f == CHOOSE f : Sums(f, s)
           L == Len(s)
<1>1. Sums(f, s) BY SumsExist
<1>2. Bytes(s) = f[L] BY DEF Bytes, Sums
<1>3. L \in Nat /\ \A i \in 1..L : s[i].len \in Nat
  <2>1. \A i \in 1..L : s[i] \in Token OBVIOUS
  <2> QED BY <2>1 DEF Token
<1> HIDE DEF f, L
<1>4. \A i \in 0..L : f[i] = IF i = 0 THEN 0 ELSE f[i-1] + s[i].len
  BY <1>1 DEF Sums, L
<1>5. f[0] = 0 BY <1>3, <1>4
<1>6. \A i \in 1..L : f[i] = f[i-1] + s[i].len BY <1>3, <1>4
<1> DEFINE S == {m \in Nat : m <= L => f[m] \in Nat}
<1>7. 0 \in S BY <1>5
<1>8. ASSUME NEW m \in Nat, m \in S PROVE m + 1 \in S
  <2> SUFFICES ASSUME m + 1 <= L PROVE f[m + 1] \in Nat OBVIOUS
  <2>1. m + 1 \in 1..L /\ (m + 1) - 1 = m /\ f[m] \in Nat BY <1>3, <1>8
  <2>2. f[m + 1] = f[m] + s[m + 1].len /\ s[m + 1].len \in Nat BY <1>3, <1>6, <2>1
  <2> QED BY <2>1, <2>2
<1>9. Nat \subseteq S
  <2> HIDE DEF S
  <2> QED BY <1>7, <1>8, SetInduction
<1>10. \A i \in 0..L : f[i] \in Nat BY <1>3, <1>9
<1> QED BY <1>2, <1>5, <1>6, <1>10 DEF L

\* A file and what is written behind it have the length of both.
LEMMA BytesConcat ==
  ASSUME NEW d \in Seq(Token), NEW s \in Seq(Token)
  PROVE  /\ Bytes(d) \in Nat /\ Bytes(s) \in Nat
         /\ Bytes(d \o s) = Bytes(d) + Bytes(s)
<1> DEFINE u == d \o s
           D == Len(d)
           L == Len(s)
<1>1. PICK f : /\ Bytes(d) = f[D] /\ f[0] = 0
               /\ \A i \in 1..D : f[i] = f[i-1] + d[i].len
               /\ \A i \in 0..D : f[i] \in Nat
  BY BytesSum
<1>2. PICK g : /\ Bytes(s) = g[L] /\ g[0] = 0
               /\ \A i \in 1..L : g[i] = g[i-1] + s[i].len
               /\ \A i \in 0..L : g[i] \in Nat
  BY BytesSum
<1>3. /\ D \in Nat /\ L \in Nat /\ u \in Seq(Token) /\ Len(u) = D + L
      /\ \A i \in 1..D : u[i] = d[i]
      /\ \A i \in 1..L : u[D + i] = s[i]
  BY ConcatProperties
<1>4. PICK h : /\ Bytes(u) = h[Len(u)] /\ h[0] = 0
               /\ \A i \in 1..Len(u) : h[i] = h[i-1] + u[i].len
               /\ \A i \in 0..Len(u) : h[i] \in Nat
  <2>1. u \in Seq(Token) BY <1>3
  <2> HIDE DEF u
  <2> QED BY <2>1, BytesSum
<1> HIDE DEF u, D, L
<1> DEFINE S == {m \in Nat : m <= D => h[m] = f[m]}
           T == {m \in Nat : m <= L => h[D + m] = f[D] + g[m]}
<1>5. 0 \in S BY <1>1, <1>4
<1>6. ASSUME NEW m \in Nat, m \in S PROVE m + 1 \in S
  <2> SUFFICES ASSUME m + 1 <= D PROVE h[m + 1] = f[m + 1] OBVIOUS
  <2>1. m + 1 \in 1..D /\ m + 1 \in 1..Len(u) /\ (m + 1) - 1 = m /\ h[m] = f[m]
    BY <1>3, <1>6
  <2>2. h[m + 1] = h[m] + u[m + 1].len BY <1>4, <2>1
  <2>3. f[m + 1] = f[m] + d[m + 1].len BY <1>1, <2>1
  <2> QED BY <1>3, <2>1, <2>2, <2>3
<1>7. Nat \subseteq S
  <2> HIDE DEF S
  <2> QED BY <1>5, <1>6, SetInduction
<1>8. h[D] = f[D] /\ f[D] \in Nat BY <1>1, <1>3, <1>7
<1>9. 0 \in T BY <1>2, <1>3, <1>8
<1>10. ASSUME NEW m \in Nat, m \in T PROVE m + 1 \in T
  <2> SUFFICES ASSUME m + 1 <= L PROVE h[D + (m + 1)] = f[D] + g[m + 1] OBVIOUS
  <2>1. /\ m + 1 \in 1..L /\ (m + 1) - 1 = m /\ h[D + m] = f[D] + g[m]
        /\ D + (m + 1) \in 1..Len(u) /\ (D + (m + 1)) - 1 = D + m
    BY <1>3, <1>10, SMTT(30)
  <2>2. h[D + (m + 1)] = h[D + m] + u[D + (m + 1)].len BY <1>4, <2>1
  <2>3. u[D + (m + 1)] = s[m + 1] BY <1>3, <2>1
  <2>4. g[m + 1] = g[m] + s[m + 1].len BY <1>2, <2>1
  <2>5. g[m] \in Nat /\ g[m + 1] \in Nat BY <1>2, <1>3, <2>1
  <2>6. s[m + 1].len \in Nat
    <3>1. s[m + 1] \in Token BY <1>3, <2>1 DEF L
    <3> QED BY <3>1 DEF Token
  <2> QED BY <1>8, <2>1, <2>2, <2>3, <2>4, <2>5, <2>6, SMTT(30)
<1>11. Nat \subseteq T
  <2> HIDE DEF T
  <2> QED BY <1>9, <1>10, SetInduction
<1>12. h[D + L] = f[D] + g[L] /\ g[L] \in Nat BY <1>2, <1>3, <1>11
<1> QED BY <1>1, <1>2, <1>3, <1>4, <1>8, <1>12 DEF u

\* The size is a number, and of a live process at most what its file holds.
SizeInv == size \in Nat /\ SizeNotOverstated

LEMMA SizeStep == NInv /\ SizeInv /\ [Next]_vars => SizeInv'
<1> SUFFICES ASSUME NInv, SizeInv, [Next]_vars PROVE SizeInv' OBVIOUS
<1>0. FileTypes /\ LifeInv /\ size \in Nat /\ (pc # "down" => size <= Bytes(data[fd]))
  BY DEF NInv, SizeInv, SizeNotOverstated
<1>1. ASSUME NEW s \in Partial \union {Line}, pc = "write", Extend(s)
      PROVE  /\ Bytes(s) \in Nat /\ Bytes(data[fd]) \in Nat
             /\ Bytes(data'[fd]) = Bytes(data[fd]) + Bytes(s)
  <2>1. data'[fd] = data[fd] \o s BY <1>1, ExtendType
  <2>2. data[fd] \in Seq(Token) /\ s \in Seq(Token)
    BY <1>0, <1>1, LineType DEF FileTypes, LifeInv
  <2> QED BY <2>1, <2>2, BytesConcat
<1>2. CASE Open
  <2>1. OpenLive /\ size' = Bytes(data'[fd']) BY <1>2 DEF Open
  <2>2. data'[fd'] \in Seq(Token) BY <2>1, OpenType
  <2>3. size' \in Nat BY <2>1, <2>2, BytesConcat
  <2> QED BY <2>1, <2>3 DEF SizeInv, SizeNotOverstated
<1>3. CASE Stamp \/ RemoveOldest \/ Shift \/ SyncDir \/ RotateFails \/ UNCHANGED vars
  <2>1. /\ UNCHANGED <<data, fd, size>>
        /\ pc' # "down" => pc # "down"
    BY <1>3 DEF Stamp, RemoveOldest, Shift, SyncDir, RotateFails, vars, disk, state
  <2> QED BY <1>0, <2>1 DEF SizeInv, SizeNotOverstated
<1>4. CASE Reopen
  <2>1. OpenLive /\ size' = 0 BY <1>4 DEF Reopen
  <2>2. data'[fd'] \in Seq(Token) BY <2>1, OpenType
  <2>3. Bytes(data'[fd']) \in Nat BY <2>2, BytesConcat
  <2> QED BY <2>1, <2>3 DEF SizeInv, SizeNotOverstated
<1>5. CASE WriteOk
  <2>1. pc = "write" /\ Extend(Line) /\ size' = size + Bytes(Line) /\ fd' = fd
    BY <1>5 DEF WriteOk
  <2>2. /\ Bytes(Line) \in Nat /\ Bytes(data[fd]) \in Nat
        /\ Bytes(data'[fd]) = Bytes(data[fd]) + Bytes(Line)
    BY <1>1, <2>1
  <2> QED BY <1>0, <2>1, <2>2 DEF SizeInv, SizeNotOverstated
<1>6. CASE WriteFails
  <2>1. PICK s \in Partial \union {Line} : Extend(s)
    BY <1>6 DEF WriteFails
  <2>2. pc = "write" /\ UNCHANGED <<fd, size>> BY <1>6 DEF WriteFails
  <2>3. /\ Bytes(s) \in Nat /\ Bytes(data[fd]) \in Nat
        /\ Bytes(data'[fd]) = Bytes(data[fd]) + Bytes(s)
    BY <1>1, <2>1, <2>2
  <2> QED BY <1>0, <2>2, <2>3 DEF SizeInv, SizeNotOverstated
<1>7. CASE Crash
  <2>1. pc' = "down" /\ size' = 0 BY <1>7 DEF Crash
  <2> QED BY <2>1 DEF SizeInv, SizeNotOverstated
<1> QED BY <1>2, <1>3, <1>4, <1>5, <1>6, <1>7 DEF Next

\* No file is under two names, and the size rotation goes by is never more
\* than the open file holds, whatever writes and rotations failed and
\* wherever a process died.
THEOREM FileCorrect == Spec => []FileInv
<1>1. Init => NInv /\ SizeInv
  BY NInit DEF Init, SizeInv, SizeNotOverstated
<1>2. NInv /\ SizeInv /\ [Next]_vars => NInv' /\ SizeInv'
  BY NStep, SizeStep
<1>3. NInv /\ SizeInv => FileInv
  BY DEF NInv, SizeInv, FileInv, FileTypes, TypeOK
<1> QED BY <1>1, <1>2, <1>3, PTL DEF Spec

-----------------------------------------------------------------------------
(* The history an operator reads.                                          *)

\* A place among the files that have a name.
Placed(p) ==
  /\ p = <<p[1], p[2]>> /\ p[1] \in Slots /\ dir[p[1]] # NoFile
  /\ p[2] \in DOMAIN data[dir[p[1]]]

\* A record is in the history by its place.
LEMMA InHistory ==
  /\ \A p : p \in History <=> (Placed(p) /\ At(p).t = "rec")
  /\ \A p : p \in History' <=> (Placed(p)' /\ At(p)'.t = "rec")
<1>1. ASSUME NEW p PROVE p \in Places <=> Placed(p)
  BY DEF Places, Placed
<1>2. ASSUME NEW p PROVE p \in Places' <=> Placed(p)'
  BY DEF Places, Placed
<1>3. ASSUME NEW p PROVE p \in History' <=> (Placed(p)' /\ At(p)'.t = "rec")
  <2>1. p \in History' <=> (p \in Places' /\ At(p)'.t = "rec")
    BY DEF History, At
  <2> QED BY <1>2, <2>1
<1> QED BY <1>1, <1>3 DEF History

\* The place o is p's or after it.
AtOrAfter(p, o) == o = p \/ Before(p, o)

\* The next record the process writes may follow the record a.
Ready(a) ==
  \/ a.run = run /\ a.seq \in {seq, seq + 1}
  \/ a.run < run /\ seq = 0

\* Between a record and any before it there is one it may follow, and so there
\* is between those and the next one written.  Put so, neither is disturbed
\* when the oldest records go.
Chained ==
  \A p, q \in History : Before(p, q) =>
    \E o \in History : AtOrAfter(p, o) /\ Before(o, q) /\ Follows(At(o), At(q))
Awaited == \A p \in History : \E o \in History : AtOrAfter(p, o) /\ Ready(At(o))

\* Every file that has a name is older than the open one, which thus is the
\* last to lose its own.
Youngest == \A i \in Slots : dir[i] # NoFile => \E j \in Slots : dir[j] = fd /\ j <= i

NoneLater == \A p \in History : At(p).run <= run

HistoryInv ==
  /\ NoneLater /\ Chained
  /\ pc # "down" => Awaited /\ Youngest

\* Places are pairs of numbers.
LEMMA PlaceType ==
  ASSUME NInv
  PROVE  \A p : Placed(p) => /\ p = <<p[1], p[2]>> /\ p[1] \in Nat /\ p[1] \in Slots
                             /\ p[2] \in Nat /\ p[2] > 0 /\ dir[p[1]] \in Files
                             /\ data[dir[p[1]]] \in Seq(Token)
                             /\ p[2] <= Len(data[dir[p[1]]])
<1> SUFFICES ASSUME NEW p, Placed(p)
             PROVE  /\ p = <<p[1], p[2]>> /\ p[1] \in Nat /\ p[1] \in Slots
                    /\ p[2] \in Nat /\ p[2] > 0 /\ dir[p[1]] \in Files
                    /\ data[dir[p[1]]] \in Seq(Token)
                    /\ p[2] <= Len(data[dir[p[1]]])
  OBVIOUS
<1>1. dir \in [Slots -> Files \union {NoFile}] /\ data \in [Files -> Seq(Token)]
  BY DEF NInv, FileTypes
<1>2. /\ p = <<p[1], p[2]>> /\ p[1] \in Slots /\ dir[p[1]] \in Files
      /\ p[2] \in DOMAIN data[dir[p[1]]]
  BY <1>1 DEF Placed
<1>3. data[dir[p[1]]] \in Seq(Token)
  BY <1>1, <1>2
<1>4. p[2] \in 1..Len(data[dir[p[1]]]) /\ Len(data[dir[p[1]]]) \in Nat
  BY <1>2, <1>3
<1>5. p[1] \in Nat
  BY <1>2, KeepAssumption DEF Slots
<1> QED BY <1>2, <1>3, <1>4, <1>5

\* A step that leaves the history as it was.
LEMMA SameHistory ==
  ASSUME History' = History, \A p \in History : At(p)' = At(p)
  PROVE  /\ Chained => Chained'
         /\ Awaited /\ run' = run /\ seq' = seq => Awaited'
         /\ NoneLater /\ run' = run => NoneLater'
<1>1. Chained => Chained'
  BY DEF Chained
<1>2. Awaited /\ run' = run /\ seq' = seq => Awaited'
  BY DEF Awaited, Ready
<1>3. NoneLater /\ run' = run => NoneLater'
  BY DEF NoneLater
<1> QED BY <1>1, <1>2, <1>3

\* The live file opened or recreated has no record that was not there.
LEMMA OpenHistory ==
  ASSUME NInv, OpenLive
  PROVE  History' = History /\ \A p \in History : At(p)' = At(p)
<1>0. /\ 0 \in Slots /\ dir \in [Slots -> Files \union {NoFile}]
      /\ data \in [Files -> Seq(Token)]
  BY KeepAssumption DEF Slots, NInv, FileTypes
<1>1. CASE dir[0] # NoFile
  <2>1. dir' = dir /\ data' = data
    BY <1>1 DEF OpenLive, disk
  <2>2. \A p : At(p)' = At(p) /\ (Placed(p)' <=> Placed(p))
    BY <2>1 DEF At, Placed
  <2>3. \A p : p \in History' <=> p \in History
    BY <2>2, InHistory
  <2> QED BY <2>2, <2>3
<1>2. CASE dir[0] = NoFile
  <2> PICK f \in Files \ (Linked \union {fd}) :
         /\ fd' = f
         /\ dir' = [dir EXCEPT ![0] = f]
         /\ data' = [data EXCEPT ![f] = <<>>]
    BY <1>2 DEF OpenLive
  <2>1. \A i \in Slots : dir[i] # f
    BY FilesAssumption DEF Linked
  <2>2. ASSUME NEW p, Placed(p) PROVE Placed(p)' /\ At(p)' = At(p)
    <3>1. p[1] \in Slots /\ p[1] # 0 /\ dir[p[1]] # f /\ dir[p[1]] \in Files
      BY <1>0, <1>2, <2>1, <2>2 DEF Placed
    <3>2. dir'[p[1]] = dir[p[1]] /\ data'[dir[p[1]]] = data[dir[p[1]]]
      BY <1>0, <3>1
    <3> QED BY <2>2, <3>2 DEF Placed, At
  <2>3. ASSUME NEW p, Placed(p)' PROVE Placed(p)
    <3>1. /\ p = <<p[1], p[2]>> /\ p[1] \in Slots /\ dir'[p[1]] # NoFile
          /\ p[2] \in DOMAIN data'[dir'[p[1]]]
      BY <2>3 DEF Placed
    <3>2. p[1] # 0
      <4> SUFFICES ASSUME p[1] = 0 PROVE FALSE OBVIOUS
      <4>1. dir'[0] = f /\ data'[f] = <<>>
        BY <1>0
      <4>2. p[2] \in DOMAIN <<>>
        BY <3>1, <4>1
      <4> QED BY <4>2
    <3>3. dir'[p[1]] = dir[p[1]]
      BY <1>0, <3>1, <3>2
    <3>4. dir[p[1]] \in Files /\ dir[p[1]] # f
      BY <1>0, <2>1, <3>1, <3>3
    <3>5. data'[dir[p[1]]] = data[dir[p[1]]]
      BY <1>0, <3>4
    <3> QED BY <3>1, <3>3, <3>5 DEF Placed
  <2>4. \A p : p \in History' <=> p \in History
    BY <2>2, <2>3, InHistory
  <2>5. \A p \in History : At(p)' = At(p)
    BY <2>2, InHistory
  <2> QED BY <2>4, <2>5
<1> QED BY <1>1, <1>2

\* The oldest slot goes, and nothing that came after what is left of it.
LEMMA RemoveHistory ==
  ASSUME NInv, HistoryInv, RemoveOldest
  PROVE  HistoryInv'
<1>0. /\ dir \in [Slots -> Files \union {NoFile}] /\ Keep \in Slots /\ Slots \subseteq Nat
      /\ pc = "remove" /\ pc' = "shift" /\ dir' = [dir EXCEPT ![Keep] = NoFile]
      /\ UNCHANGED <<data, fd, run, seq>>
  BY KeepAssumption DEF NInv, FileTypes, Slots, RemoveOldest, state
<1>1. \A p : p \in History' <=> (p \in History /\ p[1] # Keep)
  <2> TAKE p
  <2>1. ASSUME p[1] # Keep PROVE At(p)' = At(p) /\ (Placed(p)' <=> Placed(p))
    <3>1. p[1] \in Slots => dir'[p[1]] = dir[p[1]]
      BY <1>0, <2>1
    <3>2. Placed(p)' <=> Placed(p)
      BY <1>0, <3>1 DEF Placed
    <3>3. At(p)' = At(p)
      <4>1. dir'[p[1]] = dir[p[1]]
        BY <1>0, <2>1
      <4> QED BY <1>0, <4>1 DEF At
    <3> QED BY <3>2, <3>3
  <2>2. p[1] = Keep => ~Placed(p)'
    BY <1>0 DEF Placed
  <2> QED BY <2>1, <2>2, InHistory
<1>2. \A p : p[1] # Keep => At(p)' = At(p)
  BY <1>0 DEF At
<1>3. \A p \in History : p[1] \in Nat /\ p[1] <= Keep
  <2>1. \A p \in History : p[1] \in Slots
    BY InHistory DEF Placed
  <2> QED BY <2>1, KeepAssumption DEF Slots
<1>4. \A p \in History', o \in History : AtOrAfter(p, o) => o \in History'
  <2> SUFFICES ASSUME NEW p \in History', NEW o \in History, AtOrAfter(p, o)
               PROVE  o[1] # Keep
    BY <1>1
  <2>1. p \in History /\ p[1] # Keep
    BY <1>1
  <2>2. o[1] <= p[1]
    BY <1>3, <2>1 DEF AtOrAfter, Before
  <2> QED BY <1>3, <2>1, <2>2, KeepAssumption
<1>5. Chained'
  <2> SUFFICES ASSUME NEW p \in History', NEW q \in History', Before(p, q)
               PROVE  \E o \in History' :
                        AtOrAfter(p, o) /\ Before(o, q) /\ Follows(At(o)', At(q)')
    BY DEF Chained
  <2>1. PICK o \in History : AtOrAfter(p, o) /\ Before(o, q) /\ Follows(At(o), At(q))
    BY <1>1 DEF Chained, HistoryInv
  <2>2. o \in History'
    BY <1>4, <2>1
  <2>3. At(o)' = At(o) /\ At(q)' = At(q)
    BY <1>1, <1>2, <2>2
  <2> QED BY <2>1, <2>2, <2>3
<1>6. Awaited'
  <2> SUFFICES ASSUME NEW p \in History'
               PROVE  \E o \in History' : AtOrAfter(p, o) /\ Ready(At(o))'
    BY DEF Awaited
  <2>1. PICK o \in History : AtOrAfter(p, o) /\ Ready(At(o))
    BY <1>0, <1>1 DEF Awaited, HistoryInv
  <2>2. o \in History'
    BY <1>4, <2>1
  <2>3. At(o)' = At(o)
    BY <1>1, <1>2, <2>2
  <2> QED BY <1>0, <2>1, <2>2, <2>3 DEF Ready
<1>7. Youngest'
  <2> SUFFICES ASSUME NEW i \in Slots, dir'[i] # NoFile
               PROVE  \E j \in Slots : dir'[j] = fd /\ j <= i
    BY <1>0 DEF Youngest
  <2>1. i # Keep /\ dir[i] # NoFile
    BY <1>0
  <2>2. PICK j \in Slots : dir[j] = fd /\ j <= i
    BY <1>0, <2>1 DEF Youngest, HistoryInv
  <2>3. j # Keep
    BY <1>0, <2>1, <2>2, KeepAssumption DEF Slots
  <2> QED BY <1>0, <2>2, <2>3
<1>8. NoneLater'
  BY <1>0, <1>1, <1>2 DEF NoneLater, HistoryInv
<1> QED BY <1>5, <1>6, <1>7, <1>8 DEF HistoryInv

\* Where the shift of slot m-1 onto slot m takes a place, and where one is from.
Forth(m, p) == IF p[1] = m - 1 THEN <<m, p[2]>> ELSE p
Back(m, p) == IF p[1] = m THEN <<m - 1, p[2]>> ELSE p

\* A rename moves the records of one slot and leaves the order.
LEMMA ShiftHistory ==
  ASSUME NInv, HistoryInv, Shift
  PROVE  HistoryInv'
<1> PICK m : m = n
  OBVIOUS
<1>0. /\ dir \in [Slots -> Files \union {NoFile}] /\ Slots \subseteq Nat
      /\ pc = "shift" /\ pc' # "down" /\ UNCHANGED <<data, fd, run, seq>>
      /\ m \in Slots /\ m - 1 \in Slots /\ m > 0 /\ dir[m] = NoFile
      /\ \A i \in Slots : dir'[i] = IF i = m THEN dir[m - 1]
                                    ELSE IF i = m - 1 THEN NoFile ELSE dir[i]
  <2>1. /\ dir \in [Slots -> Files \union {NoFile}] /\ pc = "shift" /\ m \in Slots
        /\ m > 0 /\ dir[m] = NoFile
    BY DEF NInv, FileTypes, LifeInv, Shift
  <2>2. m - 1 \in Slots /\ m - 1 # m /\ Slots \subseteq Nat
    BY <2>1, KeepAssumption DEF Slots
  <2>3. dir' = IF dir[m - 1] = NoFile THEN dir
               ELSE [dir EXCEPT ![m] = dir[m - 1], ![m - 1] = NoFile]
    BY DEF Shift
  <2>4. \A i \in Slots : dir'[i] = IF i = m THEN dir[m - 1]
                                   ELSE IF i = m - 1 THEN NoFile ELSE dir[i]
    BY <2>1, <2>2, <2>3
  <2>5. pc' # "down" /\ UNCHANGED <<data, fd, run, seq>>
    BY DEF Shift, state
  <2> QED BY <2>1, <2>2, <2>4, <2>5
<1>1. \A p \in History : /\ p = <<p[1], p[2]>> /\ p[1] \in Slots /\ p[2] \in Nat /\ p[1] # m
                         /\ dir[p[1]] # NoFile
  BY <1>0, InHistory, PlaceType DEF Placed
<1>2. ASSUME NEW p \in History
      PROVE  /\ Forth(m, p) \in History' /\ Back(m, Forth(m, p)) = p
  <2>1. p = <<p[1], p[2]>> /\ p[1] \in Slots /\ p[1] # m /\ Placed(p) /\ At(p).t = "rec"
    BY <1>1, InHistory
  <2>2. CASE p[1] = m - 1
    <3> DEFINE r == <<m, p[2]>>
    <3>1. Forth(m, p) = r /\ r[1] = m /\ r[2] = p[2] /\ dir'[m] = dir[p[1]]
      BY <1>0, <2>2 DEF Forth
    <3>2. Placed(r)' /\ At(r)' = At(p)
      BY <1>0, <2>1, <3>1 DEF Placed, At
    <3>3. Back(m, r) = p
      BY <2>1, <2>2, <3>1 DEF Back
    <3> QED BY <2>1, <3>1, <3>2, <3>3, InHistory
  <2>3. CASE p[1] # m - 1
    <3>1. Forth(m, p) = p /\ Back(m, p) = p /\ dir'[p[1]] = dir[p[1]]
      BY <1>0, <2>1, <2>3 DEF Forth, Back
    <3>2. Placed(p)' /\ At(p)' = At(p)
      BY <1>0, <2>1, <3>1 DEF Placed, At
    <3> QED BY <2>1, <3>1, <3>2, InHistory
  <2> QED BY <2>2, <2>3
<1>3. ASSUME NEW p \in History'
      PROVE  /\ Back(m, p) \in History /\ At(p)' = At(Back(m, p)) /\ p[1] # m - 1
             /\ p = <<p[1], p[2]>> /\ p[1] \in Slots
  <2>1. /\ p = <<p[1], p[2]>> /\ p[1] \in Slots /\ dir'[p[1]] # NoFile
        /\ p[2] \in DOMAIN data[dir'[p[1]]] /\ At(p)' = data[dir'[p[1]]][p[2]]
        /\ At(p)'.t = "rec"
    BY <1>0, InHistory DEF Placed, At
  <2>2. p[1] # m - 1
    BY <1>0, <2>1
  <2>3. CASE p[1] = m
    <3> DEFINE r == <<m - 1, p[2]>>
    <3>1. Back(m, p) = r /\ r[1] = m - 1 /\ r[2] = p[2] /\ dir'[p[1]] = dir[m - 1]
      BY <1>0, <2>1, <2>3 DEF Back
    <3>2. Placed(r) /\ At(r) = At(p)'
      BY <1>0, <2>1, <3>1 DEF Placed, At
    <3> QED BY <2>1, <2>2, <3>1, <3>2, InHistory
  <2>4. CASE p[1] # m
    <3>1. Back(m, p) = p /\ dir'[p[1]] = dir[p[1]]
      BY <1>0, <2>1, <2>2, <2>4 DEF Back
    <3>2. Placed(p) /\ At(p) = At(p)'
      BY <1>0, <2>1, <3>1 DEF Placed, At
    <3> QED BY <2>1, <2>2, <3>1, <3>2, InHistory
  <2> QED BY <2>3, <2>4
<1>4. ASSUME NEW p \in History', NEW q \in History'
      PROVE  /\ Before(p, q) <=> Before(Back(m, p), Back(m, q))
             /\ Back(m, p) = Back(m, q) => p = q
  <2>1. /\ p = <<p[1], p[2]>> /\ q = <<q[1], q[2]>> /\ p[1] # m - 1 /\ q[1] # m - 1
        /\ p[1] \in Nat /\ q[1] \in Nat /\ m \in Nat
    BY <1>0, <1>3
  <2>2. /\ Back(m, p)[2] = p[2] /\ Back(m, q)[2] = q[2]
        /\ Back(m, p)[1] = IF p[1] = m THEN m - 1 ELSE p[1]
        /\ Back(m, q)[1] = IF q[1] = m THEN m - 1 ELSE q[1]
    BY <2>1 DEF Back
  <2>3. Back(m, p)[1] > Back(m, q)[1] <=> p[1] > q[1]
    BY <2>1, <2>2
  <2>4. Back(m, p)[1] = Back(m, q)[1] <=> p[1] = q[1]
    BY <2>1, <2>2
  <2>5. Before(p, q) <=> Before(Back(m, p), Back(m, q))
    BY <2>2, <2>3, <2>4 DEF Before
  <2>6. Back(m, p) = Back(m, q) => p = q
    BY <2>1, <2>2, <2>4
  <2> QED BY <2>5, <2>6
<1>5. ASSUME NEW p \in History', NEW o \in History, AtOrAfter(Back(m, p), o)
      PROVE  Forth(m, o) \in History' /\ AtOrAfter(p, Forth(m, o)) /\ At(Forth(m, o))' = At(o)
  <2>1. Forth(m, o) \in History' /\ Back(m, Forth(m, o)) = o
    BY <1>2
  <2>2. At(Forth(m, o))' = At(o)
    BY <1>3, <2>1
  <2>3. AtOrAfter(p, Forth(m, o))
    BY <1>4, <1>5, <2>1 DEF AtOrAfter
  <2> QED BY <2>1, <2>2, <2>3
<1>6. Chained'
  <2> SUFFICES ASSUME NEW p \in History', NEW q \in History', Before(p, q)
               PROVE  \E o \in History' :
                        AtOrAfter(p, o) /\ Before(o, q) /\ Follows(At(o)', At(q)')
    BY DEF Chained
  <2>1. Back(m, p) \in History /\ Back(m, q) \in History /\ Before(Back(m, p), Back(m, q))
    BY <1>3, <1>4
  <2>2. PICK o \in History :
          AtOrAfter(Back(m, p), o) /\ Before(o, Back(m, q)) /\ Follows(At(o), At(Back(m, q)))
    BY <2>1 DEF Chained, HistoryInv
  <2>3. Forth(m, o) \in History' /\ AtOrAfter(p, Forth(m, o)) /\ At(Forth(m, o))' = At(o)
    BY <1>5, <2>2
  <2>4. Before(Forth(m, o), q)
    BY <1>2, <1>4, <2>2, <2>3
  <2>5. At(q)' = At(Back(m, q))
    BY <1>3
  <2> QED BY <2>2, <2>3, <2>4, <2>5
<1>7. Awaited'
  <2> SUFFICES ASSUME NEW p \in History'
               PROVE  \E o \in History' : AtOrAfter(p, o) /\ Ready(At(o))'
    BY DEF Awaited
  <2>1. PICK o \in History : AtOrAfter(Back(m, p), o) /\ Ready(At(o))
    BY <1>0, <1>3 DEF Awaited, HistoryInv
  <2>2. Forth(m, o) \in History' /\ AtOrAfter(p, Forth(m, o)) /\ At(Forth(m, o))' = At(o)
    BY <1>5, <2>1
  <2>3. Ready(At(Forth(m, o)))'
    BY <1>0, <2>1, <2>2 DEF Ready
  <2> QED BY <2>2, <2>3
<1>8. Youngest'
  <2> SUFFICES ASSUME NEW i \in Slots, dir'[i] # NoFile
               PROVE  \E j \in Slots : dir'[j] = fd /\ j <= i
    BY <1>0 DEF Youngest
  <2> DEFINE k == IF i = m THEN m - 1 ELSE i
  <2>1. k \in Slots /\ dir[k] # NoFile /\ i # m - 1
    BY <1>0
  <2>2. PICK j \in Slots : dir[j] = fd /\ j <= k
    BY <1>0, <2>1 DEF Youngest, HistoryInv
  <2>3. j # m
    BY <1>0, <2>2, FilesAssumption DEF NInv, LifeInv
  <2>4. CASE j = m - 1
    <3>1. dir'[m] = fd /\ m <= i
      BY <1>0, <2>1, <2>2, <2>4
    <3> QED BY <1>0, <3>1
  <2>5. CASE j # m - 1
    <3>1. dir'[j] = fd /\ j <= i
      BY <1>0, <2>2, <2>3, <2>5
    <3> QED BY <3>1
  <2> QED BY <2>4, <2>5
<1>9. NoneLater'
  BY <1>0, <1>3 DEF NoneLater, HistoryInv
<1> QED BY <1>0, <1>6, <1>7, <1>8, <1>9 DEF HistoryInv

\* The line in hand has one record, which a part of it may lack.
LEMMA LineRecord ==
  ASSUME NInv, pc = "write", NEW s \in Partial \union {Line}
  PROVE  /\ s \in Seq(Token)
         /\ \A k \in 1..Len(s) : s[k].t = "rec" => s[k] = Record
         /\ \A k, l \in 1..Len(s) : s[k].t = "rec" /\ s[l].t = "rec" => k = l
         /\ s = Line => \E k \in 1..Len(s) : s[k].t = "rec"
         /\ Record.run = run /\ Record.seq = seq + 1
<1> DEFINE N == Newline
           F == Fragment
           R == Record
<1>1. s \in Seq(Token)
  BY LineType
<1>2. N.t = "nl" /\ F.t = "frag" /\ R.t = "rec"
  BY DEF Newline, Fragment, Record
<1>3. /\ Append(<<N>>, F) = <<N, F>> /\ Append(<<N>>, R) = <<N, R>>
      /\ Append(<<>>, F) = <<F>> /\ Append(<<>>, R) = <<R>>
  BY AppendShort
<1>4. \/ s = <<>> \/ s = <<N>> \/ s = <<N, F>> \/ s = <<F>>
      \/ s = <<N, R>> \/ s = <<N, R, N>> \/ s = <<R>> \/ s = <<R, N>>
  <2>1. s \in {<<>>, <<N>>, <<R, N>>, <<N, R, N>>, Append(<<N>>, F), Append(<<N>>, R),
               Append(<<>>, F), Append(<<>>, R)}
    BY DEF Partial, Line
  <2> HIDE DEF N, F, R
  <2> QED BY <1>3, <2>1, Zenon
<1>5. s = Line => s = <<N, R, N>> \/ s = <<R, N>>
  BY DEF Line
<1>6. Record.run = run /\ Record.seq = seq + 1 /\ R = Record
  BY DEF Record
<1> HIDE DEF N, F, R
<1>7. \A k \in 1..Len(s) : s[k].t = "rec" => s[k] = R
  BY <1>2, <1>4
<1>8. \A k, l \in 1..Len(s) : s[k].t = "rec" /\ s[l].t = "rec" => k = l
  BY <1>2, <1>4
<1>9. s = Line => \E k \in 1..Len(s) : s[k].t = "rec"
  <2>1. CASE s = <<N, R, N>>
    <3>1. 2 \in 1..Len(s) /\ s[2] = R
      BY <2>1
    <3> QED BY <1>2, <3>1
  <2>2. CASE s = <<R, N>>
    <3>1. 1 \in 1..Len(s) /\ s[1] = R
      BY <2>2
    <3> QED BY <1>2, <3>1
  <2> QED BY <1>5, <2>1, <2>2
<1> QED BY <1>1, <1>6, <1>7, <1>8, <1>9

\* What a write leaves in the history: what was there, and at most one record
\* more, behind it all.
LEMMA Written ==
  ASSUME NInv, HistoryInv, pc = "write", NEW s \in Partial \union {Line}, Extend(s),
         dir' = dir
  PROVE  /\ History \subseteq History' /\ \A p \in History : At(p)' = At(p)
         /\ \A p \in History' \ History :
              At(p)' = Record /\ \A q \in History : Before(q, p) /\ ~Before(p, q) /\ p # q
         /\ \A p, q \in History' \ History : p = q /\ ~Before(p, q)
         /\ s = Line /\ History' # {} => History' \ History # {}
<1> DEFINE d == data[fd]
           D == Len(d)
<1>1. /\ s \in Seq(Token)
      /\ \A k \in 1..Len(s) : s[k].t = "rec" => s[k] = Record
      /\ \A k, l \in 1..Len(s) : s[k].t = "rec" /\ s[l].t = "rec" => k = l
      /\ s = Line => \E k \in 1..Len(s) : s[k].t = "rec"
  BY LineRecord
<1>2. /\ data'[fd] = d \o s /\ \A f \in Files : f # fd => data'[f] = data[f]
      /\ d \in Seq(Token) /\ fd \in Files /\ fd # NoFile /\ OneNamePerFile
      /\ dir \in [Slots -> Files \union {NoFile}] /\ Slots \subseteq Nat /\ Youngest
  BY ExtendType, FilesAssumption, KeepAssumption
  DEF NInv, FileTypes, LifeInv, HistoryInv, Slots
<1>3. /\ D \in Nat /\ Len(s) \in Nat /\ d \o s \in Seq(Token) /\ Len(d \o s) = D + Len(s)
      /\ \A k \in 1..D : (d \o s)[k] = d[k]
      /\ \A k \in 1..Len(s) : (d \o s)[D + k] = s[k]
  BY <1>1, <1>2, ConcatProperties
<1>4. DOMAIN (d \o s) = 1..D + Len(s) /\ DOMAIN d = 1..D
  BY <1>2, <1>3
<1>5. ASSUME NEW p \in History PROVE p \in History' /\ At(p)' = At(p)
  <2>1. Placed(p) /\ At(p).t = "rec" /\ dir[p[1]] \in Files
    BY <1>2, InHistory DEF Placed
  <2>2. CASE dir[p[1]] = fd
    <3>1. p[2] \in 1..D /\ At(p) = d[p[2]]
      BY <1>4, <2>1, <2>2 DEF Placed, At
    <3>2. p[2] \in 1..D + Len(s) /\ (d \o s)[p[2]] = d[p[2]]
      BY <1>3, <3>1
    <3>3. Placed(p)' /\ At(p)' = At(p)
      BY <1>2, <1>4, <2>1, <2>2, <3>1, <3>2 DEF Placed, At
    <3> QED BY <2>1, <3>3, InHistory
  <2>3. CASE dir[p[1]] # fd
    <3>1. data'[dir[p[1]]] = data[dir[p[1]]]
      BY <1>2, <2>1, <2>3
    <3>2. Placed(p)' /\ At(p)' = At(p)
      BY <2>1, <3>1 DEF Placed, At
    <3> QED BY <2>1, <3>2, InHistory
  <2> QED BY <2>2, <2>3
<1>6. ASSUME NEW p \in History' \ History
      PROVE  /\ p = <<p[1], p[2]>> /\ p[1] \in Slots /\ dir[p[1]] = fd /\ p[2] - D \in 1..Len(s)
             /\ p[2] \in Nat /\ s[p[2] - D].t = "rec" /\ At(p)' = Record
  <2>1. /\ p = <<p[1], p[2]>> /\ p[1] \in Slots /\ dir[p[1]] # NoFile
        /\ p[2] \in DOMAIN data'[dir[p[1]]] /\ At(p)' = data'[dir[p[1]]][p[2]]
        /\ At(p)'.t = "rec"
    BY InHistory DEF Placed, At
  <2>2. dir[p[1]] \in Files
    BY <1>2, <2>1
  <2>3. ~(Placed(p) /\ At(p).t = "rec")
    BY InHistory
  <2>4. dir[p[1]] = fd
    <3> SUFFICES ASSUME dir[p[1]] # fd PROVE FALSE OBVIOUS
    <3>1. data'[dir[p[1]]] = data[dir[p[1]]]
      BY <1>2, <2>2
    <3> QED BY <2>1, <2>3, <3>1 DEF Placed, At
  <2>5. p[2] \in 1..D + Len(s) /\ At(p)' = (d \o s)[p[2]]
    BY <1>2, <1>4, <2>1, <2>4
  <2>6. ~(p[2] \in 1..D)
    <3> SUFFICES ASSUME p[2] \in 1..D PROVE FALSE OBVIOUS
    <3>1. At(p) = d[p[2]] /\ (d \o s)[p[2]] = d[p[2]]
      BY <1>3, <2>4 DEF At
    <3> QED BY <1>4, <2>1, <2>3, <2>4, <2>5, <3>1 DEF Placed
  <2>7. p[2] - D \in 1..Len(s) /\ D + (p[2] - D) = p[2] /\ p[2] \in Nat
    BY <1>3, <2>5, <2>6
  <2>8. At(p)' = s[p[2] - D]
    BY <1>3, <2>5, <2>7
  <2> QED BY <1>1, <2>1, <2>4, <2>7, <2>8
<1>7. ASSUME NEW p \in History' \ History, NEW q \in History
      PROVE  Before(q, p) /\ ~Before(p, q) /\ p # q
  <2>1. /\ q[1] \in Slots /\ dir[q[1]] # NoFile /\ q[2] \in Nat
        /\ q[2] <= Len(data[dir[q[1]]])
    BY InHistory, PlaceType DEF Placed
  <2>2. PICK j \in Slots : dir[j] = fd /\ j <= q[1]
    BY <1>2, <2>1 DEF Youngest
  <2>3. j = p[1]
    BY <1>2, <1>6, <2>2 DEF OneNamePerFile
  <2>4. q[1] = p[1] => q[2] <= D
    BY <1>6, <2>1
  <2>5. p[2] > D /\ p[2] \in Nat /\ p[1] \in Nat /\ q[1] \in Nat
    BY <1>2, <1>3, <1>6, <2>1
  <2> QED BY <1>3, <2>1, <2>2, <2>3, <2>4, <2>5 DEF Before
<1>8. ASSUME NEW p \in History' \ History, NEW q \in History' \ History
      PROVE  p = q /\ ~Before(p, q)
  <2>1. p[1] = q[1] /\ p[1] \in Nat
    BY <1>2, <1>6 DEF OneNamePerFile
  <2>2. p[2] - D = q[2] - D /\ p[2] \in Nat /\ q[2] \in Nat
    BY <1>1, <1>6
  <2>3. p[2] = q[2]
    BY <1>3, <2>2
  <2>4. p = q
    BY <1>6, <2>1, <2>3
  <2>5. ~Before(p, q)
    BY <2>1, <2>2, <2>4 DEF Before
  <2> QED BY <2>4, <2>5
<1>9. ASSUME s = Line, NEW p \in History' PROVE History' \ History # {}
  <2>1. PICK k \in 1..Len(s) : s[k].t = "rec"
    BY <1>1, <1>9
  <2>2. p[1] \in Slots /\ dir[p[1]] # NoFile
    BY InHistory DEF Placed
  <2>3. PICK j \in Slots : dir[j] = fd
    BY <1>2, <2>2 DEF Youngest
  <2> DEFINE i == D + k
  <2>4. /\ i \in 1..D + Len(s) /\ i \notin 1..D /\ (d \o s)[i] = s[k]
    BY <1>3, <2>1
  <2> HIDE DEF i
  <2> PICK m : m = i
    OBVIOUS
  <2> DEFINE w == <<j, m>>
  <2>5. w[1] = j /\ w[2] = m
    OBVIOUS
  <2>6. Placed(w)' /\ At(w)'.t = "rec"
    BY <1>2, <1>4, <2>1, <2>3, <2>4, <2>5 DEF Placed, At
  <2>7. ~Placed(w)
    BY <1>4, <2>3, <2>4, <2>5 DEF Placed
  <2> HIDE DEF w
  <2>8. w \in History' /\ w \notin History
    BY <2>6, <2>7, InHistory
  <2> QED BY <2>8
<1> QED BY <1>5, <1>6, <1>7, <1>8, <1>9

\* Whatever a write leaves, a record may follow one that stands since any
\* record before it.
LEMMA WriteHistory ==
  ASSUME NInv, HistoryInv, pc = "write", NEW s \in Partial \union {Line}, Extend(s),
         dir' = dir, run' = run
  PROVE  /\ Chained' /\ NoneLater'
         /\ seq' = seq => Awaited'
         /\ s = Line /\ seq' = seq + 1 => Awaited'
<1>1. /\ History \subseteq History' /\ \A p \in History : At(p)' = At(p)
      /\ \A p \in History' \ History :
           At(p)' = Record /\ \A q \in History : Before(q, p) /\ ~Before(p, q) /\ p # q
      /\ \A p, q \in History' \ History : p = q /\ ~Before(p, q)
      /\ s = Line /\ History' # {} => History' \ History # {}
  BY Written
<1>2. Chained /\ Awaited /\ NoneLater
  BY DEF HistoryInv
<1>3. Record.run = run /\ Record.seq = seq + 1 /\ seq \in Nat /\ run \in Nat
  BY LineRecord DEF NInv, FileTypes
<1>4. \A a : Ready(a) => Follows(a, Record)
  <2> SUFFICES ASSUME NEW a, Ready(a) PROVE Follows(a, Record)
    OBVIOUS
  <2>1. CASE a.run = run /\ a.seq \in {seq, seq + 1}
    <3>1. Record.seq \in {a.seq, a.seq + 1}
      BY <1>3, <2>1
    <3> QED BY <1>3, <2>1, <3>1 DEF Follows
  <2>2. CASE a.run < run /\ seq = 0
    BY <1>3, <2>2 DEF Follows
  <2> QED BY <2>1, <2>2 DEF Ready
<1>5. Chained'
  <2> SUFFICES ASSUME NEW p \in History', NEW q \in History', Before(p, q)
               PROVE  \E o \in History' :
                        AtOrAfter(p, o) /\ Before(o, q) /\ Follows(At(o)', At(q)')
    BY DEF Chained
  <2>1. CASE q \in History
    <3>1. p \in History
      BY <1>1, <2>1
    <3>2. PICK o \in History : AtOrAfter(p, o) /\ Before(o, q) /\ Follows(At(o), At(q))
      BY <1>2, <2>1, <3>1 DEF Chained
    <3> QED BY <1>1, <2>1, <3>2
  <2>2. CASE q \notin History
    <3>1. p \in History
      BY <1>1, <2>2
    <3>2. PICK o \in History : AtOrAfter(p, o) /\ Ready(At(o))
      BY <1>2, <3>1 DEF Awaited
    <3>3. o \in History' /\ Before(o, q) /\ At(o)' = At(o) /\ At(q)' = Record
      BY <1>1, <2>2, <3>2
    <3>4. Follows(At(o)', At(q)')
      BY <1>4, <3>2, <3>3
    <3> QED BY <3>2, <3>3, <3>4
  <2> QED BY <2>1, <2>2
<1>6. NoneLater'
  <2> SUFFICES ASSUME NEW p \in History' PROVE At(p)'.run <= run
    BY DEF NoneLater
  <2>1. CASE p \in History
    BY <1>1, <1>2, <2>1 DEF NoneLater
  <2>2. CASE p \notin History
    BY <1>1, <1>3, <2>2
  <2> QED BY <2>1, <2>2
<1>7. ASSUME seq' = seq PROVE Awaited'
  <2> SUFFICES ASSUME NEW p \in History'
               PROVE  \E o \in History' : AtOrAfter(p, o) /\ Ready(At(o))'
    BY DEF Awaited
  <2>1. CASE p \in History
    <3>1. PICK o \in History : AtOrAfter(p, o) /\ Ready(At(o))
      BY <1>2, <2>1 DEF Awaited
    <3>2. o \in History' /\ At(o)' = At(o)
      BY <1>1
    <3>3. Ready(At(o))'
      BY <1>7, <3>1, <3>2 DEF Ready
    <3> QED BY <3>1, <3>2, <3>3
  <2>2. CASE p \notin History
    <3>1. At(p)'.run = run' /\ At(p)'.seq = seq' + 1
      BY <1>1, <1>3, <1>7, <2>2
    <3>2. Ready(At(p))'
      BY <3>1 DEF Ready
    <3> QED BY <3>2 DEF AtOrAfter
  <2> QED BY <2>1, <2>2
<1>8. ASSUME s = Line, seq' = seq + 1 PROVE Awaited'
  <2> SUFFICES ASSUME NEW p \in History'
               PROVE  \E o \in History' : AtOrAfter(p, o) /\ Ready(At(o))'
    BY DEF Awaited
  <2>1. PICK w \in History' : w \notin History
    BY <1>1, <1>8
  <2>2. At(w)'.run = run' /\ At(w)'.seq = seq'
    BY <1>1, <1>3, <1>8, <2>1
  <2>3. Ready(At(w))'
    BY <2>2 DEF Ready
  <2>4. AtOrAfter(p, w)
    BY <1>1, <2>1 DEF AtOrAfter
  <2> QED BY <2>3, <2>4
<1> QED BY <1>5, <1>6, <1>7, <1>8

LEMMA HistoryStep == NInv /\ HistoryInv /\ [Next]_vars => HistoryInv'
<1> SUFFICES ASSUME NInv, HistoryInv, [Next]_vars PROVE HistoryInv'
  OBVIOUS
<1>0. /\ NoneLater /\ Chained /\ (pc # "down" => Awaited /\ Youngest)
      /\ FileTypes /\ LifeInv /\ run \in Nat /\ 0 \in Slots /\ Slots \subseteq Nat
  BY KeepAssumption DEF HistoryInv, NInv, FileTypes, Slots
<1>1. ASSUME OpenLive PROVE Youngest'
  <2>1. dir'[0] = fd'
    BY <1>1, OpenType
  <2>2. \A i \in Slots : 0 <= i
    BY <1>0
  <2> QED BY <1>0, <2>1, <2>2 DEF Youngest
<1>2. CASE Open
  <2>1. OpenLive /\ pc = "down" /\ pc' # "down" /\ run' = run + 1 /\ seq' = 0
    BY <1>2 DEF Open, Return
  <2>2. History' = History /\ \A p \in History : At(p)' = At(p)
    BY <2>1, OpenHistory
  <2>3. Chained'
    BY <1>0, <2>2, SameHistory
  <2>4. \A p \in History : At(p).run \in Nat
    <3> SUFFICES ASSUME NEW p \in History PROVE At(p).run \in Nat
      OBVIOUS
    <3>1. /\ data[dir[p[1]]] \in Seq(Token) /\ p[2] \in DOMAIN data[dir[p[1]]]
      BY InHistory, PlaceType DEF Placed
    <3>2. At(p) \in Token
      BY <3>1 DEF At
    <3> QED BY <3>2 DEF Token
  <2>5. \A p \in History' : At(p)'.run <= run' /\ At(p)'.run < run'
    BY <1>0, <2>1, <2>2, <2>4 DEF NoneLater
  <2>6. Awaited' /\ NoneLater'
    <3>1. \A p \in History' : Ready(At(p))' /\ AtOrAfter(p, p)
      BY <2>1, <2>5 DEF Ready, AtOrAfter
    <3>2. Awaited'
      BY <3>1 DEF Awaited
    <3> QED BY <2>5, <3>2 DEF NoneLater
  <2> QED BY <1>1, <2>1, <2>3, <2>6 DEF HistoryInv
<1>3. CASE Stamp \/ SyncDir \/ RotateFails \/ UNCHANGED vars
  <2>1. /\ UNCHANGED <<dir, data, fd, run, seq>>
        /\ pc' # "down" => pc # "down"
    BY <1>3 DEF Stamp, SyncDir, RotateFails, vars, disk, state
  <2>2. \A p : At(p)' = At(p) /\ (Placed(p)' <=> Placed(p))
    BY <2>1 DEF At, Placed
  <2>3. \A p : p \in History' <=> p \in History
    BY <2>2, InHistory
  <2>4. Chained' /\ NoneLater' /\ (Awaited => Awaited')
    BY <1>0, <2>1, <2>2, <2>3, SameHistory
  <2>5. Youngest => Youngest'
    BY <2>1 DEF Youngest
  <2> QED BY <1>0, <2>1, <2>4, <2>5 DEF HistoryInv
<1>4. CASE RemoveOldest
  BY <1>4, RemoveHistory
<1>5. CASE Shift
  BY <1>5, ShiftHistory
<1>6. CASE Reopen
  <2>1. OpenLive /\ pc = "reopen" /\ pc' # "down" /\ UNCHANGED <<run, seq>>
    BY <1>6 DEF Reopen
  <2>2. History' = History /\ \A p \in History : At(p)' = At(p)
    BY <2>1, OpenHistory
  <2>3. Chained' /\ NoneLater' /\ Awaited'
    BY <1>0, <2>1, <2>2, SameHistory
  <2> QED BY <1>1, <2>1, <2>3 DEF HistoryInv
<1>7. ASSUME dir' = dir, fd' = fd, Youngest PROVE Youngest'
  BY <1>7 DEF Youngest
<1>8. CASE WriteOk
  <2>1. /\ pc = "write" /\ Extend(Line) /\ seq' = seq + 1
        /\ UNCHANGED <<dir, fd, run>>
    BY <1>8 DEF WriteOk
  <2>2. Chained' /\ NoneLater' /\ Awaited'
    BY <2>1, WriteHistory
  <2>3. Youngest'
    BY <1>0, <1>7, <2>1
  <2> QED BY <2>2, <2>3 DEF HistoryInv
<1>9. CASE WriteFails
  <2>1. PICK s \in Partial \union {Line} : Extend(s)
    BY <1>9 DEF WriteFails
  <2>2. pc = "write" /\ UNCHANGED <<dir, fd, seq, run>>
    BY <1>9 DEF WriteFails
  <2>3. Chained' /\ NoneLater' /\ Awaited'
    BY <2>1, <2>2, WriteHistory
  <2>4. Youngest'
    BY <1>0, <1>7, <2>2
  <2> QED BY <2>3, <2>4 DEF HistoryInv
<1>10. CASE Crash
  <2>1. pc' = "down" /\ dir' = dir /\ run' = run
    BY <1>10 DEF Crash
  <2>2. CASE UNCHANGED data
    <3>1. \A p : At(p)' = At(p) /\ (Placed(p)' <=> Placed(p))
      BY <2>1, <2>2 DEF At, Placed
    <3>2. \A p : p \in History' <=> p \in History
      BY <3>1, InHistory
    <3>3. Chained' /\ NoneLater'
      BY <1>0, <2>1, <3>1, <3>2, SameHistory
    <3> QED BY <2>1, <3>3 DEF HistoryInv
  <2>3. ASSUME pc = "write", NEW s \in Partial, Extend(s) PROVE HistoryInv'
    <3>1. Chained' /\ NoneLater'
      BY <2>1, <2>3, WriteHistory
    <3> QED BY <2>1, <3>1 DEF HistoryInv
  <2> QED BY <1>10, <2>2, <2>3 DEF Crash
<1> QED BY <1>2, <1>3, <1>4, <1>5, <1>6, <1>8, <1>9, <1>10 DEF Next

\* Each record an operator reads may follow the one before it, whatever writes
\* and rotations failed, wherever a process died and whatever was rotated out,
\* for any number of slots, records and process lives.
THEOREM HistoryCorrect == Spec => []HistoryContiguous
<1>1. Init => NInv /\ HistoryInv
  <2> SUFFICES ASSUME Init PROVE HistoryInv
    BY NInit
  <2>1. \A p : ~Placed(p)
    BY DEF Init, Placed
  <2>2. \A p \in History : FALSE
    BY <2>1, InHistory
  <2>3. NoneLater /\ Chained
    BY <2>2 DEF NoneLater, Chained
  <2>4. pc = "down"
    BY DEF Init
  <2> QED BY <2>3, <2>4 DEF HistoryInv
<1>2. NInv /\ HistoryInv /\ [Next]_vars => NInv' /\ HistoryInv'
  BY NStep, HistoryStep
<1>3. HistoryInv => HistoryContiguous
  BY DEF HistoryInv, Chained, HistoryContiguous, AtOrAfter
<1> QED BY <1>1, <1>2, <1>3, PTL DEF Spec
=============================================================================
