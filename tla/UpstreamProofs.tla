---------------------------- MODULE UpstreamProofs ----------------------------
(***************************************************************************)
(* What the guard learns of Bugzilla over several requests, for any sizes: *)
(* the kinds of custom fields it caches, and the pages of a search.        *)
(*                                                                         *)
(* What a lookup has to answer for is what it has already looked up        *)
(* (missing less rest): there the cache holds nothing older than the       *)
(* lookup but what an overlapping one put back.  The invariant says so of  *)
(* every lookup under way, not only of the ended ones, and ties the        *)
(* answer a lookup is about to apply to the schema it was made of.         *)
(*                                                                         *)
(* Two searches of a list that keeps still read it alike and differ only   *)
(* in where they stop.  The invariant says, of the one under way and of    *)
(* the earlier one, how far a number of requests reaches, what it finds,   *)
(* and that it went on after each request but the last.                    *)
(***************************************************************************)
EXTENDS FieldCache, GuardSearch, SequenceTheorems, FiniteSetTheorems, WellFoundedInduction,
        TLAPS

-----------------------------------------------------------------------------
(* The cache of custom-field kinds                                         *)

Outs == UNION {[S -> Reading] : S \in SUBSET Names}

Call ==
  [phase : {"idle", "asking", "answered", "done"}, fresh : BOOLEAN, names : SUBSET Names,
   missing : SUBSET Names, rest : SUBSET Names, began : Nat, requests : Nat,
   answer : SUBSET (Names \X Codes), at : Nat, out : Outs]

\* The lookups a reading by call b does not stand between in time.
Overlap(a, b) == <<a, b>> \notin before /\ <<b, a>> \notin before

KnownOk ==
  /\ DOMAIN known \subseteq Names
  /\ \A n \in DOMAIN known :
       /\ known[n] \in Reading /\ known[n].version \in Versions
       /\ known[n].kind # "Unknown"
       /\ known[n].kind = "Other" => ~Links(known[n].version, n)
       /\ calls[known[n].by].phase # "idle"

\* An answer under way lists a field, if at all, under the type it had.
AnswerOk(c) ==
  calls[c].phase = "answered" =>
    /\ calls[c].at \in calls[c].began .. Now
    /\ \A n \in Names : (\E e \in calls[c].answer : e[1] = n) =>
         <<n, schema[calls[c].at][n]>> \in calls[c].answer

CallOk(c) ==
  /\ calls[c].rest \subseteq calls[c].missing /\ calls[c].missing \subseteq calls[c].names
  /\ calls[c].fresh => calls[c].missing = calls[c].names
  /\ calls[c].out \in [calls[c].names -> Reading]
  /\ calls[c].began \in 0 .. Now /\ calls[c].at \in 0 .. Now
  /\ calls[c].phase # "idle" => calls[c].began \in Versions
  /\ calls[c].phase = "idle" => calls[c].missing = {}
  /\ calls[c].phase = "done" => calls[c].rest = {}
  /\ calls[c].answer \subseteq calls[c].missing \X Codes
  /\ AnswerOk(c)
  /\ \A n \in calls[c].missing :
       calls[c].out[n].kind = "Other" => \E v \in calls[c].began .. Now : ~Links(v, n)

BeforeOk ==
  /\ before \subseteq Calls \X Calls
  /\ \A a, b \in Calls : <<a, b>> \in before =>
       /\ calls[a].phase = "done" /\ calls[b].phase # "idle" /\ calls[a].began <= calls[b].began

OrderOk ==
  \A c \in Calls : \A n \in (calls[c].missing \ calls[c].rest) \cap DOMAIN known :
    known[n].version >= calls[c].began \/ Overlap(c, known[n].by)

CacheIInv ==
  /\ schema \in Seq(Schemas) /\ Now \in 1 .. MaxVersions
  /\ calls \in [Calls -> Call]
  /\ KnownOk /\ (\A c \in Calls : CallOk(c)) /\ BeforeOk /\ OrderOk

LEMMA IdleTyped == Idle \in Call
<1>1. {} \in SUBSET Names /\ [{} -> Reading] \in {[S -> Reading] : S \in SUBSET Names} OBVIOUS
<1>2. None \in [{} -> Reading] BY DEF None
<1>3. None \in Outs BY <1>1, <1>2 DEF Outs
<1> HIDE DEF None
<1> QED BY <1>3 DEF Idle, Call

LEMMA CacheHolds == Init => CacheIInv
<1> SUFFICES ASSUME Init PROVE CacheIInv OBVIOUS
<1>1. PICK types \in Schemas : schema = <<types>> BY DEF Init
<1>2. schema \in Seq(Schemas) /\ Len(schema) = 1 BY <1>1
<1>3. None \in [{} -> Reading] /\ DOMAIN None = {} BY DEF None
<1>4. Idle \in Call BY IdleTyped
<1>5. \A c \in Calls : calls[c] = Idle BY DEF Init
<1>6. \A c \in Calls : CallOk(c)
  <2>1. /\ Idle.rest = {} /\ Idle.missing = {} /\ Idle.names = {} /\ Idle.out \in [{} -> Reading]
        /\ Idle.began = 0 /\ Idle.at = 0 /\ Idle.phase = "idle" /\ Idle.answer = {}
    BY <1>3 DEF Idle
  <2> SUFFICES ASSUME NEW c \in Calls PROVE CallOk(c) OBVIOUS
  <2>2. calls[c] = Idle BY <1>5
  <2>3. AnswerOk(c) BY <2>1, <2>2 DEF AnswerOk
  <2>4. calls[c].began \in 0 .. Now /\ calls[c].at \in 0 .. Now BY <1>2, <2>1, <2>2 DEF Now
  <2>5. calls[c].out \in [calls[c].names -> Reading] BY <2>1, <2>2
  <2> QED BY <2>1, <2>2, <2>3, <2>4, <2>5 DEF CallOk
<1> QED BY <1>2, <1>3, <1>4, <1>5, <1>6, CacheBounds
        DEF Init, CacheIInv, KnownOk, BeforeOk, OrderOk, Now, Idle

\* What an envelope is read as: harmless only if every type it lists is.
LEMMA KindIsSafe ==
  ASSUME NEW envelope, NEW n
  PROVE  /\ KindIn(envelope, n) \in Kinds
         /\ KindIn(envelope, n) = "Other" => \E e \in envelope : e[1] = n
         /\ \A code : <<n, code>> \in envelope /\ KindIn(envelope, n) = "Other" =>
                        code \notin ListCodes \cup {BugIdCode}
<1>1. \A code : KindOfType(code) \subseteq {"BugId", "BugList", "Other"} BY DEF KindOfType
<1>2. Listed(envelope, n) \subseteq {"BugId", "BugList", "Other"} BY <1>1 DEF Listed
<1>3. CASE \E kind \in Listed(envelope, n) : MayLink(kind)
  <2>1. /\ KindIn(envelope, n) \in Listed(envelope, n) /\ MayLink(KindIn(envelope, n))
    BY <1>3 DEF KindIn
  <2> QED BY <1>2, <2>1 DEF MayLink, Kinds
<1>4. CASE ~\E kind \in Listed(envelope, n) : MayLink(kind)
  <2>1. KindIn(envelope, n) \in {"Unknown", "Other"} BY <1>4 DEF KindIn
  <2>2. KindIn(envelope, n) = "Other" => Listed(envelope, n) # {} BY DEF KindIn
  <2>3. Listed(envelope, n) # {} => \E e \in envelope : e[1] = n BY DEF Listed
  <2>4. ASSUME NEW code, <<n, code>> \in envelope PROVE KindOfType(code) \subseteq Listed(envelope, n)
    BY <2>4 DEF Listed
  <2>5. ASSUME NEW code, <<n, code>> \in envelope PROVE code \notin ListCodes \cup {BugIdCode}
    <3>1. "BugId" \notin Listed(envelope, n) /\ "BugList" \notin Listed(envelope, n)
      BY <1>4 DEF MayLink
    <3> QED BY <2>4, <2>5, <3>1 DEF KindOfType
  <2> QED BY <2>1, <2>2, <2>3, <2>5 DEF Kinds
<1> QED BY <1>3, <1>4

-----------------------------------------------------------------------------
(* What the others' steps leave alone                                      *)

\* Versions of the schema are added, never rewritten.
SchemaGrows ==
  /\ schema' \in Seq(Schemas) /\ Now' \in 1 .. MaxVersions /\ Now <= Now'
  /\ \A v \in Versions : schema'[v] = schema[v]

LEMMA SchemaStands == ASSUME CacheIInv, UNCHANGED schema PROVE SchemaGrows
BY CacheBounds DEF CacheIInv, SchemaGrows, Now, Versions

LEMMA VersionsGrow ==
  ASSUME CacheIInv, SchemaGrows
  PROVE  /\ Versions \subseteq Versions' /\ Now \in Nat /\ Now' \in Nat
         /\ \A v \in Versions : \A n : Links(v, n)' <=> Links(v, n)
BY CacheBounds DEF CacheIInv, SchemaGrows, Versions, Links

LEMMA CallStands ==
  ASSUME CacheIInv, SchemaGrows, NEW c \in Calls, calls'[c] = calls[c]
  PROVE  CallOk(c)'
<1>1. CallOk(c) BY DEF CacheIInv
<1>2. /\ Versions \subseteq Versions' /\ Now \in Nat /\ Now' \in Nat /\ Now <= Now'
      /\ \A v \in Versions : \A n : Links(v, n)' <=> Links(v, n)
      /\ \A v \in Versions : schema'[v] = schema[v]
  BY VersionsGrow DEF SchemaGrows
<1>3. calls[c].missing # {} => calls[c].began \in Versions BY <1>1 DEF CallOk
<1>4. \A n \in calls[c].missing : \A v \in calls[c].began .. Now :
        v \in Versions /\ v \in calls[c].began .. Now'
  BY <1>2, <1>3 DEF Versions
<1>5. \A n \in calls[c].missing : calls[c].out[n].kind = "Other" =>
        \E v \in calls[c].began .. Now' : ~Links(v, n)'
  BY <1>1, <1>2, <1>4 DEF CallOk
<1>6. AnswerOk(c)'
  <2>1. ASSUME calls[c].phase = "answered"
        PROVE  /\ calls[c].at \in Versions /\ calls[c].at \in calls[c].began .. Now'
               /\ schema'[calls[c].at] = schema[calls[c].at]
    BY <1>1, <1>2, <2>1 DEF CallOk, AnswerOk, Versions
  <2> QED BY <1>1, <2>1 DEF CallOk, AnswerOk
<1>7. calls[c].began \in 0 .. Now' /\ calls[c].at \in 0 .. Now' BY <1>1, <1>2 DEF CallOk
<1>8. calls[c].phase # "idle" => calls[c].began \in Versions' BY <1>1, <1>2 DEF CallOk
<1> QED BY <1>1, <1>5, <1>6, <1>7, <1>8 DEF CallOk

LEMMA KnownStands ==
  ASSUME CacheIInv, SchemaGrows, known' = known,
         \A c \in Calls : calls[c].phase # "idle" => calls'[c].phase # "idle"
  PROVE  KnownOk'
<1>1. ASSUME NEW n \in DOMAIN known
      PROVE  /\ known[n] \in Reading /\ known[n].version \in Versions'
             /\ known[n].kind # "Unknown"
             /\ known[n].kind = "Other" => ~Links(known[n].version, n)'
             /\ calls'[known[n].by].phase # "idle"
  <2>1. /\ known[n] \in Reading /\ known[n].version \in Versions
        /\ known[n].kind # "Unknown"
        /\ known[n].kind = "Other" => ~Links(known[n].version, n)
        /\ calls[known[n].by].phase # "idle" /\ known[n].by \in Calls
    BY DEF CacheIInv, KnownOk, Reading
  <2> QED BY <2>1, VersionsGrow
<1> QED BY <1>1 DEF CacheIInv, KnownOk

LEMMA ChangeKeeps == ASSUME CacheIInv, Change PROVE CacheIInv'
<1>1. PICK types \in Schemas : schema' = Append(schema, types) BY DEF Change
<1>2. Now < MaxVersions /\ UNCHANGED <<known, calls, before>> BY DEF Change
<1>3. SchemaGrows
  <2>1. schema \in Seq(Schemas) /\ Len(schema) \in Nat /\ Len(schema) < MaxVersions
        /\ Len(schema) >= 1
    BY <1>2 DEF CacheIInv, Now
  <2>2. schema' \in Seq(Schemas) /\ Len(schema') = Len(schema) + 1
        /\ \A v \in 1 .. Len(schema) : schema'[v] = schema[v]
    BY <1>1, <2>1
  <2> QED BY <2>1, <2>2, CacheBounds DEF SchemaGrows, Now, Versions
<1>4. \A c \in Calls : CallOk(c)' BY <1>2, <1>3, CallStands
<1>5. KnownOk' BY <1>2, <1>3, KnownStands
<1> QED BY <1>2, <1>3, <1>4, <1>5 DEF CacheIInv, SchemaGrows, BeforeOk, OrderOk, Overlap

\* One call's step.
LEMMA OneCall ==
  ASSUME CacheIInv, UNCHANGED schema, NEW c \in Calls, NEW d \in Call,
         calls' = [calls EXCEPT ![c] = d], CallOk(c)'
  PROVE  /\ calls' \in [Calls -> Call] /\ calls'[c] = d
         /\ \A b \in Calls : b # c => calls'[b] = calls[b]
         /\ \A b \in Calls : CallOk(b)'
         /\ schema' \in Seq(Schemas) /\ Now' \in 1 .. MaxVersions
<1>1. calls \in [Calls -> Call] BY DEF CacheIInv
<1>2. calls' \in [Calls -> Call] /\ calls'[c] = d /\ \A b \in Calls : b # c => calls'[b] = calls[b]
  BY <1>1
<1>3. SchemaGrows BY SchemaStands
<1>4. \A b \in Calls : CallOk(b)' BY <1>2, <1>3, CallStands
<1> QED BY <1>2, <1>3, <1>4 DEF SchemaGrows

-----------------------------------------------------------------------------
(* The steps of a lookup                                                   *)

LEMMA EnterKeeps ==
  ASSUME CacheIInv, NEW c \in Calls, NEW fresh \in BOOLEAN, NEW names \in Asks,
         NEW ask \in SUBSET names, fresh => ask = names, names \ ask \subseteq DOMAIN known,
         Enter(c, fresh, names, ask)
  PROVE  CacheIInv'
<1> DEFINE out == [n \in names |-> IF n \in ask
                                   THEN [kind |-> "Unknown", version |-> Now, by |-> c]
                                   ELSE known[n]]
           d == [Idle EXCEPT !.phase = IF ask = {} THEN "done" ELSE "asking", !.fresh = fresh,
                    !.names = names, !.missing = ask, !.rest = ask, !.began = Now, !.out = out]
<1>1. /\ calls[c].phase = "idle" /\ calls' = [calls EXCEPT ![c] = d]
      /\ before' = before \cup (Ended \X {c}) /\ UNCHANGED <<schema, known>>
  BY DEF Enter
<1>2. Now \in Versions /\ Now \in Nat BY CacheBounds DEF CacheIInv, Versions
<1>3. names \in SUBSET Names /\ ask \in SUBSET Names BY CacheAsks
<1>4. out \in [names -> Reading] /\ \A n \in ask : out[n].kind = "Unknown"
  <2>1. [kind |-> "Unknown", version |-> Now, by |-> c] \in Reading BY <1>2 DEF Reading, Kinds
  <2>2. \A n \in names \ ask : known[n] \in Reading BY DEF CacheIInv, KnownOk
  <2> QED BY <2>1, <2>2
<1> HIDE DEF out
<1>5. out \in Outs BY <1>3, <1>4 DEF Outs
<1>6. /\ d.phase = (IF ask = {} THEN "done" ELSE "asking") /\ d.fresh = fresh /\ d.names = names
      /\ d.missing = ask /\ d.rest = ask /\ d.began = Now /\ d.out = out /\ d.answer = {}
      /\ d.at = 0 /\ d.requests = 0
  BY DEF Idle
<1>7. d \in Call BY <1>2, <1>3, <1>5, IdleTyped DEF Call
<1> HIDE DEF d
<1>8. calls'[c] = d BY <1>1, <1>7 DEF CacheIInv
<1>9. Now' = Now /\ Versions' = Versions BY <1>1 DEF Now, Versions
<1>10. CallOk(c)'
  <2>1. AnswerOk(c)' BY <1>6, <1>8 DEF AnswerOk
  <2>2. calls'[c].out \in [calls'[c].names -> Reading] BY <1>4, <1>6, <1>8
  <2>3. /\ calls'[c].began \in 0 .. Now' /\ calls'[c].at \in 0 .. Now'
        /\ calls'[c].began \in Versions'
    BY <1>2, <1>6, <1>8, <1>9
  <2>4. \A n \in calls'[c].missing : calls'[c].out[n].kind # "Other" BY <1>4, <1>6, <1>8
  <2> QED BY <1>6, <1>8, <2>1, <2>2, <2>3, <2>4 DEF CallOk
<1>11. /\ calls' \in [Calls -> Call] /\ \A b \in Calls : b # c => calls'[b] = calls[b]
       /\ \A b \in Calls : CallOk(b)' /\ schema' \in Seq(Schemas) /\ Now' \in 1 .. MaxVersions
  BY <1>1, <1>7, <1>10, OneCall
<1>12. KnownOk'
  <2>1. SchemaGrows BY <1>1, SchemaStands
  <2>2. \A b \in Calls : calls[b].phase # "idle" => calls'[b].phase # "idle" BY <1>1, <1>11
  <2> QED BY <1>1, <2>1, <2>2, KnownStands
<1>13. BeforeOk'
  <2>1. before' \subseteq Calls \X Calls BY <1>1 DEF CacheIInv, BeforeOk, Ended
  <2>2. ASSUME NEW a \in Calls, NEW b \in Calls, <<a, b>> \in before'
        PROVE  calls'[a].phase = "done" /\ calls'[b].phase # "idle"
               /\ calls'[a].began <= calls'[b].began
    <3>1. CASE <<a, b>> \in before
      <4>1. calls[a].phase = "done" /\ calls[b].phase # "idle" /\ calls[a].began <= calls[b].began
        BY <3>1 DEF CacheIInv, BeforeOk
      <4>2. a # c /\ b # c BY <1>1, <4>1
      <4> QED BY <1>11, <4>1, <4>2
    <3>2. CASE a \in Ended /\ b = c
      <4>1. a # c /\ calls[a].phase = "done" BY <1>1, <3>2 DEF Ended
      <4>2. calls[a].began \in 0 .. Now BY DEF CacheIInv, CallOk
      <4> QED BY <1>2, <1>6, <1>8, <1>11, <3>2, <4>1, <4>2
    <3> QED BY <1>1, <2>2, <3>1, <3>2
  <2> QED BY <2>1, <2>2 DEF BeforeOk
<1>14. OrderOk'
  <2> SUFFICES ASSUME NEW b \in Calls,
                      NEW n \in (calls'[b].missing \ calls'[b].rest) \cap DOMAIN known
               PROVE  known[n].version >= calls'[b].began \/ Overlap(b, known[n].by)'
    BY <1>1 DEF OrderOk
  <2>1. b # c /\ calls'[b] = calls[b] BY <1>6, <1>8, <1>11
  <2>2. known[n].version >= calls[b].began \/ Overlap(b, known[n].by)
    BY <2>1 DEF CacheIInv, OrderOk
  <2>3. known[n].by # c BY <1>1 DEF CacheIInv, KnownOk
  <2> QED BY <1>1, <2>1, <2>2, <2>3 DEF Overlap
<1> QED BY <1>11, <1>12, <1>13, <1>14 DEF CacheIInv

\* A step of a lookup that stays under way, or ends, and leaves the cache, its
\* names and its beginning alone.
LEMMA BeforeStands ==
  ASSUME CacheIInv, NEW c \in Calls, calls[c].phase \in {"asking", "answered"},
         calls'[c].phase # "idle", calls'[c].began = calls[c].began,
         \A b \in Calls : b # c => calls'[b] = calls[b], before' = before
  PROVE  BeforeOk'
<1> SUFFICES ASSUME NEW a \in Calls, NEW b \in Calls, <<a, b>> \in before
             PROVE  calls'[a].phase = "done" /\ calls'[b].phase # "idle"
                    /\ calls'[a].began <= calls'[b].began
  BY DEF CacheIInv, BeforeOk
<1>1. calls[a].phase = "done" /\ calls[b].phase # "idle" /\ calls[a].began <= calls[b].began
  BY DEF CacheIInv, BeforeOk
<1>2. a # c BY <1>1
<1> QED BY <1>1, <1>2

LEMMA RespondKeeps ==
  ASSUME CacheIInv, NEW c \in Calls, NEW listed, NEW twice, Respond(c, listed, twice)
  PROVE  CacheIInv'
<1>1. PICK other \in [twice -> Seconds] :
        calls' = [calls EXCEPT
          ![c].answer = {<<n, schema[Now][n]>> : n \in listed} \cup {<<n, other[n]>> : n \in twice},
          ![c].at = Now, ![c].phase = "answered", ![c].requests = @ + 1]
  BY DEF Respond
<1> DEFINE answer == {<<n, schema[Now][n]>> : n \in listed} \cup {<<n, other[n]>> : n \in twice}
           tally == calls[c].requests + 1
           d == [calls[c] EXCEPT !.answer = answer, !.at = Now, !.phase = "answered",
                                 !.requests = tally]
<1>2. /\ calls[c].phase = "asking" /\ twice \subseteq listed /\ listed \subseteq Chunk(c)
      /\ UNCHANGED <<schema, known, before>>
  BY DEF Respond
<1>3. calls[c] \in Call /\ CallOk(c) /\ Now \in Nat /\ Now \in 1 .. Now /\ tally \in Nat
  <2>1. calls[c] \in Call /\ CallOk(c) BY DEF CacheIInv
  <2>2. tally \in Nat BY <2>1 DEF Call
  <2> QED BY <2>1, <2>2, CacheBounds DEF CacheIInv
<1>4. calls' = [calls EXCEPT ![c] = d] BY <1>1
<1> HIDE DEF tally
<1>5. listed \subseteq calls[c].missing /\ listed \subseteq Names
  BY <1>2, <1>3 DEF Chunk, CallOk, Call
<1>6. answer \subseteq calls[c].missing \X Codes
  <2>1. schema[Now] \in [Names -> Codes] BY <1>3, CacheAsks DEF CacheIInv, Now
  <2>2. \A n \in listed : schema[Now][n] \in Codes BY <1>5, <2>1
  <2>3. \A n \in twice : other[n] \in Codes BY <1>1, CacheAsks
  <2> QED BY <1>2, <1>5, <2>2, <2>3
<1>7. \A n : (\E e \in answer : e[1] = n) => <<n, schema[Now][n]>> \in answer
  BY <1>2
<1> HIDE DEF answer
<1>8. d \in Call
  <2>1. answer \in SUBSET (Names \X Codes) BY <1>3, <1>6 DEF Call
  <2> QED BY <1>3, <2>1 DEF Call
<1>9. /\ d.phase = "answered" /\ d.at = Now /\ d.answer = answer /\ d.fresh = calls[c].fresh
      /\ d.names = calls[c].names /\ d.missing = calls[c].missing /\ d.rest = calls[c].rest
      /\ d.began = calls[c].began /\ d.out = calls[c].out /\ calls'[c] = d
  BY <1>3, <1>4 DEF Call, CacheIInv
<1> HIDE DEF d
<1>10. SchemaGrows /\ Now' = Now BY <1>2, SchemaStands DEF Now
<1>11. CallOk(c)'
  <2>1. AnswerOk(c)'
    <3>1. calls'[c].at \in calls'[c].began .. Now' BY <1>3, <1>9, <1>10 DEF CallOk
    <3> QED BY <1>2, <1>7, <1>9, <1>10, <3>1 DEF AnswerOk
  <2>2. calls'[c].began \in Versions' /\ Versions' = Versions
    BY <1>2, <1>3, <1>9, <1>10 DEF CallOk, Versions
  <2>3. \A n \in calls[c].missing : calls[c].out[n].kind = "Other" =>
          \E v \in calls[c].began .. Now : ~Links(v, n)'
    <3>1. \A v, n : Links(v, n)' <=> Links(v, n) BY <1>2 DEF Links
    <3> QED BY <1>3, <3>1 DEF CallOk
  <2>4. calls'[c].answer \subseteq calls'[c].missing \X Codes BY <1>6, <1>9
  <2>5. /\ calls[c].rest \subseteq calls[c].missing /\ calls[c].missing \subseteq calls[c].names
        /\ calls[c].fresh => calls[c].missing = calls[c].names
        /\ calls[c].out \in [calls[c].names -> Reading] /\ calls[c].began \in 0 .. Now
    BY <1>3 DEF CallOk
  <2> QED BY <1>3, <1>9, <1>10, <2>1, <2>2, <2>3, <2>4, <2>5 DEF CallOk
<1>12. /\ calls' \in [Calls -> Call] /\ \A b \in Calls : b # c => calls'[b] = calls[b]
       /\ \A b \in Calls : CallOk(b)' /\ schema' \in Seq(Schemas) /\ Now' \in 1 .. MaxVersions
  BY <1>2, <1>4, <1>8, <1>11, OneCall
<1>13. KnownOk'
  <2>1. \A b \in Calls : calls[b].phase # "idle" => calls'[b].phase # "idle" BY <1>9, <1>12
  <2> QED BY <1>2, <1>10, <2>1, KnownStands
<1>14. BeforeOk' BY <1>2, <1>9, <1>12, BeforeStands
<1>15. OrderOk'
  <2>1. \A b \in Calls : calls'[b].missing = calls[b].missing /\ calls'[b].rest = calls[b].rest
                         /\ calls'[b].began = calls[b].began
    BY <1>9, <1>12
  <2> QED BY <1>2, <2>1 DEF CacheIInv, OrderOk, Overlap
<1> QED BY <1>12, <1>13, <1>14, <1>15 DEF CacheIInv

LEMMA FailKeeps == ASSUME CacheIInv, NEW c \in Calls, Fail(c) PROVE CacheIInv'
<1> DEFINE rest == calls[c].rest \ Chunk(c)
           tally == calls[c].requests + 1
           d == [calls[c] EXCEPT !.rest = rest, !.requests = tally,
                                 !.phase = IF rest = {} THEN "done" ELSE "asking"]
<1>1. /\ calls[c].phase = "asking" /\ calls' = [calls EXCEPT ![c] = d]
      /\ known' = [n \in DOMAIN known \ Chunk(c) |-> known[n]] /\ UNCHANGED <<schema, before>>
  BY DEF Fail
<1>2. calls[c] \in Call /\ CallOk(c) BY DEF CacheIInv
<1>3. /\ rest \subseteq calls[c].rest /\ (calls[c].rest \ rest) \subseteq Chunk(c)
      /\ tally \in Nat
  BY <1>2 DEF Call
<1> HIDE DEF rest, tally
<1>4. d \in Call
  <2>1. rest \in SUBSET Names BY <1>2, <1>3 DEF Call
  <2>2. (IF rest = {} THEN "done" ELSE "asking") \in {"idle", "asking", "answered", "done"} OBVIOUS
  <2> QED BY <1>2, <1>3, <2>1, <2>2 DEF Call
<1>5. /\ d.phase \in {"asking", "done"} /\ (d.phase = "done" => rest = {}) /\ d.rest = rest
      /\ d.fresh = calls[c].fresh /\ d.names = calls[c].names /\ d.missing = calls[c].missing
      /\ d.began = calls[c].began /\ d.out = calls[c].out /\ d.at = calls[c].at
      /\ d.answer = calls[c].answer /\ calls'[c] = d
  BY <1>1, <1>2 DEF Call, CacheIInv
<1> HIDE DEF d
<1>6. SchemaGrows /\ Now' = Now /\ Versions' = Versions BY <1>1, SchemaStands DEF Now, Versions
<1>7. CallOk(c)'
  <2>1. AnswerOk(c)' BY <1>5 DEF AnswerOk
  <2>2. \A v, n : Links(v, n)' <=> Links(v, n) BY <1>1 DEF Links
  <2> QED BY <1>1, <1>2, <1>3, <1>5, <1>6, <2>1, <2>2 DEF CallOk
<1>8. /\ calls' \in [Calls -> Call] /\ \A b \in Calls : b # c => calls'[b] = calls[b]
      /\ \A b \in Calls : CallOk(b)' /\ schema' \in Seq(Schemas) /\ Now' \in 1 .. MaxVersions
  BY <1>1, <1>4, <1>7, OneCall
<1>9. DOMAIN known' \subseteq DOMAIN known /\ \A n \in DOMAIN known' : known'[n] = known[n]
  BY <1>1
<1>10. KnownOk'
  <2>1. \A b \in Calls : calls[b].phase # "idle" => calls'[b].phase # "idle" BY <1>5, <1>8
  <2>2. \A v, n : Links(v, n)' <=> Links(v, n) BY <1>1 DEF Links
  <2>3. \A n \in DOMAIN known : known[n].by \in Calls BY DEF CacheIInv, KnownOk, Reading
  <2> QED BY <1>6, <1>9, <2>1, <2>2, <2>3 DEF CacheIInv, KnownOk
<1>11. BeforeOk' BY <1>1, <1>5, <1>8, BeforeStands
<1>12. OrderOk'
  <2> SUFFICES ASSUME NEW b \in Calls,
                      NEW n \in (calls'[b].missing \ calls'[b].rest) \cap DOMAIN known'
               PROVE  known'[n].version >= calls'[b].began \/ Overlap(b, known[n].by)'
    BY DEF OrderOk
  <2>1. n \in DOMAIN known /\ n \notin Chunk(c) BY <1>1
  <2>2. calls'[b].began = calls[b].began /\ n \in calls[b].missing \ calls[b].rest
    BY <1>3, <1>5, <1>8, <2>1
  <2>3. known[n].version >= calls[b].began \/ Overlap(b, known[n].by)
    BY <2>1, <2>2 DEF CacheIInv, OrderOk
  <2> QED BY <1>1, <1>9, <2>1, <2>2, <2>3 DEF Overlap
<1> QED BY <1>8, <1>10, <1>11, <1>12 DEF CacheIInv

LEMMA ApplyKeeps == ASSUME CacheIInv, NEW c \in Calls, Apply(c) PROVE CacheIInv'
<1> DEFINE settled == {n \in Chunk(c) : KindIn(calls[c].answer, n) # "Unknown"}
           found == [n \in settled |->
                       [kind |-> KindIn(calls[c].answer, n), version |-> calls[c].at, by |-> c]]
           out == [n \in calls[c].names |-> IF n \in settled THEN found[n] ELSE calls[c].out[n]]
           rest == calls[c].rest \ Chunk(c)
           d == [calls[c] EXCEPT !.out = out, !.rest = rest, !.answer = {}, !.at = 0,
                                 !.phase = IF rest = {} THEN "done" ELSE "asking"]
<1>1. /\ calls[c].phase = "answered" /\ calls' = [calls EXCEPT ![c] = d]
      /\ known' = [n \in (DOMAIN known \ Chunk(c)) \cup settled |->
                     IF n \in settled THEN found[n] ELSE known[n]]
      /\ UNCHANGED <<schema, before>>
  BY DEF Apply, Refreshed, Advance
<1>2. calls[c] \in Call /\ CallOk(c) BY DEF CacheIInv
<1>3. /\ rest \subseteq calls[c].rest /\ (calls[c].rest \ rest) \subseteq Chunk(c)
      /\ Chunk(c) \subseteq calls[c].rest /\ Chunk(c) \subseteq Names /\ settled \subseteq Chunk(c)
      /\ Chunk(c) \subseteq calls[c].missing /\ Chunk(c) \subseteq calls[c].names
  BY <1>2 DEF Call, CallOk, Chunk
<1>4. /\ calls[c].at \in calls[c].began .. Now /\ calls[c].at \in Versions /\ Now \in Nat
      /\ calls[c].began \in Nat
  BY <1>1, <1>2, CacheBounds DEF CallOk, AnswerOk, Versions, CacheIInv
<1>5. ASSUME NEW n \in settled
      PROVE  /\ found[n] \in Reading /\ found[n].version = calls[c].at /\ found[n].by = c
             /\ found[n].kind # "Unknown"
             /\ found[n].kind = "Other" => ~Links(calls[c].at, n)
  <2>1. KindIn(calls[c].answer, n) \in Kinds /\ KindIn(calls[c].answer, n) # "Unknown"
    BY KindIsSafe
  <2>2. KindIn(calls[c].answer, n) = "Other" => ~Links(calls[c].at, n)
    <3>1. n \in Names BY <1>3
    <3>2. KindIn(calls[c].answer, n) = "Other" => <<n, schema[calls[c].at][n]>> \in calls[c].answer
      BY <1>1, <1>2, <3>1, KindIsSafe DEF CallOk, AnswerOk
    <3> QED BY <3>2, KindIsSafe DEF Links
  <2>3. calls[c].at \in Nat BY <1>2 DEF Call
  <2> QED BY <2>1, <2>2, <2>3 DEF Reading
<1> HIDE DEF found, settled, rest
<1>6. /\ out \in [calls[c].names -> Reading]
      /\ \A n \in calls[c].names : out[n] = IF n \in settled THEN found[n] ELSE calls[c].out[n]
  BY <1>2, <1>5 DEF CallOk
<1> HIDE DEF out
<1>7. d \in Call
  <2>1. rest \in SUBSET Names BY <1>2, <1>3 DEF Call
  <2>2. (IF rest = {} THEN "done" ELSE "asking") \in {"idle", "asking", "answered", "done"} OBVIOUS
  <2>3. out \in Outs BY <1>2, <1>6 DEF Outs, Call
  <2> QED BY <1>2, <2>1, <2>2, <2>3 DEF Call
<1>8. /\ d.phase \in {"asking", "done"} /\ (d.phase = "done" => rest = {}) /\ d.rest = rest
      /\ d.fresh = calls[c].fresh /\ d.names = calls[c].names /\ d.missing = calls[c].missing
      /\ d.began = calls[c].began /\ d.out = out /\ d.at = 0 /\ d.answer = {} /\ calls'[c] = d
  BY <1>1, <1>2 DEF Call, CacheIInv
<1> HIDE DEF d
<1>9. /\ Now' = Now /\ Versions' = Versions /\ \A v, n : Links(v, n)' <=> Links(v, n)
  BY <1>1 DEF Now, Versions, Links
<1>10. CallOk(c)'
  <2>1. AnswerOk(c)' BY <1>8 DEF AnswerOk
  <2>2. ASSUME NEW n \in calls[c].missing, out[n].kind = "Other"
        PROVE  \E v \in calls[c].began .. Now : ~Links(v, n)
    <3>1. n \in calls[c].names BY <1>2 DEF CallOk
    <3>2. CASE n \in settled BY <1>4, <1>5, <1>6, <2>2, <3>1, <3>2
    <3>3. CASE n \notin settled BY <1>2, <1>6, <2>2, <3>1, <3>3 DEF CallOk
    <3> QED BY <3>2, <3>3
  <2>3. /\ calls[c].rest \subseteq calls[c].missing /\ calls[c].missing \subseteq calls[c].names
        /\ calls[c].fresh => calls[c].missing = calls[c].names
        /\ calls[c].began \in 0 .. Now /\ calls[c].began \in Versions
    BY <1>1, <1>2 DEF CallOk
  <2>4. \A n \in calls'[c].missing : calls'[c].out[n].kind = "Other" =>
          \E v \in calls'[c].began .. Now' : ~Links(v, n)'
    BY <1>8, <1>9, <2>2
  <2>5. /\ calls'[c].began \in 0 .. Now' /\ calls'[c].at \in 0 .. Now'
        /\ calls'[c].began \in Versions'
    BY <1>4, <1>8, <1>9, <2>3
  <2> QED BY <1>3, <1>6, <1>8, <2>1, <2>3, <2>4, <2>5 DEF CallOk
<1>11. /\ calls' \in [Calls -> Call] /\ \A b \in Calls : b # c => calls'[b] = calls[b]
       /\ \A b \in Calls : CallOk(b)' /\ schema' \in Seq(Schemas) /\ Now' \in 1 .. MaxVersions
  BY <1>1, <1>7, <1>10, OneCall
<1>12. \A n \in DOMAIN known' :
         \/ n \in settled /\ known'[n] = found[n]
         \/ n \in DOMAIN known \ Chunk(c) /\ n \notin settled /\ known'[n] = known[n]
  BY <1>1
<1>13. KnownOk'
  <2>1. \A b \in Calls : calls[b].phase # "idle" => calls'[b].phase # "idle" BY <1>8, <1>11
  <2> SUFFICES ASSUME NEW n \in DOMAIN known'
               PROVE  /\ n \in Names /\ known'[n] \in Reading /\ known'[n].version \in Versions
                      /\ known'[n].kind # "Unknown"
                      /\ known'[n].kind = "Other" => ~Links(known'[n].version, n)
                      /\ calls'[known'[n].by].phase # "idle"
    BY <1>9 DEF KnownOk
  <2>2. CASE n \in settled /\ known'[n] = found[n] BY <1>3, <1>4, <1>5, <1>8, <2>2
  <2>3. CASE n \in DOMAIN known \ Chunk(c) /\ known'[n] = known[n]
    <3>1. known[n].by \in Calls BY <2>3 DEF CacheIInv, KnownOk, Reading
    <3> QED BY <2>1, <2>3, <3>1 DEF CacheIInv, KnownOk
  <2> QED BY <1>12, <2>2, <2>3
<1>14. BeforeOk' BY <1>1, <1>8, <1>11, BeforeStands
<1>15. OrderOk'
  <2> SUFFICES ASSUME NEW b \in Calls,
                      NEW n \in (calls'[b].missing \ calls'[b].rest) \cap DOMAIN known'
               PROVE  known'[n].version >= calls'[b].began \/ Overlap(b, known[n].by)'
    BY DEF OrderOk
  <2>1. calls'[b].began = calls[b].began BY <1>8, <1>11
  <2>2. CASE n \in settled /\ known'[n] = found[n]
    <3>1. known'[n].version = calls[c].at /\ known'[n].by = c BY <1>5, <2>2
    <3>2. CASE <<b, c>> \in before
      <4>1. calls[b].began <= calls[c].began /\ calls[b].began \in Nat
        BY <3>2 DEF CacheIInv, BeforeOk, Call
      <4> QED BY <1>4, <2>1, <3>1, <4>1
    <3>3. <<c, b>> \notin before BY <1>1 DEF CacheIInv, BeforeOk
    <3>4. CASE <<b, c>> \notin before BY <1>1, <3>1, <3>3, <3>4 DEF Overlap
    <3> QED BY <3>2, <3>4
  <2>3. CASE n \in DOMAIN known \ Chunk(c) /\ known'[n] = known[n]
    <3>1. n \in calls[b].missing \ calls[b].rest BY <1>3, <1>8, <1>11, <2>3
    <3>2. known[n].version >= calls[b].began \/ Overlap(b, known[n].by)
      BY <2>3, <3>1 DEF CacheIInv, OrderOk
    <3> QED BY <1>1, <2>1, <2>3, <3>2 DEF Overlap
  <2> QED BY <1>12, <2>2, <2>3
<1> QED BY <1>11, <1>13, <1>14, <1>15 DEF CacheIInv

-----------------------------------------------------------------------------
(* The cache                                                               *)

LEMMA CacheStep == CacheIInv /\ [Next]_vars => CacheIInv'
<1> SUFFICES ASSUME CacheIInv, [Next]_vars PROVE CacheIInv' OBVIOUS
<1>1. CASE Change BY <1>1, ChangeKeeps
<1>2. ASSUME NEW c \in Calls, NEW names \in Asks, ReadKinds(c, names) PROVE CacheIInv'
  <2> DEFINE ask == names \ DOMAIN known
  <2>1. ask \in SUBSET names /\ names \ ask \subseteq DOMAIN known OBVIOUS
  <2>2. Enter(c, FALSE, names, ask) BY <1>2 DEF ReadKinds
  <2> HIDE DEF ask
  <2> QED BY <2>1, <2>2, EnterKeeps
<1>3. ASSUME NEW c \in Calls, NEW names \in Asks, WriteKinds(c, names) PROVE CacheIInv'
  BY <1>3, EnterKeeps DEF WriteKinds
<1>4. ASSUME NEW c \in Calls, LookUp(c) PROVE CacheIInv'
  BY <1>4, RespondKeeps, ApplyKeeps, FailKeeps DEF LookUp
<1>5. CASE UNCHANGED vars
  <2>1. SchemaGrows BY <1>5, SchemaStands DEF vars
  <2>2. \A c \in Calls : CallOk(c)' BY <1>5, <2>1, CallStands DEF vars
  <2>3. KnownOk' BY <1>5, <2>1, KnownStands DEF vars
  <2> QED BY <1>5, <2>1, <2>2, <2>3
          DEF CacheIInv, SchemaGrows, BeforeOk, OrderOk, Overlap, vars
<1> QED BY <1>1, <1>2, <1>3, <1>4, <1>5 DEF Next

LEMMA CacheAlways == Spec => []CacheIInv
<1>1. Init => CacheIInv BY CacheHolds
<1>2. CacheIInv /\ [Next]_vars => CacheIInv' BY CacheStep
<1> QED BY <1>1, <1>2, PTL DEF Spec

\* What is cached was settled by Bugzilla, and a lookup that has ended leaves
\* nothing older than itself behind but what an overlapping one puts back,
\* for any number of calls, fields and versions of the schema.
THEOREM CacheCorrect == Spec => []CacheInv
<1>1. CacheIInv => CacheInv
  <2> SUFFICES ASSUME CacheIInv PROVE CacheInv OBVIOUS
  <2>1. TypeOK
    <3>1. ASSUME NEW c \in Calls
          PROVE  /\ calls[c] \in Call /\ CallOk(c)
                 /\ \A n \in calls[c].names : calls[c].out[n] \in Reading
                 /\ DOMAIN calls[c].out = calls[c].names
      BY DEF CacheIInv, CallOk
    <3> QED BY <3>1 DEF CacheIInv, CallOk, KnownOk, BeforeOk, TypeOK, Call
  <2>2. CachedIsSettled
    BY DEF CacheIInv, KnownOk, CachedIsSettled, MayLink
  <2>3. LookupOutdatesTheCache
    <3>1. \A c \in Ended : c \in Calls /\ calls[c].rest = {} BY DEF Ended, CacheIInv, CallOk
    <3> QED BY <3>1 DEF CacheIInv, OrderOk, Overlap, LookupOutdatesTheCache
  <2> QED BY <2>1, <2>2, <2>3 DEF CacheInv
<1> QED BY <1>1, CacheAlways, PTL

\* A write is told that a field links nothing only if that was so while the
\* write was asking, whatever the cache held and whatever Bugzilla answered.
THEOREM WriteCorrect == Spec => []WriteJudgesTheFieldAsItIs
<1>1. CacheIInv => WriteJudgesTheFieldAsItIs
  <2> SUFFICES ASSUME CacheIInv, NEW c \in Ended, calls[c].fresh, NEW n \in calls[c].names,
                      ~MayLink(calls[c].out[n].kind)
               PROVE  \E v \in calls[c].began .. Now : ~Links(v, n)
    BY DEF WriteJudgesTheFieldAsItIs
  <2>1. c \in Calls /\ CallOk(c) BY DEF Ended, CacheIInv
  <2>2. n \in calls[c].missing /\ calls[c].out[n].kind = "Other" BY <2>1 DEF CallOk, MayLink
  <2> QED BY <2>1, <2>2 DEF CallOk
<1> QED BY <1>1, CacheAlways, PTL
-----------------------------------------------------------------------------
(* What a lookup costs                                                     *)

\* How many members of S come before n, n included if it is one.
Ordinal(S, n) == Cardinality({m \in S : m <= n})

LEMMA RankBounds ==
  ASSUME NEW S \in SUBSET Nat, IsFiniteSet(S), NEW n \in S
  PROVE  /\ Ordinal(S, n) \in 1 .. Cardinality(S)
         /\ \A k \in S : n < k => Ordinal(S, n) < Ordinal(S, k)
<1> DEFINE B(k) == {m \in S : m <= k}
<1>5. Cardinality(S) \in Nat /\ \A m \in S : m \in Nat BY FS_CardinalityType
<1>1. \A k \in S : B(k) \subseteq S /\ IsFiniteSet(B(k)) /\ Cardinality(B(k)) \in Nat
                   /\ Cardinality(B(k)) <= Cardinality(S)
  BY FS_Subset, FS_CardinalityType
<1>2. n \in B(n) OBVIOUS
<1>3. Cardinality(B(n)) # 0 BY <1>1, <1>2, FS_EmptySet
<1>4. ASSUME NEW k \in S, n < k PROVE Cardinality(B(n)) < Cardinality(B(k))
  <2>0. n \in Int /\ k \in Int /\ \A m \in S : m \in Int BY <1>4, <1>5
  <2>1. B(n) \subseteq B(k) /\ k \in B(k) /\ k \notin B(n)
    <3>1. \A m \in S : m <= n => m <= k BY <1>4, <2>0
    <3>2. k <= k /\ ~(k <= n) BY <1>4, <2>0
    <3>3. B(n) \subseteq B(k) BY <3>1, Zenon
    <3>4. k \in B(k) /\ k \notin B(n) BY <1>4, <3>2, Zenon
    <3> QED BY <3>3, <3>4, Zenon
  <2>2. Cardinality(B(n)) <= Cardinality(B(k)) /\ (Cardinality(B(k)) = Cardinality(B(n)) => B(k) = B(n))
    BY <1>1, <1>4, <2>1, FS_Subset
  <2> QED BY <1>1, <1>4, <2>1, <2>2
<1> QED BY <1>1, <1>3, <1>4, <1>5 DEF Ordinal

LEMMA RankIsBijection ==
  ASSUME NEW S \in SUBSET Nat, IsFiniteSet(S)
  PROVE  [n \in S |-> Ordinal(S, n)] \in Bijection(S, 1 .. Cardinality(S))
<1> DEFINE f == [n \in S |-> Ordinal(S, n)]
            I == 1 .. Cardinality(S)
<1>0. Cardinality(S) \in Nat BY FS_CardinalityType
<1>1. f \in [S -> I] BY RankBounds
<1>2. \A a, b \in S : f[a] = f[b] => a = b
  <2> SUFFICES ASSUME NEW a \in S, NEW b \in S, a # b PROVE f[a] # f[b] OBVIOUS
  <2>1. Ordinal(S, a) \in Int /\ Ordinal(S, b) \in Int /\ (a < b \/ b < a) BY RankBounds
  <2> QED BY <2>1, RankBounds
<1>3. f \in Injection(S, I) BY <1>1, <1>2 DEF Injection, IsInjective
<1>4. IsFiniteSet(I) /\ Cardinality(I) = Cardinality(S) BY <1>0, FS_Interval
<1>5. f \in Surjection(S, I) BY <1>3, <1>4, FS_Injection
<1> QED BY <1>3, <1>5 DEF Bijection

LEMMA FirstFew ==
  ASSUME NEW S \in SUBSET Nat, IsFiniteSet(S), NEW k \in Nat
  PROVE  Cardinality({n \in S : Cardinality({m \in S : m < n}) < k})
           = IF k <= Cardinality(S) THEN k ELSE Cardinality(S)
<1> DEFINE T == {n \in S : Cardinality({m \in S : m < n}) < k}
            c == IF k <= Cardinality(S) THEN k ELSE Cardinality(S)
            f == [n \in S |-> Ordinal(S, n)]
            g == [n \in T |-> f[n]]
<1>0. Cardinality(S) \in Nat /\ c \in 0 .. Cardinality(S) /\ \A m \in S : m \in Nat
  BY FS_CardinalityType
<1>1. \A n \in S : Ordinal(S, n) = Cardinality({m \in S : m < n}) + 1
  <2> TAKE n \in S
  <2>0. \A m \in S : m <= n <=> (m < n \/ m = n) BY <1>0
  <2>1. {m \in S : m <= n} = {m \in S : m < n} \cup {n} /\ n \notin {m \in S : m < n}
    <3>1. ~(n < n) BY <1>0
    <3>2. {m \in S : m <= n} = {m \in S : m < n} \cup {n} BY <2>0, Zenon
    <3> QED BY <3>1, <3>2, Zenon
  <2>2. IsFiniteSet({m \in S : m < n}) BY FS_Subset
  <2>3. Cardinality({m \in S : m < n} \cup {n}) = Cardinality({m \in S : m < n}) + 1
    BY <2>1, <2>2, FS_AddElement
  <2> QED BY <2>1, <2>3 DEF Ordinal
<1>2. f \in Bijection(S, 1 .. Cardinality(S)) BY RankIsBijection
<1>3. \A n \in S : n \in T <=> f[n] <= k
  <2> TAKE n \in S
  <2>1. Cardinality({m \in S : m < n}) \in Nat BY FS_Subset, FS_CardinalityType
  <2> QED BY <1>1, <2>1
<1> HIDE DEF c, f
<1>8. \A n \in S : f[n] \in Int BY <1>0, <1>2 DEF Bijection, Injection
<1>4. g \in Bijection(T, 1 .. c)
  <2>1. g \in [T -> 1 .. c]
    <3>1. \A n \in T : n \in S OBVIOUS
    <3>2. \A n \in T : f[n] \in 1 .. Cardinality(S) /\ f[n] <= k
      BY <1>2, <1>3, <3>1 DEF Bijection, Injection
    <3>3. \A n \in T : f[n] \in 1 .. c BY <1>0, <3>2 DEF c
    <3> QED BY <3>3
  <2>2. \A a, b \in T : g[a] = g[b] => a = b BY <1>2 DEF Bijection, Injection, IsInjective
  <2>3. \A i \in 1 .. c : \E n \in T : g[n] = i
    <3> TAKE i \in 1 .. c
    <3>1. PICK n \in S : f[n] = i BY <1>0, <1>2 DEF Bijection, Surjection
    <3>2. i <= k BY <1>0 DEF c
    <3> QED BY <1>3, <3>1, <3>2
  <2> QED BY <2>1, <2>2, <2>3 DEF Bijection, Injection, IsInjective, Surjection
<1>5. IsFiniteSet(T) BY FS_Subset
<1>6. Cardinality(1 .. c) = c
  <2>1. 1 \in Int /\ c \in Int BY <1>0
  <2>2. Cardinality(1 .. c) = IF 1 > c THEN 0 ELSE c - 1 + 1 BY <2>1, FS_Interval
  <2> QED BY <1>0, <2>2
<1>7. Cardinality(1 .. c) = Cardinality(T) BY <1>4, <1>5, FS_Bijection DEF ExistsBijection
<1> QED BY <1>6, <1>7 DEF c

\* The requests that size names still to look up take.
Batches(size) == (size + LookupChunk - 1) \div LookupChunk

LEMMA OneBatchLess ==
  ASSUME NEW size \in Nat \ {0}
  PROVE  LET left == IF LookupChunk <= size THEN size - LookupChunk ELSE 0
         IN  Batches(size) = Batches(left) + 1 /\ Batches(0) = 0 /\ Batches(left) \in Nat
<1> DEFINE left == IF LookupChunk <= size THEN size - LookupChunk ELSE 0
<1>1. LookupChunk \in Nat \ {0} BY CacheBounds
<1>2. /\ \A r \in Nat : (r + LookupChunk) \div LookupChunk = (r \div LookupChunk) + 1
      /\ \A r \in Nat : r < LookupChunk => r \div LookupChunk = 0
      /\ \A r \in Nat : r \div LookupChunk \in Nat
  BY <1>1
<1>3. Batches(0) = 0
  <2>1. 0 + LookupChunk - 1 \in Nat /\ 0 + LookupChunk - 1 < LookupChunk BY <1>1
  <2> QED BY <1>2, <2>1 DEF Batches
<1>4. CASE LookupChunk <= size
  <2>1. /\ left + LookupChunk - 1 \in Nat
        /\ size + LookupChunk - 1 = (left + LookupChunk - 1) + LookupChunk
    BY <1>1, <1>4
  <2> QED BY <1>2, <1>3, <2>1 DEF Batches
<1>5. CASE ~(LookupChunk <= size)
  <2>1. /\ size - 1 \in Nat /\ size - 1 < LookupChunk /\ left = 0
        /\ size + LookupChunk - 1 = (size - 1) + LookupChunk
    BY <1>1, <1>5
  <2> QED BY <1>2, <1>3, <2>1 DEF Batches
<1> QED BY <1>4, <1>5

LEMMA BatchesTyped == ASSUME NEW S \in SUBSET Names PROVE Batches(Cardinality(S)) \in Nat
<1>1. Cardinality(S) \in Nat BY CacheNames, FS_Subset, FS_CardinalityType
<1>2. LookupChunk \in Nat \ {0} BY CacheBounds
<1>3. Cardinality(S) + LookupChunk - 1 \in Nat BY <1>1, <1>2
<1>4. \A r \in Nat : r \div LookupChunk \in Nat BY <1>2
<1> QED BY <1>3, <1>4 DEF Batches

\* The requests a lookup has sent and those it has still to send are as many
\* as its names take; a lookup under way has something left to ask.
CostOk(c) ==
  LET sent == calls[c].requests + Batches(Cardinality(calls[c].rest))
      asked == Batches(Cardinality(calls[c].missing))
  IN  /\ calls[c].phase \in {"asking", "answered"} => calls[c].rest # {}
      /\ calls[c].phase \in {"asking", "done"} => sent = asked
      /\ calls[c].phase = "answered" => sent = asked + 1

CostInv == \A c \in Calls : CostOk(c)

\* The names a batch leaves.
LEMMA ChunkLeaves ==
  ASSUME CacheIInv, NEW c \in Calls, calls[c].rest # {}
  PROVE  LET rest == calls[c].rest \ Chunk(c)
         IN  /\ Batches(Cardinality(calls[c].rest)) = Batches(Cardinality(rest)) + 1
             /\ Batches(Cardinality(rest)) \in Nat /\ Batches(0) = 0
<1> DEFINE all == calls[c].rest
           size == Cardinality(all)
<1>1. all \in SUBSET Nat /\ IsFiniteSet(all)
  <2>1. all \subseteq Names BY DEF CacheIInv, Call
  <2> QED BY <2>1, CacheNames, FS_Subset
<1>2. size \in Nat \ {0} BY <1>1, FS_CardinalityType, FS_EmptySet
<1>3. Cardinality(Chunk(c)) = IF LookupChunk <= size THEN LookupChunk ELSE size
  BY <1>1, FirstFew, CacheBounds DEF Chunk
<1>4. Chunk(c) \subseteq all BY DEF Chunk
<1>5. Cardinality(all \ Chunk(c)) = size - Cardinality(Chunk(c))
  <2>1. all \cap Chunk(c) = Chunk(c) BY <1>4
  <2> QED BY <1>1, <2>1, FS_Difference, ZenonT(30)
<1>6. Cardinality(all \ Chunk(c)) = IF LookupChunk <= size THEN size - LookupChunk ELSE 0
  BY <1>2, <1>3, <1>5
<1> HIDE DEF size
<1> QED BY <1>2, <1>6, OneBatchLess DEF size

LEMMA CostStep == CacheIInv /\ CostInv /\ [Next]_vars => CostInv'
<1> SUFFICES ASSUME CacheIInv, CostInv, [Next]_vars, NEW b \in Calls PROVE CostOk(b)'
  BY DEF CostInv
<1>0. CostOk(b) /\ calls \in [Calls -> Call] /\ calls[b] \in Call BY DEF CostInv, CacheIInv
<1>1. ASSUME calls'[b] = calls[b] PROVE CostOk(b)' BY <1>0, <1>1 DEF CostOk
<1>2. ASSUME NEW c \in Calls, NEW fresh, NEW names \in Asks, NEW ask \in SUBSET names,
             Enter(c, fresh, names, ask)
      PROVE  CostOk(b)'
  <2>1. CASE b # c
    <3>1. calls'[b] = calls[b] BY <1>0, <1>2, <2>1 DEF Enter
    <3> QED BY <1>1, <3>1
  <2>2. CASE b = c
    <3>1. /\ calls'[c].rest = ask /\ calls'[c].missing = ask /\ calls'[c].requests = 0
          /\ calls'[c].phase = IF ask = {} THEN "done" ELSE "asking"
      BY <1>0, <1>2 DEF Enter, Idle
    <3>2. Batches(Cardinality(ask)) \in Nat BY BatchesTyped, CacheAsks
    <3> QED BY <2>2, <3>1, <3>2 DEF CostOk
  <2> QED BY <2>1, <2>2
<1>3. ASSUME NEW c \in Calls, LookUp(c) PROVE CostOk(b)'
  <2>1. CASE b # c
    <3>1. calls'[b] = calls[b]
      BY <1>0, <1>3, <2>1, ZenonT(30) DEF LookUp, Respond, Apply, Advance, Fail
    <3> QED BY <1>1, <3>1
  <2>2. ASSUME b = c, NEW listed, NEW twice, Respond(c, listed, twice) PROVE CostOk(b)'
    <3>1. /\ calls[b].phase = "asking" /\ calls'[b].phase = "answered"
          /\ calls'[b].rest = calls[b].rest /\ calls'[b].missing = calls[b].missing
          /\ calls'[b].requests = calls[b].requests + 1
      <4>1. \E answer : calls' = [calls EXCEPT ![c].answer = answer, ![c].at = Now,
                                   ![c].phase = "answered", ![c].requests = @ + 1]
        BY <2>2 DEF Respond
      <4>2. calls[b].phase = "asking" BY <2>2 DEF Respond
      <4> QED BY <1>0, <2>2, <4>1, <4>2 DEF Call
    <3>2. /\ Batches(Cardinality(calls[b].rest)) \in Nat /\ calls[b].requests \in Nat
          /\ Batches(Cardinality(calls[b].missing)) \in Nat
      BY <1>0, BatchesTyped DEF Call
    <3> QED BY <1>0, <3>1, <3>2 DEF CostOk
  <2>3. ASSUME b = c, Apply(c) \/ Fail(c) PROVE CostOk(b)'
    <3> DEFINE rest == calls[b].rest \ Chunk(b)
    <3>1. /\ calls[b].phase \in {"asking", "answered"}
          /\ calls'[b].rest = rest /\ calls'[b].missing = calls[b].missing
          /\ calls'[b].phase = (IF rest = {} THEN "done" ELSE "asking")
          /\ calls'[b].requests = IF calls[b].phase = "asking" THEN calls[b].requests + 1
                                  ELSE calls[b].requests
      <4>1. CASE Apply(c)
        <5>1. calls[b].phase = "answered" BY <2>3, <4>1 DEF Apply
        <5>2. \E out : calls' = [calls EXCEPT ![b].out = out, ![b].rest = rest, ![b].answer = {},
                ![b].at = 0, ![b].phase = IF rest = {} THEN "done" ELSE "asking"]
          BY <2>3, <4>1 DEF Apply, Advance
        <5> HIDE DEF rest
        <5> QED BY <1>0, <5>1, <5>2 DEF Call
      <4>2. CASE Fail(c)
        <5>1. /\ calls[b].phase = "asking"
              /\ calls' = [calls EXCEPT ![b].rest = rest, ![b].requests = @ + 1,
                             ![b].phase = IF rest = {} THEN "done" ELSE "asking"]
          BY <2>3, <4>2 DEF Fail
        <5> HIDE DEF rest
        <5> QED BY <1>0, <5>1 DEF Call
      <4> QED BY <2>3, <4>1, <4>2
    <3> DEFINE old == Batches(Cardinality(calls[b].rest))
               new == Batches(Cardinality(rest))
               asked == Batches(Cardinality(calls[b].missing))
    <3>2. old = new + 1 /\ new \in Nat /\ asked \in Nat /\ calls[b].requests \in Nat
      BY <1>0, <3>1, ChunkLeaves, BatchesTyped DEF CostOk, Call
    <3>3. calls[b].requests + old = IF calls[b].phase = "asking" THEN asked ELSE asked + 1
      BY <1>0, <3>1 DEF CostOk
    <3> HIDE DEF old, new, asked
    <3>4. calls'[b].requests + new = asked BY <3>1, <3>2, <3>3
    <3> USE DEF new, asked
    <3>5. calls'[b].phase \in {"asking", "answered"} => calls'[b].rest # {} BY <3>1
    <3> HIDE DEF rest
    <3> QED BY <3>1, <3>4, <3>5 DEF CostOk
  <2> QED BY <1>3, <2>1, <2>2, <2>3 DEF LookUp
<1>4. CASE Change \/ UNCHANGED vars BY <1>1, <1>4 DEF Change, vars
<1>5. ASSUME NEW c \in Calls, NEW names \in Asks, ReadKinds(c, names) \/ WriteKinds(c, names)
      PROVE  CostOk(b)'
  <2>1. names \in SUBSET names /\ names \ DOMAIN known \in SUBSET names OBVIOUS
  <2> QED BY <1>2, <1>5, <2>1 DEF ReadKinds, WriteKinds
<1> QED BY <1>3, <1>4, <1>5 DEF Next

\* A write's lookup costs the requests its names alone decide, for any batch
\* size and any interleaving of lookups, answers and failures.
THEOREM CostCorrect == Spec => []LookupCostIsFixed
<1>1. Init => CostInv
  <2> SUFFICES ASSUME Init, NEW c \in Calls PROVE CostOk(c) BY DEF CostInv
  <2>1. calls[c].phase = "idle" BY DEF Init, Idle
  <2> QED BY <2>1 DEF CostOk
<1>2. CacheIInv /\ CostInv /\ [Next]_vars => CostInv' BY CostStep
<1>3. CacheIInv /\ CostInv => LookupCostIsFixed
  <2> SUFFICES ASSUME CacheIInv, CostInv, NEW c \in Ended, calls[c].fresh
               PROVE  calls[c].requests = Batches(Cardinality(calls[c].names))
    BY DEF LookupCostIsFixed, Batches
  <2>1. /\ c \in Calls /\ calls[c].phase = "done" /\ CallOk(c) /\ CostOk(c)
        /\ calls[c] \in Call
    BY DEF Ended, CacheIInv, CostInv
  <2>2. calls[c].rest = {} /\ calls[c].missing = calls[c].names BY <2>1 DEF CallOk
  <2>3. Batches(Cardinality({})) = 0
    BY FS_EmptySet, OneBatchLess
  <2>4. calls[c].requests \in Nat BY <2>1 DEF Call
  <2> QED BY <2>1, <2>2, <2>3, <2>4 DEF CostOk
<1> QED BY <1>1, <1>2, <1>3, CacheAlways, PTL DEF Spec

-----------------------------------------------------------------------------
(* Induction, over sets: the numbers, and the lists of bugs.               *)

\* A set that holds 0 and with every number the next holds them all.
LEMMA SetInduction ==
  ASSUME NEW S, 0 \in S, \A k \in Nat : k \in S => k + 1 \in S PROVE Nat \subseteq S
<1> SUFFICES ASSUME Nat \ S # {} PROVE FALSE OBVIOUS
<1>1. PICK x \in Nat \ S : \A y \in Nat \ S : ~(<<y, x>> \in OpToRel(<, Nat))
  BY NatLessThanWellFounded, WFMin
<1>2. x # 0 /\ x - 1 \in Nat /\ x - 1 < x OBVIOUS
<1>3. x - 1 \notin S BY <1>1, <1>2 DEF OpToRel
<1>4. \E k \in Nat : k \notin S /\ k < x BY <1>2, <1>3
<1>5. \A y \in Nat \ S : ~(y < x) BY <1>1 DEF OpToRel
<1> QED BY <1>4, <1>5

\* A set that holds the empty list and with every list its extensions by a bug
\* holds them all.
LEMMA SeqInduction ==
  ASSUME NEW G, <<>> \in G, \A s \in Seq(Bugs), e \in Bugs : s \in G => Append(s, e) \in G
  PROVE  Seq(Bugs) \subseteq G
<1> DEFINE S == {n \in Nat : \A s \in Seq(Bugs) : Len(s) = n => s \in G}
<1>1. 0 \in S
  <2>1. \A s \in Seq(Bugs) : Len(s) = 0 => s = <<>> OBVIOUS
  <2> QED BY <2>1
<1>2. ASSUME NEW k \in Nat, k \in S PROVE k + 1 \in S
  <2> SUFFICES ASSUME NEW s \in Seq(Bugs), Len(s) = k + 1 PROVE s \in G OBVIOUS
  <2>1. s # <<>> OBVIOUS
  <2>2. PICK r \in Seq(Bugs), e \in Bugs : s = Append(r, e) BY <2>1, SequenceEmptyOrAppend
  <2>3. Len(r) = k BY <2>2, AppendProperties
  <2> QED BY <1>2, <2>2, <2>3
<1>3. Nat \subseteq S
  <2> HIDE DEF S
  <2> QED BY <1>1, <1>2, SetInduction
<1>4. \A s \in Seq(Bugs) : Len(s) \in Nat OBVIOUS
<1> QED BY <1>3, <1>4

-----------------------------------------------------------------------------
(* What a filter keeps of a list.                                          *)

\* u holds what is kept of the first rows of s, up to m of them.
KeptUpto(u, s, S, m) ==
  u = [i \in 0 .. m |->
         IF i = 0 THEN <<>> ELSE IF s[i] \in S THEN Append(u[i-1], s[i]) ELSE u[i-1]]

\* The equation Kept is defined by has a solution.
LEMMA KeptExists == ASSUME NEW s \in Seq(Bugs), NEW S PROVE \E u : KeptUpto(u, s, S, Len(s))
<1> DEFINE M == {m \in Nat : \E u : KeptUpto(u, s, S, m)}
<1>1. 0 \in M
  <2>1. KeptUpto([i \in 0 .. 0 |-> <<>>], s, S, 0) BY DEF KeptUpto
  <2> QED BY <2>1
<1>2. ASSUME NEW m \in Nat, m \in M PROVE m + 1 \in M
  <2>1. PICK u : KeptUpto(u, s, S, m) BY <1>2
  <2> DEFINE last == IF s[m+1] \in S THEN Append(u[m], s[m+1]) ELSE u[m]
             v == [i \in 0 .. m + 1 |-> IF i = m + 1 THEN last ELSE u[i]]
  <2>2. ASSUME NEW i \in 0 .. m + 1
        PROVE  v[i] = IF i = 0 THEN <<>>
                      ELSE IF s[i] \in S THEN Append(v[i-1], s[i]) ELSE v[i-1]
    <3>1. CASE i = m + 1
      <4>1. i - 1 = m /\ m \in 0 .. m + 1 /\ m # m + 1 /\ i # 0 BY <3>1
      <4>2. v[i] = last /\ v[m] = u[m] BY <3>1, <4>1
      <4> QED BY <3>1, <4>1, <4>2
    <3>2. CASE i # m + 1
      <4>1. i \in 0 .. m /\ (i # 0 => i - 1 \in 0 .. m /\ i - 1 \in 0 .. m + 1 /\ i - 1 # m + 1)
        BY <3>2
      <4>2. v[i] = u[i] /\ (i # 0 => v[i-1] = u[i-1]) BY <3>2, <4>1
      <4>3. u[i] = IF i = 0 THEN <<>> ELSE IF s[i] \in S THEN Append(u[i-1], s[i]) ELSE u[i-1]
        BY <2>1, <4>1 DEF KeptUpto
      <4> QED BY <4>2, <4>3
    <3> QED BY <3>1, <3>2
  <2>3. v = [i \in 0 .. m + 1 |-> v[i]] OBVIOUS
  <2> HIDE DEF v
  <2>4. KeptUpto(v, s, S, m + 1) BY <2>2, <2>3 DEF KeptUpto
  <2> QED BY <2>4
<1>3. Len(s) \in M
  <2>1. Len(s) \in Nat OBVIOUS
  <2> HIDE DEF M
  <2> QED BY <1>1, <1>2, <2>1, SetInduction
<1> QED BY <1>3

\* What is kept of a list is the last of what is kept of its beginnings.
LEMMA KeptLast ==
  ASSUME NEW s \in Seq(Bugs), NEW S
  PROVE  \E u : /\ Kept(s, S) = u[Len(s)] /\ u[0] = <<>>
                /\ \A i \in 1 .. Len(s) :
                     u[i] = IF s[i] \in S THEN Append(u[i-1], s[i]) ELSE u[i-1]
<1> DEFINE u == CHOOSE w : KeptUpto(w, s, S, Len(s))
<1>1. KeptUpto(u, s, S, Len(s)) BY KeptExists
<1>2. Kept(s, S) = u[Len(s)] BY DEF Kept, KeptUpto
<1> HIDE DEF u
<1>3. Len(s) \in Nat OBVIOUS
<1>4. \A i \in 0 .. Len(s) :
        u[i] = IF i = 0 THEN <<>> ELSE IF s[i] \in S THEN Append(u[i-1], s[i]) ELSE u[i-1]
  BY <1>1 DEF KeptUpto
<1>5. u[0] = <<>> BY <1>3, <1>4
<1>6. \A i \in 1 .. Len(s) : u[i] = IF s[i] \in S THEN Append(u[i-1], s[i]) ELSE u[i-1]
  BY <1>3, <1>4
<1> QED BY <1>2, <1>5, <1>6

\* A filter works row by row, from the first.
LEMMA KeptStep ==
  ASSUME NEW S
  PROVE  /\ Kept(<<>>, S) = <<>>
         /\ \A s \in Seq(Bugs), e \in Bugs :
              Kept(Append(s, e), S) = IF e \in S THEN Append(Kept(s, S), e) ELSE Kept(s, S)
<1>1. Kept(<<>>, S) = <<>>
  <2> DEFINE e == <<>>
  <2>1. e \in Seq(Bugs) /\ Len(e) = 0 OBVIOUS
  <2> HIDE DEF e
  <2>2. \E u : Kept(e, S) = u[Len(e)] /\ u[0] = <<>>
    <3>1. PICK u : /\ Kept(e, S) = u[Len(e)] /\ u[0] = <<>>
                   /\ \A i \in 1 .. Len(e) :
                        u[i] = IF e[i] \in S THEN Append(u[i-1], e[i]) ELSE u[i-1]
      <4>1. e \in Seq(Bugs) BY <2>1
      <4> QED BY <4>1, KeptLast
    <3> QED BY <3>1
  <2>3. Kept(e, S) = <<>> BY <2>1, <2>2
  <2> QED BY <2>3 DEF e
<1>2. ASSUME NEW s \in Seq(Bugs), NEW e \in Bugs
      PROVE  Kept(Append(s, e), S) = IF e \in S THEN Append(Kept(s, S), e) ELSE Kept(s, S)
  <2> DEFINE t == Append(s, e)
             L == Len(s)
  <2>1. /\ t \in Seq(Bugs) /\ Len(t) = L + 1 /\ L \in Nat /\ t[L+1] = e
        /\ \A i \in 1 .. L : t[i] = s[i]
    BY AppendProperties
  <2>2. PICK u : /\ Kept(s, S) = u[L] /\ u[0] = <<>>
                 /\ \A i \in 1 .. L : u[i] = IF s[i] \in S THEN Append(u[i-1], s[i]) ELSE u[i-1]
    BY KeptLast
  <2> HIDE DEF t, L
  <2>3. PICK v : /\ Kept(t, S) = v[Len(t)] /\ v[0] = <<>>
                 /\ \A i \in 1 .. Len(t) :
                      v[i] = IF t[i] \in S THEN Append(v[i-1], t[i]) ELSE v[i-1]
    <3>1. t \in Seq(Bugs) BY <2>1
    <3> QED BY <3>1, KeptLast
  <2> DEFINE M == {m \in Nat : m <= L => v[m] = u[m]}
  <2>4. 0 \in M BY <2>2, <2>3
  <2>5. ASSUME NEW m \in Nat, m \in M PROVE m + 1 \in M
    <3> SUFFICES ASSUME m + 1 <= L PROVE v[m+1] = u[m+1] OBVIOUS
    <3>1. m + 1 \in 1 .. L /\ m + 1 \in 1 .. Len(t) /\ (m + 1) - 1 = m /\ v[m] = u[m]
      BY <2>1, <2>5
    <3>2. v[m+1] = IF t[m+1] \in S THEN Append(v[m], t[m+1]) ELSE v[m] BY <2>3, <3>1
    <3>3. u[m+1] = IF s[m+1] \in S THEN Append(u[m], s[m+1]) ELSE u[m] BY <2>2, <3>1
    <3>4. t[m+1] = s[m+1] BY <2>1, <3>1
    <3> QED BY <3>1, <3>2, <3>3, <3>4
  <2>6. L \in M
    <3> HIDE DEF M
    <3> QED BY <2>1, <2>4, <2>5, SetInduction
  <2>7. v[L] = u[L] BY <2>1, <2>6
  <2>8. L + 1 \in 1 .. Len(t) /\ (L + 1) - 1 = L BY <2>1
  <2>9. v[L+1] = IF t[L+1] \in S THEN Append(v[L], t[L+1]) ELSE v[L] BY <2>3, <2>8
  <2>10. Kept(t, S) = IF e \in S THEN Append(Kept(s, S), e) ELSE Kept(s, S)
    BY <2>1, <2>2, <2>3, <2>7, <2>9
  <2> QED BY <2>10 DEF t
<1> QED BY <1>1, <1>2
-----------------------------------------------------------------------------
(* Lists and the bugs on them.                                             *)

\* A list with one more bug.
LEMMA AppendFacts ==
  ASSUME NEW s \in Seq(Bugs), NEW e \in Bugs
  PROVE  /\ ToSet(Append(s, e)) = ToSet(s) \cup {e}
         /\ IsInjective(Append(s, e)) <=> IsInjective(s) /\ e \notin ToSet(s)
<1> DEFINE t == Append(s, e)
           L == Len(s)
<1>1. /\ t \in Seq(Bugs) /\ Len(t) = L + 1 /\ L \in Nat /\ t[L+1] = e
      /\ DOMAIN t = 1 .. L + 1 /\ DOMAIN s = 1 .. L
      /\ \A i \in 1 .. L : t[i] = s[i]
  BY AppendProperties
<1> HIDE DEF t, L
<1>2. \A i \in 1 .. L : i \in 1 .. L + 1 /\ i # L + 1 BY <1>1
<1>3. \A i \in 1 .. L + 1 : i \in 1 .. L \/ i = L + 1 BY <1>1
<1>4. L + 1 \in 1 .. L + 1 BY <1>1
<1>5. ToSet(t) = ToSet(s) \cup {e}
  <2>1. ToSet(t) \subseteq ToSet(s) \cup {e} BY <1>1, <1>3 DEF ToSet
  <2>2. ToSet(s) \subseteq ToSet(t) BY <1>1, <1>2 DEF ToSet
  <2>3. e \in ToSet(t) BY <1>1, <1>4 DEF ToSet
  <2> QED BY <2>1, <2>2, <2>3
<1>6. ASSUME IsInjective(t) PROVE IsInjective(s) /\ e \notin ToSet(s)
  <2>1. IsInjective(s) BY <1>1, <1>2, <1>6 DEF IsInjective
  <2>2. ASSUME NEW i \in 1 .. L, s[i] = e PROVE FALSE
    BY <1>1, <1>2, <1>4, <1>6, <2>2 DEF IsInjective
  <2> QED BY <1>1, <2>1, <2>2 DEF ToSet
<1>7. ASSUME IsInjective(s), e \notin ToSet(s) PROVE IsInjective(t)
  <2> SUFFICES ASSUME NEW a \in 1 .. L + 1, NEW b \in 1 .. L + 1, t[a] = t[b] PROVE a = b
    BY <1>1 DEF IsInjective
  <2>1. \A i \in 1 .. L : t[i] \in ToSet(s) BY <1>1 DEF ToSet
  <2>2. CASE a \in 1 .. L /\ b \in 1 .. L BY <1>1, <1>7, <2>2 DEF IsInjective
  <2>3. CASE a = L + 1 /\ b \in 1 .. L BY <1>1, <1>7, <2>1, <2>3
  <2>4. CASE b = L + 1 /\ a \in 1 .. L BY <1>1, <1>7, <2>1, <2>4
  <2> QED BY <1>3, <2>2, <2>3, <2>4
<1> QED BY <1>5, <1>6, <1>7 DEF t

\* A list and what follows it.
LEMMA ConcatFacts ==
  ASSUME NEW s \in Seq(Bugs), NEW t \in Seq(Bugs)
  PROVE  /\ ToSet(s \o t) = ToSet(s) \cup ToSet(t)
         /\ IsInjective(s \o t) <=>
              IsInjective(s) /\ IsInjective(t) /\ ToSet(s) \cap ToSet(t) = {}
<1> DEFINE u == s \o t
           L == Len(s)
           N == Len(t)
<1>1. /\ u \in Seq(Bugs) /\ Len(u) = L + N /\ L \in Nat /\ N \in Nat
      /\ DOMAIN u = 1 .. L + N /\ DOMAIN s = 1 .. L /\ DOMAIN t = 1 .. N
  BY ConcatProperties
<1>2. \A i \in 1 .. L + N : u[i] = IF i <= L THEN s[i] ELSE t[i - L]
  BY ConcatProperties
<1> HIDE DEF u, L, N
<1>3. \A i \in 1 .. L : i \in 1 .. L + N /\ u[i] = s[i]
  <2>1. \A i \in 1 .. L : i \in 1 .. L + N /\ i <= L BY <1>1
  <2> QED BY <1>2, <2>1
<1>4. \A i \in 1 .. N : L + i \in 1 .. L + N /\ u[L + i] = t[i]
  <2>1. \A i \in 1 .. N : L + i \in 1 .. L + N /\ ~(L + i <= L) /\ (L + i) - L = i BY <1>1
  <2> QED BY <1>2, <2>1
<1>5. \A i \in 1 .. L + N : i \in 1 .. L \/ \E j \in 1 .. N : i = L + j
  <2> SUFFICES ASSUME NEW i \in 1 .. L + N, i \notin 1 .. L
               PROVE  \E j \in 1 .. N : i = L + j
    OBVIOUS
  <2>1. i - L \in 1 .. N /\ i = L + (i - L) BY <1>1
  <2> QED BY <2>1
<1>6. ToSet(u) = ToSet(s) \cup ToSet(t)
  <2>1. ASSUME NEW i \in 1 .. L + N PROVE u[i] \in ToSet(s) \cup ToSet(t)
    <3>1. CASE i \in 1 .. L BY <1>1, <1>3, <3>1 DEF ToSet
    <3>2. ASSUME NEW j \in 1 .. N, i = L + j PROVE u[i] \in ToSet(t) BY <1>1, <1>4, <3>2 DEF ToSet
    <3> QED BY <1>5, <3>1, <3>2
  <2>2. ToSet(s) \subseteq ToSet(u) BY <1>1, <1>3 DEF ToSet
  <2>3. ToSet(t) \subseteq ToSet(u) BY <1>1, <1>4 DEF ToSet
  <2>4. ToSet(u) \subseteq ToSet(s) \cup ToSet(t) BY <1>1, <2>1 DEF ToSet
  <2> QED BY <2>2, <2>3, <2>4
<1>7. ASSUME IsInjective(u) PROVE IsInjective(s) /\ IsInjective(t) /\ ToSet(s) \cap ToSet(t) = {}
  <2>1. IsInjective(s) BY <1>1, <1>3, <1>7 DEF IsInjective
  <2>2. IsInjective(t)
    <3> SUFFICES ASSUME NEW a \in 1 .. N, NEW b \in 1 .. N, t[a] = t[b] PROVE a = b
      BY <1>1 DEF IsInjective
    <3>1. L + a = L + b BY <1>1, <1>4, <1>7 DEF IsInjective
    <3> QED BY <1>1, <3>1
  <2>3. ASSUME NEW a \in 1 .. L, NEW b \in 1 .. N, s[a] = t[b] PROVE FALSE
    <3>1. a = L + b BY <1>1, <1>3, <1>4, <1>7, <2>3 DEF IsInjective
    <3> QED BY <1>1, <3>1
  <2> QED BY <1>1, <2>1, <2>2, <2>3 DEF ToSet
<1>8. ASSUME IsInjective(s), IsInjective(t), ToSet(s) \cap ToSet(t) = {} PROVE IsInjective(u)
  <2> SUFFICES ASSUME NEW a \in 1 .. L + N, NEW b \in 1 .. L + N, u[a] = u[b] PROVE a = b
    BY <1>1 DEF IsInjective
  <2>1. /\ \A i \in 1 .. L : s[i] \in ToSet(s)
        /\ \A i \in 1 .. N : t[i] \in ToSet(t)
    BY <1>1 DEF ToSet
  <2>2. CASE a \in 1 .. L /\ b \in 1 .. L BY <1>1, <1>3, <1>8, <2>2 DEF IsInjective
  <2>3. ASSUME NEW i \in 1 .. N, a = L + i, b \in 1 .. L PROVE FALSE
    BY <1>3, <1>4, <1>8, <2>1, <2>3
  <2>4. ASSUME NEW i \in 1 .. N, b = L + i, a \in 1 .. L PROVE FALSE
    BY <1>3, <1>4, <1>8, <2>1, <2>4
  <2>5. ASSUME NEW i \in 1 .. N, NEW j \in 1 .. N, a = L + i, b = L + j PROVE a = b
    BY <1>1, <1>4, <1>8, <2>5 DEF IsInjective
  <2> QED BY <1>5, <2>2, <2>3, <2>4, <2>5
<1> QED BY <1>6, <1>7, <1>8 DEF u

\* What is kept is a list of the bugs that were to be kept, each as often as
\* it was listed.
LEMMA KeptFacts ==
  ASSUME NEW s \in Seq(Bugs), NEW S
  PROVE  /\ Kept(s, S) \in Seq(Bugs)
         /\ ToSet(Kept(s, S)) = ToSet(s) \cap S
         /\ IsInjective(s) => IsInjective(Kept(s, S))
<1> DEFINE G == {r \in Seq(Bugs) : /\ Kept(r, S) \in Seq(Bugs)
                                   /\ ToSet(Kept(r, S)) = ToSet(r) \cap S
                                   /\ IsInjective(r) => IsInjective(Kept(r, S))}
<1>1. <<>> \in G
  <2>1. <<>> \in Seq(Bugs) /\ ToSet(<<>>) = {} BY DEF ToSet
  <2> QED BY <2>1, KeptStep, ZenonT(30)
<1>2. ASSUME NEW r \in Seq(Bugs), NEW e \in Bugs, r \in G PROVE Append(r, e) \in G
  <2> DEFINE t == Append(r, e)
             k == Kept(r, S)
  <2>1. k \in Seq(Bugs) /\ ToSet(k) = ToSet(r) \cap S /\ (IsInjective(r) => IsInjective(k))
    BY <1>2
  <2>2. /\ t \in Seq(Bugs) /\ ToSet(t) = ToSet(r) \cup {e}
        /\ IsInjective(t) <=> IsInjective(r) /\ e \notin ToSet(r)
    BY AppendFacts, AppendProperties
  <2>3. Kept(t, S) = IF e \in S THEN Append(k, e) ELSE k BY KeptStep
  <2> HIDE DEF t, k
  <2>4. CASE e \in S
    <3>1. /\ Append(k, e) \in Seq(Bugs) /\ ToSet(Append(k, e)) = ToSet(k) \cup {e}
          /\ IsInjective(Append(k, e)) <=> IsInjective(k) /\ e \notin ToSet(k)
      BY <2>1, AppendFacts, AppendProperties
    <3>2. t \in G BY <2>1, <2>2, <2>3, <2>4, <3>1
    <3> QED BY <3>2 DEF t
  <2>5. CASE e \notin S
    <3>1. ToSet(r) \cap S = ToSet(t) \cap S BY <2>2, <2>5
    <3>2. t \in G BY <2>1, <2>2, <2>3, <2>5, <3>1
    <3> QED BY <3>2 DEF t
  <2> QED BY <2>4, <2>5
<1>3. Seq(Bugs) \subseteq G
  <2> HIDE DEF G
  <2> QED BY <1>1, <1>2, SeqInduction
<1> QED BY <1>3

\* Filtering a list in two parts is filtering the parts.
LEMMA KeptConcat ==
  ASSUME NEW s \in Seq(Bugs), NEW t \in Seq(Bugs), NEW S
  PROVE  Kept(s \o t, S) = Kept(s, S) \o Kept(t, S)
<1> DEFINE G == {r \in Seq(Bugs) : Kept(s \o r, S) = Kept(s, S) \o Kept(r, S)}
<1>1. <<>> \in G
  <2>1. /\ <<>> \in Seq(Bugs) /\ s \o <<>> = s
        /\ Kept(s, S) \in Seq(Bugs)
    BY ConcatEmptySeq, KeptFacts
  <2>2. Kept(s, S) \o <<>> = Kept(s, S) BY <2>1, ConcatEmptySeq
  <2>3. Kept(<<>>, S) = <<>> BY KeptStep
  <2> QED BY <2>1, <2>2, <2>3
<1>2. ASSUME NEW r \in Seq(Bugs), NEW e \in Bugs, r \in G PROVE Append(r, e) \in G
  <2>1. /\ s \o r \in Seq(Bugs) /\ Append(r, e) \in Seq(Bugs)
        /\ s \o Append(r, e) = Append(s \o r, e)
    BY ConcatProperties, AppendProperties
  <2>2. Kept(s \o r, S) = Kept(s, S) \o Kept(r, S) BY <1>2
  <2>3. /\ Kept(Append(s \o r, e), S) =
             IF e \in S THEN Append(Kept(s \o r, S), e) ELSE Kept(s \o r, S)
        /\ Kept(Append(r, e), S) = IF e \in S THEN Append(Kept(r, S), e) ELSE Kept(r, S)
    BY <2>1, KeptStep
  <2>4. Kept(s, S) \in Seq(Bugs) /\ Kept(r, S) \in Seq(Bugs) BY KeptFacts
  <2>5. Kept(s, S) \o Append(Kept(r, S), e) = Append(Kept(s, S) \o Kept(r, S), e)
    <3> DEFINE a == Kept(s, S)
               b == Kept(r, S)
    <3>1. a \in Seq(Bugs) /\ b \in Seq(Bugs) BY <2>4
    <3> HIDE DEF a, b
    <3>2. a \o Append(b, e) = Append(a \o b, e) BY <3>1
    <3> QED BY <3>2 DEF a, b
  <2> QED BY <2>1, <2>2, <2>3, <2>5
<1>3. Seq(Bugs) \subseteq G
  <2> HIDE DEF G
  <2> QED BY <1>1, <1>2, SeqInduction
<1> QED BY <1>3

\* Only the bugs on the list matter to what is kept of it.
LEMMA KeptSame ==
  ASSUME NEW s \in Seq(Bugs), NEW S, NEW T, ToSet(s) \cap S = ToSet(s) \cap T
  PROVE  Kept(s, S) = Kept(s, T)
<1> DEFINE G == {r \in Seq(Bugs) : ToSet(r) \cap S = ToSet(r) \cap T => Kept(r, S) = Kept(r, T)}
<1>1. <<>> \in G BY KeptStep
<1>2. ASSUME NEW r \in Seq(Bugs), NEW e \in Bugs, r \in G PROVE Append(r, e) \in G
  <2> SUFFICES ASSUME ToSet(Append(r, e)) \cap S = ToSet(Append(r, e)) \cap T
               PROVE  Kept(Append(r, e), S) = Kept(Append(r, e), T)
    BY AppendProperties
  <2>1. ToSet(Append(r, e)) = ToSet(r) \cup {e} BY AppendFacts
  <2>2. ToSet(r) \cap S = ToSet(r) \cap T /\ (e \in S <=> e \in T) BY <2>1
  <2>3. Kept(r, S) = Kept(r, T) BY <1>2, <2>2
  <2>4. Kept(Append(r, e), S) = IF e \in S THEN Append(Kept(r, S), e) ELSE Kept(r, S)
    BY KeptStep
  <2>5. Kept(Append(r, e), T) = IF e \in T THEN Append(Kept(r, T), e) ELSE Kept(r, T)
    BY KeptStep
  <2> QED BY <2>2, <2>3, <2>4, <2>5
<1>3. Seq(Bugs) \subseteq G
  <2> HIDE DEF G
  <2> QED BY <1>1, <1>2, SeqInduction
<1> QED BY <1>3

\* Two filters that keep nothing in common keep no more than there was.
LEMMA KeptSplit ==
  ASSUME NEW s \in Seq(Bugs), NEW S, NEW T, S \cap T = {}
  PROVE  Len(Kept(s, S)) + Len(Kept(s, T)) <= Len(s)
<1> DEFINE G == {r \in Seq(Bugs) : Len(Kept(r, S)) + Len(Kept(r, T)) <= Len(r)}
<1>1. <<>> \in G BY KeptStep
<1>2. ASSUME NEW r \in Seq(Bugs), NEW e \in Bugs, r \in G PROVE Append(r, e) \in G
  <2> DEFINE a == Kept(r, S)
             b == Kept(r, T)
  <2>1. a \in Seq(Bugs) /\ b \in Seq(Bugs) BY KeptFacts
  <2>2. Len(a) + Len(b) <= Len(r) BY <1>2
  <2>3. /\ Kept(Append(r, e), S) = IF e \in S THEN Append(a, e) ELSE a
        /\ Kept(Append(r, e), T) = IF e \in T THEN Append(b, e) ELSE b
    BY KeptStep
  <2>4. Append(r, e) \in Seq(Bugs) /\ Len(Append(r, e)) = Len(r) + 1 BY AppendProperties
  <2> HIDE DEF a, b
  <2>5. /\ Len(Append(a, e)) = Len(a) + 1 /\ Len(Append(b, e)) = Len(b) + 1
        /\ Len(a) \in Nat /\ Len(b) \in Nat /\ Len(r) \in Nat
    BY <2>1, AppendProperties
  <2>6. ~(e \in S /\ e \in T) OBVIOUS
  <2> QED BY <2>2, <2>3, <2>4, <2>5, <2>6
<1>3. Seq(Bugs) \subseteq G
  <2> HIDE DEF G
  <2> QED BY <1>1, <1>2, SeqInduction
<1> QED BY <1>3
\* A list on which no bug is twice is as long as the set of its bugs.
LEMMA Counted ==
  ASSUME NEW s \in Seq(Bugs)
  PROVE  IsFiniteSet(ToSet(s)) /\ (IsInjective(s) => Cardinality(ToSet(s)) = Len(s))
<1> DEFINE G == {r \in Seq(Bugs) : /\ IsFiniteSet(ToSet(r))
                                   /\ IsInjective(r) => Cardinality(ToSet(r)) = Len(r)}
<1>1. <<>> \in G
  <2>1. <<>> \in Seq(Bugs) /\ ToSet(<<>>) = {} /\ Len(<<>>) = 0 BY DEF ToSet
  <2> QED BY <2>1, FS_EmptySet
<1>2. ASSUME NEW r \in Seq(Bugs), NEW e \in Bugs, r \in G PROVE Append(r, e) \in G
  <2>1. /\ IsFiniteSet(ToSet(r) \cup {e})
        /\ Cardinality(ToSet(r) \cup {e}) =
             IF e \in ToSet(r) THEN Cardinality(ToSet(r)) ELSE Cardinality(ToSet(r)) + 1
    BY <1>2, FS_AddElement
  <2>2. /\ ToSet(Append(r, e)) = ToSet(r) \cup {e}
        /\ IsInjective(Append(r, e)) <=> IsInjective(r) /\ e \notin ToSet(r)
    BY AppendFacts
  <2>3. Append(r, e) \in Seq(Bugs) /\ Len(Append(r, e)) = Len(r) + 1 BY AppendProperties
  <2> QED BY <1>2, <2>1, <2>2, <2>3
<1>3. Seq(Bugs) \subseteq G
  <2> HIDE DEF G
  <2> QED BY <1>1, <1>2, SeqInduction
<1> QED BY <1>3

\* A stretch of a list.
LEMMA StretchFacts ==
  ASSUME NEW s \in Seq(Bugs), NEW m \in Nat \ {0}, NEW n \in Nat, n <= Len(s)
  PROVE  /\ SubSeq(s, m, n) \in Seq(Bugs)
         /\ Len(SubSeq(s, m, n)) = IF m <= n THEN n - m + 1 ELSE 0
         /\ \A i \in 1 .. n - m + 1 : SubSeq(s, m, n)[i] = s[m + i - 1]
         /\ ToSet(SubSeq(s, m, n)) \subseteq ToSet(s)
         /\ IsInjective(s) => IsInjective(SubSeq(s, m, n))
<1> DEFINE t == SubSeq(s, m, n)
           L == Len(s)
<1>1. L \in Nat /\ n <= L /\ DOMAIN s = 1 .. L OBVIOUS
<1>2. /\ t \in Seq(Bugs) /\ Len(t) = IF m <= n THEN n - m + 1 ELSE 0
      /\ \A i \in 1 .. n - m + 1 : t[i] = s[m + i - 1]
  <2>1. \A i \in m .. n : s[i] \in Bugs BY <1>1
  <2> QED BY <2>1, SubSeqProperties
<1>3. DOMAIN t = 1 .. Len(t) BY <1>2
<1> HIDE DEF t, L
<1>4. \A i \in DOMAIN t : i \in 1 .. n - m + 1 /\ m + i - 1 \in 1 .. L
  BY <1>1, <1>2, <1>3
<1>5. ToSet(t) \subseteq ToSet(s) BY <1>1, <1>2, <1>4 DEF ToSet
<1>6. ASSUME IsInjective(s) PROVE IsInjective(t)
  <2> SUFFICES ASSUME NEW a \in DOMAIN t, NEW b \in DOMAIN t, t[a] = t[b] PROVE a = b
    BY DEF IsInjective
  <2>1. m + a - 1 = m + b - 1 BY <1>1, <1>2, <1>4, <1>6 DEF IsInjective
  <2>2. a \in Int /\ b \in Int BY <1>4
  <2> QED BY <2>1, <2>2
<1> QED BY <1>2, <1>5, <1>6 DEF t

\* The stretch from m to n of a list is one of any list that begins with it,
\* up to n.
LEMMA StretchOfConcat ==
  ASSUME NEW s \in Seq(Bugs), NEW t \in Seq(Bugs), NEW m \in Nat \ {0}, NEW n \in Nat,
         n <= Len(s)
  PROVE  SubSeq(s \o t, m, n) = SubSeq(s, m, n)
<1> DEFINE u == s \o t
           L == Len(s)
           N == Len(t)
<1>1. /\ u \in Seq(Bugs) /\ Len(u) = L + N /\ L \in Nat /\ N \in Nat
      /\ \A i \in 1 .. L + N : u[i] = IF i <= L THEN s[i] ELSE t[i - L]
  BY ConcatProperties
<1>2. n <= L OBVIOUS
<1> HIDE DEF u, L, N
<1>3. \A i \in 1 .. L : u[i] = s[i] BY <1>1
<1>4. /\ SubSeq(u, m, n) \in Seq(Bugs)
      /\ Len(SubSeq(u, m, n)) = IF m <= n THEN n - m + 1 ELSE 0
      /\ \A i \in 1 .. n - m + 1 : SubSeq(u, m, n)[i] = u[m + i - 1]
  BY <1>1, <1>2, StretchFacts
<1>5. /\ SubSeq(s, m, n) \in Seq(Bugs)
      /\ Len(SubSeq(s, m, n)) = IF m <= n THEN n - m + 1 ELSE 0
      /\ \A i \in 1 .. n - m + 1 : SubSeq(s, m, n)[i] = s[m + i - 1]
  BY StretchFacts
<1> DEFINE a == SubSeq(u, m, n)
           b == SubSeq(s, m, n)
<1>6. \A i \in 1 .. n - m + 1 : m + i - 1 \in 1 .. L BY <1>1, <1>2
<1>7. \A i \in 1 .. n - m + 1 : a[i] = b[i] BY <1>3, <1>4, <1>5, <1>6
<1>8. Len(a) = Len(b) /\ a \in Seq(Bugs) /\ b \in Seq(Bugs)
      /\ \A i \in 1 .. Len(a) : i \in 1 .. n - m + 1
  BY <1>4, <1>5
<1> HIDE DEF a, b
<1>9. a = b BY <1>7, <1>8, SeqEqual
<1> QED BY <1>9 DEF a, b, u
-----------------------------------------------------------------------------
(* What a scan counts                                                      *)

\* Every bug met is kept or dropped, once, and is one of the rows examined.
Accounted ==
  /\ IsInjective(rows)
  /\ seen = ToSet(visible) \cup ToSet(dropped)
  /\ NothingTwice
  /\ Len(visible) + Len(dropped) <= scanned
  /\ ToSet(page) \subseteq ToSet(visible)

\* A scan under way has something to look for, and leave to look for it.
Scanning ==
  phase = "scan" =>
    /\ limit > 0 /\ Len(visible) < Target(offset, limit)
    /\ scanned < ScanMax /\ requests < ScanRequests

SearchIInv == SearchTypeOK /\ Accounted /\ Scanning

\* The bounds are numbers.
LEMMA Bounds ==
  /\ ScanChunk \in Nat \ {0} /\ ScanMax \in Nat \ {0} /\ ScanRequests \in Nat \ {0}
  /\ MaxWindow \in Nat \ {0} /\ MaxAsk \in Nat /\ MaxDisturbances \in Nat
  /\ \A c \in Caps : c \in Nat \ {0}
BY BoundsAssumption, CapsAssumption

\* A window ends within the blocks scanned for it.
LEMMA TargetCovers ==
  ASSUME NEW off \in Nat, NEW lim \in Nat
  PROVE  /\ NeededFor(off, lim) \in Nat /\ NeededFor(off, lim) <= MaxWindow
         /\ NeededFor(off, lim) <= off + lim
         /\ lim > 0 => NeededFor(off, lim) > 0
         /\ Target(off, lim) \in Nat /\ NeededFor(off, lim) <= Target(off, lim)
<1> DEFINE n == NeededFor(off, lim)
           c == ScanChunk
<1>1. n \in Nat /\ n <= MaxWindow /\ n <= off + lim /\ (lim > 0 => n > 0)
  BY Bounds DEF NeededFor, Least
<1>2. Target(off, lim) = ((n + c - 1) \div c) * c BY DEF Target, CeilDiv
<1>3. c \in Nat \ {0} BY Bounds
<1> HIDE DEF n, c
<1>4. \A x \in Nat : (x \div c) \in Nat /\ (x \div c) * c \in Nat /\ x < (x \div c) * c + c
  BY <1>3
<1>5. n + c - 1 \in Nat BY <1>1, <1>3
<1> DEFINE q == ((n + c - 1) \div c) * c
<1>6. q \in Nat /\ n + c - 1 < q + c BY <1>4, <1>5
<1> HIDE DEF q
<1>7. n <= q BY <1>1, <1>3, <1>6
<1> QED BY <1>1, <1>2, <1>6, <1>7 DEF n, q

\* What the upstream returns is the stretch of its list that follows the rows
\* examined, as many of them as it serves.
LEMMA ResponseFacts ==
  ASSUME SearchTypeOK, Accounted, scanned < ScanMax
  PROVE  LET got  == Response(NextChunk, scanned)
             size == IF cap > ScanChunk THEN cap
                     ELSE Least(cap, Least(ScanChunk, ScanMax - scanned))
         IN  /\ got \in Seq(Bugs) /\ IsInjective(got) /\ ToSet(got) \subseteq ToSet(rows)
             /\ size \in Nat \ {0} /\ (cap <= ScanChunk => scanned + size <= ScanMax)
             /\ Len(got) = IF scanned >= Len(rows) THEN 0 ELSE Least(size, Len(rows) - scanned)
             /\ got = SubSeq(rows, scanned + 1, Least(scanned + size, Len(rows)))
<1> DEFINE size == IF cap > ScanChunk THEN cap
                   ELSE Least(cap, Least(ScanChunk, ScanMax - scanned))
           got == Response(NextChunk, scanned)
           L == Len(rows)
           end == Least(scanned + size, L)
<1>1. /\ rows \in Seq(Bugs) /\ scanned \in Nat /\ cap \in Nat \ {0} /\ L \in Nat
      /\ ScanChunk \in Nat \ {0} /\ ScanMax \in Nat \ {0} /\ IsInjective(rows)
  BY Bounds DEF SearchTypeOK, Accounted
<1>2. got = SubSeq(rows, scanned + 1, end) BY DEF Response, NextChunk
<1>3. size \in Nat \ {0} /\ (cap <= ScanChunk => scanned + size <= ScanMax) BY <1>1 DEF Least
<1> HIDE DEF size, got
<1>4. end \in Nat /\ end <= L /\ scanned + 1 \in Nat \ {0} BY <1>1, <1>3 DEF Least
<1>5. /\ got \in Seq(Bugs) /\ ToSet(got) \subseteq ToSet(rows) /\ IsInjective(got)
      /\ Len(got) = IF scanned + 1 <= end THEN end - (scanned + 1) + 1 ELSE 0
  <2> HIDE DEF end, L
  <2>1. end <= Len(rows) BY <1>4 DEF L
  <2> QED BY <1>1, <1>2, <1>4, <2>1, StretchFacts
<1>6. Len(got) = IF scanned >= L THEN 0 ELSE Least(size, L - scanned)
  <2>1. /\ L \in Nat /\ scanned \in Nat /\ size \in Nat \ {0} BY <1>1, <1>3
  <2>2. Len(got) = IF scanned + 1 <= end THEN end - (scanned + 1) + 1 ELSE 0 BY <1>5
  <2> HIDE DEF L
  <2> QED BY <2>1, <2>2 DEF Least
<1> QED BY <1>2, <1>3, <1>5, <1>6 DEF size, got

LEMMA SearchInitOk == SearchInit => SearchIInv
<1> SUFFICES ASSUME SearchInit PROVE SearchIInv OBVIOUS
<1>1. rows \in Seq(Bugs) /\ IsInjective(rows) BY ListingsAssumption DEF SearchInit
<1>2. open \subseteq Bugs /\ nameless \subseteq Bugs
  <2>1. \A i \in DOMAIN rows : rows[i] \in Bugs BY <1>1
  <2> QED BY <2>1, UnlabelledAssumption DEF SearchInit, ToSet
<1>3. <<>> \in Seq(Bugs) /\ Len(<<>>) = 0 /\ ToSet(<<>>) = {} /\ DOMAIN <<>> = {}
  BY DEF ToSet
<1>4. SearchTypeOK BY <1>1, <1>2, <1>3, Bounds DEF SearchInit, SearchTypeOK
<1>5. IsInjective(<<>> \o <<>>)
  <2>1. <<>> \o <<>> = <<>> OBVIOUS
  <2> QED BY <1>3, <2>1 DEF IsInjective
<1>6. Accounted BY <1>1, <1>3, <1>5 DEF SearchInit, Accounted, NothingTwice
<1> QED BY <1>4, <1>6 DEF SearchIInv, Scanning, SearchInit
\* The page is cut out of what was kept.
LEMMA CutFacts ==
  ASSUME NEW kept \in Seq(Bugs), offset \in Nat, limit \in Nat
  PROVE  /\ Cut(kept) \in Seq(Bugs) /\ ToSet(Cut(kept)) \subseteq ToSet(kept)
<1> DEFINE end == Least(NeededFor(offset, limit), Len(kept))
           start == Least(offset, end)
<1>1. end \in Nat /\ end <= Len(kept) /\ start + 1 \in Nat \ {0}
  <2>1. Len(kept) \in Nat OBVIOUS
  <2>2. NeededFor(offset, limit) \in Nat BY TargetCovers
  <2> QED BY <2>1, <2>2 DEF Least
<1>2. Cut(kept) = SubSeq(kept, start + 1, end) BY DEF Cut
<1> HIDE DEF end, start
<1> QED BY <1>1, <1>2, StretchFacts

\* Moving a row to the front of the list leaves no bug on it twice.
LEMMA ReorderInjective ==
  ASSUME NEW s \in Seq(Bugs), IsInjective(s), NEW i \in 2 .. Len(s)
  PROVE  /\ <<s[i]>> \o RemoveAt(s, i) \in Seq(Bugs)
         /\ IsInjective(<<s[i]>> \o RemoveAt(s, i))
<1> DEFINE L == Len(s)
           a == SubSeq(s, 1, i - 1)
           b == SubSeq(s, i + 1, L)
           x == <<s[i]>>
<1>1. L \in Nat /\ i \in 2 .. L /\ i \in Nat OBVIOUS
<1>2. a \in Seq(Bugs) /\ b \in Seq(Bugs) /\ x \in Seq(Bugs)
  <2>1. a \in Seq(Bugs) BY <1>1, StretchFacts
  <2>2. b \in Seq(Bugs) BY <1>1, StretchFacts
  <2> QED BY <2>1, <2>2
<1>3. s = a \o (x \o b)
  <2>1. SubSeq(s, 1, i - 1) \o SubSeq(s, (i - 1) + 1, L) = SubSeq(s, 1, L)
    <3>1. 1 \in 1 .. L + 1 /\ i - 1 \in 1 - 1 .. L /\ L \in i - 1 .. L BY <1>1
    <3> QED BY <3>1, ConcatAdjacentSubSeq
  <2>2. SubSeq(s, 1, L) = s BY SubSeqFull
  <2>3. (i - 1) + 1 = i BY <1>1
  <2>4. SubSeq(s, i, L) = <<s[i]>> \o SubSeq(s, i + 1, L)
    <3>1. i \in 1 .. L /\ L \in i .. L BY <1>1
    <3> QED BY <3>1, SubSeqRecursiveFirst
  <2> QED BY <2>1, <2>2, <2>3, <2>4
<1>4. RemoveAt(s, i) = a \o b BY DEF RemoveAt
<1> HIDE DEF a, b, x, L
<1>5. x \o b \in Seq(Bugs) /\ a \o b \in Seq(Bugs) BY <1>2, ConcatProperties
<1>6. IsInjective(a \o (x \o b)) BY <1>3
<1>7. IsInjective(a) /\ IsInjective(x \o b) /\ ToSet(a) \cap ToSet(x \o b) = {}
  BY <1>2, <1>5, <1>6, ConcatFacts
<1>8. /\ ToSet(x \o b) = ToSet(x) \cup ToSet(b)
      /\ IsInjective(x) /\ IsInjective(b) /\ ToSet(x) \cap ToSet(b) = {}
  BY <1>2, <1>7, ConcatFacts
<1>9. IsInjective(a \o b) /\ ToSet(a \o b) = ToSet(a) \cup ToSet(b)
  <2>1. ToSet(a) \cap ToSet(b) = {} BY <1>7, <1>8
  <2> QED BY <1>2, <1>7, <1>8, <2>1, ConcatFacts
<1>10. IsInjective(x \o (a \o b))
  <2>1. ToSet(x) \cap ToSet(a \o b) = {} BY <1>7, <1>8, <1>9
  <2> QED BY <1>2, <1>5, <1>8, <1>9, <2>1, ConcatFacts
<1>11. x \o (a \o b) \in Seq(Bugs) BY <1>2, <1>5, ConcatProperties
<1> QED BY <1>4, <1>10, <1>11 DEF x

LEMMA UpstreamStepOk ==
  ASSUME SearchIInv, (\E i \in 1 .. Len(rows) : Reorder(i)) \/ (\E b \in ToSet(rows) : Flip(b))
  PROVE  SearchIInv'
<1>1. /\ rows' \in Seq(Bugs) /\ IsInjective(rows') /\ open' \subseteq Bugs
      /\ disturbances' \in 0 .. MaxDisturbances
  <2>1. ASSUME NEW i \in 1 .. Len(rows), Reorder(i)
        PROVE  /\ rows' \in Seq(Bugs) /\ IsInjective(rows') /\ open' \subseteq Bugs
               /\ disturbances' \in 0 .. MaxDisturbances
    <3>1. rows' \in Seq(Bugs) /\ IsInjective(rows')
      BY <2>1, ReorderInjective DEF Reorder, SearchIInv, SearchTypeOK, Accounted
    <3> QED BY <2>1, <3>1, Bounds DEF Reorder, SearchIInv, SearchTypeOK
  <2>2. ASSUME NEW b \in ToSet(rows), Flip(b)
        PROVE  /\ rows' \in Seq(Bugs) /\ IsInjective(rows') /\ open' \subseteq Bugs
               /\ disturbances' \in 0 .. MaxDisturbances
    <3>1. b \in Bugs BY DEF SearchIInv, SearchTypeOK, ToSet
    <3> QED BY <2>2, <3>1, Bounds DEF Flip, SearchIInv, SearchTypeOK, Accounted
  <2> QED BY <2>1, <2>2
<1>2. UNCHANGED <<nameless, cap, phase, search, past>> BY DEF Reorder, Flip
<1>3. SearchTypeOK' BY <1>1, <1>2 DEF SearchIInv, SearchTypeOK, search
<1>4. Accounted' BY <1>1, <1>2 DEF SearchIInv, Accounted, NothingTwice, search
<1>5. Scanning'
  <2>1. Target(offset, limit)' = Target(offset, limit) BY <1>2 DEF Target, NeededFor, search
  <2> QED BY <1>2, <2>1 DEF SearchIInv, Scanning, search
<1> QED BY <1>3, <1>4, <1>5 DEF SearchIInv

LEMMA BeginOk ==
  ASSUME SearchIInv, NEW off \in 0 .. MaxAsk, NEW lim \in 0 .. MaxAsk, Begin(off, lim)
  PROVE  SearchIInv'
<1>1. <<>> \in Seq(Bugs) /\ Len(<<>>) = 0 /\ ToSet(<<>>) = {} /\ DOMAIN <<>> = {} /\ <<>> \o <<>> = <<>>
  BY DEF ToSet
<1>2. UNCHANGED upstream /\ offset' = off /\ limit' = lim /\ past = <<>>
      /\ seen' = {} /\ visible' = <<>> /\ dropped' = <<>>
      /\ scanned' = 0 /\ requests' = 0 /\ page' = <<>>
      /\ phase' = IF lim = 0 \/ NeededFor(off, lim) = 0 THEN "answered" ELSE "scan"
  BY DEF Begin
<1>3. /\ Len(past') <= 1
      /\ \A i \in DOMAIN past' :
           past'[i] \in [offset : 0 .. MaxAsk, limit : 0 .. MaxAsk, page : Seq(Bugs),
                         requests : 0 .. ScanRequests]
  <2> DEFINE p == [offset |-> offset, limit |-> limit, page |-> page, requests |-> requests]
  <2>1. p \in [offset : 0 .. MaxAsk, limit : 0 .. MaxAsk, page : Seq(Bugs),
               requests : 0 .. ScanRequests]
    BY DEF SearchIInv, SearchTypeOK
  <2>2. past' = <<p>> \/ past' = <<>> BY <1>2 DEF Begin
  <2> HIDE DEF p
  <2>3. CASE past' = <<p>>
    <3>1. Len(past') = 1 /\ DOMAIN past' = 1 .. 1 /\ past'[1] = p BY <2>3
    <3> QED BY <2>1, <3>1
  <2>4. CASE past' = <<>> BY <2>4
  <2> QED BY <2>2, <2>3, <2>4
<1>4. SearchTypeOK' BY <1>1, <1>2, <1>3, Bounds DEF SearchIInv, SearchTypeOK, upstream
<1>5. Accounted' BY <1>1, <1>2 DEF SearchIInv, Accounted, NothingTwice, upstream, IsInjective
<1>6. Scanning'
  <2>1. Target(offset, limit)' = Target(off, lim) BY <1>2 DEF Target, NeededFor
  <2>2. Target(off, lim) \in Nat /\ NeededFor(off, lim) \in Nat
        /\ NeededFor(off, lim) <= Target(off, lim)
    BY TargetCovers, Bounds
  <2> QED BY <1>1, <1>2, <2>1, <2>2, Bounds DEF Scanning
<1> QED BY <1>4, <1>5, <1>6 DEF SearchIInv

LEMMA ScanOk == ASSUME SearchIInv, Scan PROVE SearchIInv'
<1> DEFINE got   == Response(NextChunk, scanned)
           fresh == Fresh(got)
           a     == Kept(got, fresh \cap open)
           b     == Kept(got, fresh \ open)
           kept  == visible \o a
           lost  == dropped \o b
<1>1. /\ SearchTypeOK /\ Accounted /\ phase = "scan" /\ limit > 0
      /\ Len(visible) < Target(offset, limit) /\ scanned < ScanMax /\ requests < ScanRequests
  BY DEF SearchIInv, Scanning, Scan
<1>2. /\ seen' = seen \cup fresh /\ visible' = kept /\ dropped' = lost
      /\ scanned' = scanned + Len(got) /\ requests' = requests + 1
      /\ UNCHANGED <<upstream, offset, limit, past>>
      /\ IF GoesOn(got, kept, scanned', requests') THEN UNCHANGED <<phase, page>>
         ELSE phase' = "answered" /\ page' = Cut(kept)
  BY DEF Scan
<1>3. /\ got \in Seq(Bugs) /\ IsInjective(got) /\ ToSet(got) \subseteq Bugs
      /\ cap <= ScanChunk => scanned + Len(got) <= ScanMax
  <2>1. /\ scanned \in Nat /\ cap \in Nat \ {0} /\ rows \in Seq(Bugs) /\ Len(rows) \in Nat
        /\ ScanMax \in Nat /\ ToSet(rows) \subseteq Bugs
    BY <1>1, Bounds DEF SearchTypeOK, ToSet
  <2> HIDE DEF got
  <2> DEFINE size == IF cap > ScanChunk THEN cap
                     ELSE Least(cap, Least(ScanChunk, ScanMax - scanned))
  <2>2. /\ got \in Seq(Bugs) /\ IsInjective(got) /\ ToSet(got) \subseteq ToSet(rows)
        /\ size \in Nat \ {0} /\ (cap <= ScanChunk => scanned + size <= ScanMax)
        /\ Len(got) = IF scanned >= Len(rows) THEN 0 ELSE Least(size, Len(rows) - scanned)
    BY <1>1, ResponseFacts DEF got
  <2> HIDE DEF size
  <2>3. Len(got) <= size BY <2>1, <2>2 DEF Least
  <2>4. Len(got) \in Nat BY <2>2
  <2> QED BY <1>1, <2>1, <2>2, <2>3, <2>4
<1>4. fresh = ToSet(got) \ (nameless \cup seen) BY DEF Fresh
<1> HIDE DEF got, fresh
<1>5. /\ a \in Seq(Bugs) /\ ToSet(a) = ToSet(got) \cap (fresh \cap open) /\ IsInjective(a)
      /\ b \in Seq(Bugs) /\ ToSet(b) = ToSet(got) \cap (fresh \ open) /\ IsInjective(b)
  BY <1>3, KeptFacts
<1>6. Len(a) + Len(b) <= Len(got)
  <2>1. (fresh \cap open) \cap (fresh \ open) = {} OBVIOUS
  <2> QED BY <1>3, <2>1, KeptSplit
<1>7. ToSet(a) = fresh \cap open /\ ToSet(b) = fresh \ open BY <1>4, <1>5
<1>8. visible \in Seq(Bugs) /\ dropped \in Seq(Bugs) BY <1>1 DEF SearchTypeOK
<1> HIDE DEF a, b
<1>9. /\ IsInjective(visible) /\ IsInjective(dropped) /\ ToSet(visible) \cap ToSet(dropped) = {}
  BY <1>1, <1>8, ConcatFacts DEF Accounted, NothingTwice
<1>10. /\ kept \in Seq(Bugs) /\ Len(kept) = Len(visible) + Len(a)
       /\ ToSet(kept) = ToSet(visible) \cup ToSet(a)
       /\ lost \in Seq(Bugs) /\ Len(lost) = Len(dropped) + Len(b)
       /\ ToSet(lost) = ToSet(dropped) \cup ToSet(b)
  BY <1>5, <1>8, ConcatFacts, ConcatProperties
<1>11. IsInjective(kept) /\ IsInjective(lost)
  <2>1. seen = ToSet(visible) \cup ToSet(dropped) BY <1>1 DEF Accounted
  <2>2. ToSet(visible) \cap ToSet(a) = {} /\ ToSet(dropped) \cap ToSet(b) = {}
    BY <1>4, <1>7, <2>1
  <2> QED BY <1>5, <1>8, <1>9, <2>2, ConcatFacts
<1>12. ToSet(kept) \cap ToSet(lost) = {}
  <2>1. seen = ToSet(visible) \cup ToSet(dropped) BY <1>1 DEF Accounted
  <2> QED BY <1>4, <1>7, <1>9, <1>10, <2>1
<1> HIDE DEF kept, lost
<1>13. IsInjective(kept \o lost) BY <1>10, <1>11, <1>12, ConcatFacts
<1>14. Cut(kept) \in Seq(Bugs) /\ ToSet(Cut(kept)) \subseteq ToSet(kept)
  <2>1. offset \in Nat /\ limit \in Nat BY <1>1, Bounds DEF SearchTypeOK
  <2> QED BY <1>10, <2>1, CutFacts
<1>15. /\ scanned \in Nat /\ Len(got) \in Nat /\ requests \in Nat /\ Len(visible) \in Nat
       /\ Len(dropped) \in Nat /\ Len(a) \in Nat /\ Len(b) \in Nat
  BY <1>1, <1>3, <1>5, <1>8, Bounds DEF SearchTypeOK
<1>16. /\ page' \in Seq(Bugs) /\ ToSet(page') \subseteq ToSet(kept) /\ phase' \in {"scan", "answered"}
  <2>1. ToSet(page) \subseteq ToSet(kept) /\ page \in Seq(Bugs)
    BY <1>1, <1>10 DEF Accounted, SearchTypeOK
  <2> QED BY <1>1, <1>2, <1>14, <2>1
<1>17. SearchTypeOK'
  <2>1. seen' \subseteq Bugs BY <1>1, <1>2, <1>3, <1>4 DEF SearchTypeOK
  <2>2. requests' \in 0 .. ScanRequests BY <1>1, <1>2, <1>15, Bounds
  <2>3. scanned' \in Nat /\ (cap <= ScanChunk => scanned' <= ScanMax) BY <1>2, <1>3, <1>15
  <2> QED BY <1>1, <1>2, <1>10, <1>16, <2>1, <2>2, <2>3 DEF SearchTypeOK, upstream
<1>18. Accounted'
  <2>1. seen' = ToSet(kept) \cup ToSet(lost)
    <3>1. seen = ToSet(visible) \cup ToSet(dropped) BY <1>1 DEF Accounted
    <3> QED BY <1>2, <1>7, <1>10, <3>1
  <2>2. Len(kept) + Len(lost) <= scanned + Len(got)
    <3>1. Len(visible) + Len(dropped) <= scanned BY <1>1 DEF Accounted
    <3> QED BY <1>6, <1>10, <1>15, <3>1
  <2> QED BY <1>1, <1>2, <1>13, <1>16, <2>1, <2>2 DEF Accounted, NothingTwice, upstream
<1>19. Scanning'
  <2> SUFFICES ASSUME phase' = "scan"
               PROVE  (limit > 0 /\ Len(visible) < Target(offset, limit)
                       /\ scanned < ScanMax /\ requests < ScanRequests)'
    BY DEF Scanning
  <2>1. GoesOn(got, kept, scanned', requests') BY <1>2
  <2>2. Target(offset, limit)' = Target(offset, limit) BY <1>2 DEF Target, NeededFor
  <2> QED BY <1>1, <1>2, <2>1, <2>2 DEF GoesOn
<1> QED BY <1>17, <1>18, <1>19 DEF SearchIInv

LEMMA SearchStepOk == SearchIInv /\ [SearchNext]_searchVars => SearchIInv'
<1> SUFFICES ASSUME SearchIInv, [SearchNext]_searchVars PROVE SearchIInv' OBVIOUS
<1>1. CASE (\E i \in 1 .. Len(rows) : Reorder(i)) \/ (\E b \in ToSet(rows) : Flip(b))
  BY <1>1, UpstreamStepOk
<1>2. CASE \E off, lim \in 0 .. MaxAsk : Begin(off, lim) BY <1>2, BeginOk
<1>3. CASE Scan BY <1>3, ScanOk
<1>4. ASSUME UNCHANGED <<upstream, search, past>>, phase' \in {"failed", phase} PROVE SearchIInv'
  <2>1. Target(offset, limit)' = Target(offset, limit) BY <1>4 DEF Target, NeededFor, search
  <2>2. SearchTypeOK' BY <1>4 DEF SearchIInv, SearchTypeOK, upstream, search
  <2>3. Accounted' BY <1>4 DEF SearchIInv, Accounted, NothingTwice, upstream, search
  <2>4. Scanning' BY <1>4, <2>1 DEF SearchIInv, Scanning, search
  <2> QED BY <2>2, <2>3, <2>4 DEF SearchIInv
<1>5. CASE ScanFails BY <1>4, <1>5 DEF ScanFails
<1>6. CASE UNCHANGED searchVars BY <1>4, <1>6 DEF searchVars
<1> QED BY <1>1, <1>2, <1>3, <1>5, <1>6 DEF SearchNext
\* What the record of a search holds.
LEMMA NotedIs ==
  ASSUME dropped \in Seq(Bugs)
  PROVE  /\ SearchNoted.verdict = IF dropped = <<>> THEN {"Served"} ELSE {"ServedFiltered"}
         /\ SearchNoted.scan = {[scanned |-> scanned, dropped |-> Len(dropped)]}
         /\ SearchNoted.ids = ToSet(dropped)
<1> DEFINE first == NoteVerdict(NothingNoted, "Served")
           scan  == {[scanned |-> scanned, dropped |-> Len(dropped)]}
           next  == NoteScan(first, scanned, Len(dropped))
<1>1. first = [NothingNoted EXCEPT !.verdict = {"Served"}, !.rule = {}]
  BY DEF NoteVerdict, Merge, Decides, NothingNoted
<1>2. /\ first.verdict = {"Served"} /\ first.rule = {} /\ first.ids = {}
      /\ first = [verdict |-> {"Served"}, rule |-> {}, ids |-> {}, extra |-> 0, fields |-> {},
                  scan |-> {}]
  BY <1>1 DEF NothingNoted
<1>3. SearchNoted = NoteSuppressed(next, ToSet(dropped)) BY DEF SearchNoted
<1>4. Len(dropped) \in Nat /\ (Len(dropped) > 0 <=> dropped # <<>>)
      /\ (ToSet(dropped) = {} <=> dropped = <<>>)
  <2>1. dropped # <<>> => dropped[1] \in ToSet(dropped) BY DEF ToSet
  <2>2. dropped = <<>> => ToSet(dropped) = {} BY DEF ToSet
  <2> QED BY <2>1, <2>2
<1>5. CASE dropped = <<>>
  <2>1. next = [first EXCEPT !.scan = scan] BY <1>4, <1>5 DEF NoteScan
  <2>2. SearchNoted = next BY <1>3, <1>4, <1>5 DEF NoteSuppressed
  <2> HIDE DEF first, next, scan
  <2>3. next.verdict = {"Served"} /\ next.ids = {} /\ next.scan = scan BY <1>2, <2>1
  <2> QED BY <1>4, <1>5, <2>2, <2>3 DEF scan
<1>6. CASE dropped # <<>>
  <2> HIDE DEF first
  <2>1. next = [NoteVerdict(first, "ServedFiltered") EXCEPT !.scan = scan]
    BY <1>4, <1>6 DEF NoteScan
  <2>2. NoteVerdict(first, "ServedFiltered") =
          [first EXCEPT !.verdict = {"ServedFiltered"}, !.rule = {}]
    BY <1>2 DEF NoteVerdict, Merge, Decides, Rank
  <2> DEFINE cell == [verdict |-> {"ServedFiltered"}, rule |-> {}, ids |-> {}, extra |-> 0,
                      fields |-> {}, scan |-> scan]
  <2>3. next = cell BY <1>2, <2>1, <2>2
  <2> HIDE DEF next, scan
  <2>4. ~Decides(cell, "ServedFiltered") BY DEF Decides, Rank
  <2>5. NoteVerdict(cell, "ServedFiltered") = [cell EXCEPT !.rule = {}]
    BY <2>4 DEF NoteVerdict, Merge
  <2>6. SearchNoted = [NoteVerdict(cell, "ServedFiltered") EXCEPT !.ids = @ \cup ToSet(dropped)]
    BY <1>3, <1>4, <1>6, <2>3 DEF NoteSuppressed
  <2>7. /\ SearchNoted.verdict = {"ServedFiltered"} /\ SearchNoted.scan = scan
        /\ SearchNoted.ids = ToSet(dropped)
    BY <2>5, <2>6
  <2> QED BY <1>6, <2>7 DEF scan
<1> QED BY <1>5, <1>6

LEMMA SearchInvFollows == SearchIInv => SearchInv
<1> SUFFICES ASSUME SearchIInv PROVE SearchInv OBVIOUS
<1> DEFINE v == ToSet(visible)
           d == ToSet(dropped)
<1>1. /\ SearchTypeOK /\ NothingTwice /\ seen = v \cup d /\ ToSet(page) \subseteq v
      /\ Len(visible) + Len(dropped) <= scanned
      /\ visible \in Seq(Bugs) /\ dropped \in Seq(Bugs) /\ scanned \in Nat
  BY DEF SearchIInv, Accounted, SearchTypeOK
<1>2. IsInjective(visible) /\ IsInjective(dropped) /\ v \cap d = {}
  BY <1>1, ConcatFacts DEF NothingTwice
<1>3. /\ IsFiniteSet(v) /\ Cardinality(v) = Len(visible)
      /\ IsFiniteSet(d) /\ Cardinality(d) = Len(dropped)
  BY <1>1, <1>2, Counted
<1>4. dropped # <<>> => d # {}
  <2>1. dropped # <<>> => dropped[1] \in d BY <1>1 DEF ToSet
  <2> QED BY <2>1
<1>5. dropped = <<>> => d = {} BY DEF ToSet
<1>6. /\ SearchNoted.verdict = IF dropped = <<>> THEN {"Served"} ELSE {"ServedFiltered"}
      /\ SearchNoted.scan = {[scanned |-> scanned, dropped |-> Len(dropped)]}
      /\ SearchNoted.ids = d
  BY <1>1, NotedIs
<1>7. scanned >= Cardinality(d \cup v)
  <2>1. Cardinality(d \cup v) = Cardinality(d) + Cardinality(v) - Cardinality(d \cap v)
    BY <1>3, FS_Union
  <2>2. d \cap v = {} BY <1>2
  <2>3. Cardinality(d \cap v) = 0 BY <2>2, FS_EmptySet
  <2>4. Len(visible) \in Nat /\ Len(dropped) \in Nat BY <1>1
  <2> QED BY <1>1, <1>3, <2>1, <2>3, <2>4
<1> HIDE DEF v, d
<1>8. (SearchNoted.verdict = {"Served"}) <=> (seen \subseteq v)
  <2>1. seen \subseteq v <=> d = {} BY <1>1, <1>2
  <2>2. {"Served"} # {"ServedFiltered"} OBVIOUS
  <2> QED BY <1>4, <1>5, <1>6, <2>1, <2>2
<1>9. \A scan \in SearchNoted.scan :
        /\ scan.dropped = Cardinality(SearchNoted.ids)
        /\ scan.scanned >= Cardinality(SearchNoted.ids \cup v)
  BY <1>3, <1>6, <1>7
<1>10. SearchNoted.ids \cap ToSet(page) = {} BY <1>1, <1>2, <1>6
<1> QED BY <1>1, <1>8, <1>9, <1>10 DEF SearchInv, SearchRecordIsTrue, v

\* What a scan counts, it counts once, within its budget and as it was, and
\* the record of the search says so: for any listing, page size and bounds,
\* however the upstream changes under the scan (Guard::quicksearch_window and
\* bugs_quicksearch's notes).
THEOREM SearchCorrect == SearchSpec => []SearchInv
<1>1. SearchSpec => []SearchIInv BY SearchInitOk, SearchStepOk, PTL DEF SearchSpec
<1> QED BY <1>1, SearchInvFollows, PTL
-----------------------------------------------------------------------------
(* Searches of a list that keeps still: their scans all read it alike, and *)
(* differ only in where they stop.                                         *)

\* The list and who may see what of it.
Source == [rows |-> rows, open |-> open \ nameless, cap |-> cap]

\* How much of the list u scans read, when no target stops them.
Readable(u) ==
  IF u.cap > ScanChunk THEN Len(u.rows) ELSE Least(ScanMax, Len(u.rows))

\* How many rows a scan has examined after k requests.
Pos(u, k) == Least(k * u.cap, Readable(u))

\* What it has found by then.
Found(u, k) == Kept(SubSeq(u.rows, 1, Pos(u, k)), u.open)

\* A scan goes on after its k-th request.
Going(u, k, target) ==
  /\ Pos(u, k) # Pos(u, k-1)
  /\ Len(Found(u, k)) < target /\ Pos(u, k) < ScanMax /\ k < ScanRequests

\* It has gone on to a k-th request.
Ran(u, off, lim, k) == \A j \in 1 .. k - 1 : Going(u, j, Target(off, lim))

\* The window of a search on what it found.
PageOf(off, lim, kept) ==
  LET end == Least(NeededFor(off, lim), Len(kept))
  IN  SubSeq(kept, Least(off, end) + 1, end)

\* A search has ended after k requests, with this page.
Over(u, off, lim, k, pg) ==
  IF lim = 0 THEN pg = <<>>
  ELSE /\ k > 0 /\ Ran(u, off, lim, k) /\ ~Going(u, k, Target(off, lim))
       /\ pg = PageOf(off, lim, Found(u, k))

\* The search under way has read so far what any scan reads, and no earlier
\* one is different.
Alike ==
  Steady =>
    /\ phase \in {"scan", "answered"} /\ limit > 0 =>
         /\ scanned = Pos(Source, requests) /\ visible = Found(Source, requests)
         /\ seen = ToSet(SubSeq(rows, 1, scanned)) \ nameless
    /\ phase = "scan" =>
         /\ Ran(Source, offset, limit, requests)
         /\ requests > 0 => Going(Source, requests, Target(offset, limit))
    /\ phase = "answered" => Over(Source, offset, limit, requests, page)
    /\ \A i \in DOMAIN past :
         Over(Source, past[i].offset, past[i].limit, past[i].requests, past[i].page)

SourceOk(u) == u.rows \in Seq(Bugs) /\ IsInjective(u.rows) /\ u.cap \in Nat \ {0}

LEMMA SourceIsOk == SearchIInv => SourceOk(Source)
BY Bounds DEF SearchIInv, SearchTypeOK, Accounted, SourceOk, Source

\* More requests of a size ask for no fewer rows.
LEMMA MoreRows ==
  ASSUME NEW c \in Nat, NEW j \in Nat, NEW k \in Nat
  PROVE  /\ k * c \in Nat /\ (k + 1) * c = k * c + c /\ (j <= k => j * c <= k * c)
<1>1. k * c \in Nat /\ (k + 1) * c = k * c + c OBVIOUS
<1>2. ASSUME j <= k PROVE j * c <= k * c
  <2>1. k - j \in Nat /\ k = j + (k - j) BY <1>2
  <2>2. \A d \in Nat : (j + d) * c = j * c + d * c /\ d * c \in Nat /\ j * c \in Nat OBVIOUS
  <2> QED BY <2>1, <2>2
<1> QED BY <1>1, <1>2

\* A scan examines ever more rows of the list.
LEMMA PosFacts ==
  ASSUME NEW u, SourceOk(u)
  PROVE  /\ Readable(u) \in Nat /\ Readable(u) <= Len(u.rows)
         /\ Pos(u, 0) = 0
         /\ \A k \in Nat : Pos(u, k) \in Nat /\ Pos(u, k) <= Readable(u)
         /\ \A j, k \in Nat : j <= k => Pos(u, j) <= Pos(u, k)
<1>1. Len(u.rows) \in Nat /\ u.cap \in Nat /\ ScanMax \in Nat BY Bounds DEF SourceOk
<1>2. Readable(u) \in Nat /\ Readable(u) <= Len(u.rows) BY <1>1 DEF Readable, Least
<1>3. Pos(u, 0) = 0 BY <1>1, <1>2 DEF Pos, Least
<1>4. ASSUME NEW k \in Nat PROVE Pos(u, k) \in Nat /\ Pos(u, k) <= Readable(u)
  <2>1. k * u.cap \in Nat BY <1>1, MoreRows
  <2> QED BY <1>2, <2>1 DEF Pos, Least
<1>5. ASSUME NEW j \in Nat, NEW k \in Nat, j <= k PROVE Pos(u, j) <= Pos(u, k)
  <2>1. j * u.cap \in Nat /\ k * u.cap \in Nat /\ j * u.cap <= k * u.cap
    BY <1>1, <1>5, MoreRows
  <2> QED BY <1>2, <2>1 DEF Pos, Least
<1> QED BY <1>2, <1>3, <1>4, <1>5

\* Where the next request of a scan leads to.
LEMMA PosStep ==
  ASSUME NEW u, SourceOk(u), NEW k \in Nat, Pos(u, k) < ScanMax
  PROVE  LET size == IF u.cap > ScanChunk THEN u.cap
                     ELSE Least(u.cap, Least(ScanChunk, ScanMax - Pos(u, k)))
             left == Len(u.rows) - Pos(u, k)
         IN  Pos(u, k + 1) = Pos(u, k) + (IF left <= 0 THEN 0 ELSE Least(size, left))
<1> DEFINE p == Pos(u, k)
           a == k * u.cap
           c == u.cap
           L == Len(u.rows)
<1>1. /\ L \in Nat /\ c \in Nat \ {0} /\ ScanMax \in Nat /\ ScanChunk \in Nat \ {0}
      /\ a \in Nat /\ (k + 1) * u.cap = a + c
  BY Bounds, MoreRows DEF SourceOk
<1>2. p = Least(a, Readable(u)) /\ Pos(u, k + 1) = Least(a + c, Readable(u))
  BY <1>1 DEF Pos
<1>3. p < ScanMax /\ p \in Nat BY PosFacts
<1>4. Readable(u) = IF c > ScanChunk THEN L ELSE Least(ScanMax, L) BY DEF Readable
<1> HIDE DEF p, a, c, L
<1>5. CASE c > ScanChunk
  <2>1. p = IF a <= L THEN a ELSE L BY <1>2, <1>4, <1>5 DEF Least
  <2>2. Pos(u, k + 1) = IF a + c <= L THEN a + c ELSE L BY <1>2, <1>4, <1>5 DEF Least
  <2>3. Pos(u, k + 1) = p + (IF L - p <= 0 THEN 0 ELSE IF c <= L - p THEN c ELSE L - p)
    BY <1>1, <1>3, <2>1, <2>2
  <2> QED BY <1>5, <2>3 DEF Least, p, L, c
<1>6. CASE ~(c > ScanChunk)
  <2> DEFINE B == IF ScanMax <= L THEN ScanMax ELSE L
             z == Least(c, Least(ScanChunk, ScanMax - p))
  <2>1. p = IF a <= B THEN a ELSE B BY <1>2, <1>4, <1>6 DEF Least
  <2>2. Pos(u, k + 1) = IF a + c <= B THEN a + c ELSE B BY <1>2, <1>4, <1>6 DEF Least
  <2>3. z = IF c <= ScanMax - p THEN c ELSE ScanMax - p BY <1>1, <1>3, <1>6 DEF Least
  <2>4. Pos(u, k + 1) = p + (IF L - p <= 0 THEN 0 ELSE IF z <= L - p THEN z ELSE L - p)
    BY <1>1, <1>3, <2>1, <2>2, <2>3
  <2> QED BY <1>6, <2>4 DEF Least, p, L, c
<1> QED BY <1>5, <1>6

\* Reading on adds to what was found.
LEMMA KeptPrefix ==
  ASSUME NEW s \in Seq(Bugs), NEW S, NEW m \in Nat, NEW n \in Nat, m <= n, n <= Len(s)
  PROVE  /\ Kept(SubSeq(s, 1, n), S) = Kept(SubSeq(s, 1, m), S) \o Kept(SubSeq(s, m + 1, n), S)
         /\ Kept(SubSeq(s, 1, m), S) \in Seq(Bugs) /\ Kept(SubSeq(s, m + 1, n), S) \in Seq(Bugs)
<1> DEFINE a == SubSeq(s, 1, m)
           b == SubSeq(s, m + 1, n)
<1>1. Len(s) \in Nat /\ m <= Len(s) /\ m + 1 \in Nat \ {0} OBVIOUS
<1>2. a \in Seq(Bugs) /\ b \in Seq(Bugs)
  <2>1. a \in Seq(Bugs) BY <1>1, StretchFacts
  <2>2. b \in Seq(Bugs) BY <1>1, StretchFacts
  <2> QED BY <2>1, <2>2
<1>3. a \o b = SubSeq(s, 1, n)
  <2>1. 1 \in 1 .. Len(s) + 1 /\ m \in 1 - 1 .. Len(s) /\ n \in m .. Len(s) BY <1>1
  <2> QED BY <2>1, ConcatAdjacentSubSeq
<1> HIDE DEF a, b
<1>4. Kept(a \o b, S) = Kept(a, S) \o Kept(b, S) BY <1>2, KeptConcat
<1>5. Kept(a, S) \in Seq(Bugs) /\ Kept(b, S) \in Seq(Bugs) BY <1>2, KeptFacts
<1> QED BY <1>3, <1>4, <1>5 DEF a, b

\* A scan finds ever more, and in the end everything.
LEMMA FoundFacts ==
  ASSUME NEW u, SourceOk(u), NEW j \in Nat, NEW k \in Nat, j <= k
  PROVE  /\ Found(u, j) \in Seq(Bugs) /\ Found(u, k) \in Seq(Bugs)
         /\ \E r \in Seq(Bugs) : Found(u, k) = Found(u, j) \o r
         /\ \E r \in Seq(Bugs) : Kept(u.rows, u.open) = Found(u, k) \o r
         /\ Pos(u, k) = Len(u.rows) => Found(u, k) = Kept(u.rows, u.open)
<1>1. /\ u.rows \in Seq(Bugs) /\ Len(u.rows) \in Nat
      /\ Pos(u, j) \in Nat /\ Pos(u, k) \in Nat
      /\ Pos(u, j) <= Pos(u, k) /\ Pos(u, k) <= Len(u.rows)
  <2>1. u.rows \in Seq(Bugs) /\ Len(u.rows) \in Nat BY DEF SourceOk
  <2>2. Readable(u) \in Nat /\ Readable(u) <= Len(u.rows)
        /\ Pos(u, j) \in Nat /\ Pos(u, k) \in Nat /\ Pos(u, j) <= Pos(u, k)
        /\ Pos(u, k) <= Readable(u)
    BY PosFacts
  <2> QED BY <2>1, <2>2
<1>2. /\ Found(u, k) = Found(u, j) \o Kept(SubSeq(u.rows, Pos(u, j) + 1, Pos(u, k)), u.open)
      /\ Found(u, j) \in Seq(Bugs)
      /\ Kept(SubSeq(u.rows, Pos(u, j) + 1, Pos(u, k)), u.open) \in Seq(Bugs)
  BY <1>1, KeptPrefix DEF Found
<1>3. SubSeq(u.rows, 1, Len(u.rows)) = u.rows BY <1>1, SubSeqFull
<1>4. /\ Kept(SubSeq(u.rows, 1, Len(u.rows)), u.open)
           = Found(u, k) \o Kept(SubSeq(u.rows, Pos(u, k) + 1, Len(u.rows)), u.open)
      /\ Found(u, k) \in Seq(Bugs)
      /\ Kept(SubSeq(u.rows, Pos(u, k) + 1, Len(u.rows)), u.open) \in Seq(Bugs)
  <2> DEFINE L == Len(u.rows)
             m == Pos(u, k)
  <2>1. u.rows \in Seq(Bugs) /\ L \in Nat /\ m \in Nat /\ m <= L /\ L <= Len(u.rows) BY <1>1
  <2> HIDE DEF L, m
  <2>2. /\ Kept(SubSeq(u.rows, 1, L), u.open)
             = Kept(SubSeq(u.rows, 1, m), u.open) \o Kept(SubSeq(u.rows, m + 1, L), u.open)
        /\ Kept(SubSeq(u.rows, 1, m), u.open) \in Seq(Bugs)
        /\ Kept(SubSeq(u.rows, m + 1, L), u.open) \in Seq(Bugs)
    BY <2>1, KeptPrefix
  <2> QED BY <2>2 DEF Found, L, m
<1>5. Pos(u, k) = Len(u.rows) => Found(u, k) = Kept(u.rows, u.open) BY <1>3 DEF Found
<1> QED BY <1>2, <1>3, <1>4, <1>5
LEMMA BeginAlike ==
  ASSUME SearchIInv, Alike, NEW off \in 0 .. MaxAsk, NEW lim \in 0 .. MaxAsk, Begin(off, lim)
  PROVE  Alike'
<1> DEFINE p == [offset |-> offset, limit |-> limit, page |-> page, requests |-> requests]
<1>1. /\ Source' = Source /\ offset' = off /\ limit' = lim /\ past = <<>> /\ Steady
      /\ seen' = {} /\ visible' = <<>> /\ scanned' = 0 /\ requests' = 0 /\ page' = <<>>
      /\ phase' = IF lim = 0 \/ NeededFor(off, lim) = 0 THEN "answered" ELSE "scan"
      /\ past' = IF phase = "answered" THEN Append(past, p) ELSE past
      /\ nameless' = nameless /\ rows' = rows
  BY DEF Begin, upstream, Source
<1>2. off \in Nat /\ lim \in Nat BY Bounds
<1>3. SourceOk(Source) BY SourceIsOk
<1>4. lim > 0 => phase' = "scan"
  <2>1. lim > 0 => NeededFor(off, lim) > 0 BY <1>2, TargetCovers
  <2> QED BY <1>1, <1>2, <2>1
<1>5. Pos(Source, 0) = 0 BY <1>3, PosFacts
<1>6. SubSeq(rows, 1, 0) = <<>> BY SubSeqEmpty
<1>7. Found(Source, 0) = <<>> BY <1>5, <1>6, KeptStep DEF Found, Source
<1>8. ToSet(SubSeq(rows, 1, 0)) = {} BY <1>6 DEF ToSet
<1>9. Ran(Source, off, lim, 0)
  <2>1. \A j \in 1 .. 0 - 1 : FALSE OBVIOUS
  <2> QED BY <2>1 DEF Ran
<1>10. phase' = "answered" => lim = 0 BY <1>2, <1>4, <1>1
<1>11. \A i \in DOMAIN past' :
         Over(Source, past'[i].offset, past'[i].limit, past'[i].requests, past'[i].page)
  <2>1. CASE phase = "answered"
    <3>1. Over(Source, p.offset, p.limit, p.requests, p.page) BY <1>1, <2>1 DEF Alike
    <3>2. past' = <<p>> BY <1>1, <2>1
    <3> HIDE DEF p
    <3>3. DOMAIN past' = 1 .. 1 /\ past'[1] = p BY <3>2
    <3>4. \A i \in DOMAIN past' : past'[i] = p BY <3>3
    <3> QED BY <3>1, <3>4
  <2>2. CASE phase # "answered" BY <1>1, <2>2
  <2> QED BY <2>1, <2>2
<1>12. phase' = "answered" => Over(Source, off, lim, 0, <<>>) BY <1>10 DEF Over
<1>13. phase' = "scan" \/ phase' = "answered" BY <1>1
<1> HIDE DEF p
<1>14. ASSUME lim > 0
       PROVE  /\ scanned' = Pos(Source', requests') /\ visible' = Found(Source', requests')
              /\ seen' = ToSet(SubSeq(rows', 1, scanned')) \ nameless'
  BY <1>1, <1>5, <1>7, <1>8
<1>15. Ran(Source', offset', limit', requests') /\ ~(requests' > 0) BY <1>1, <1>9
<1>16. phase' = "answered" => Over(Source', offset', limit', requests', page') BY <1>1, <1>12
<1>17. \A i \in DOMAIN past' :
         Over(Source', past'[i].offset, past'[i].limit, past'[i].requests, past'[i].page)
  BY <1>1, <1>11
<1> QED BY <1>1, <1>14, <1>15, <1>16, <1>17 DEF Alike

LEMMA ScanAlike == ASSUME SearchIInv, Alike, Scan PROVE Alike'
<1> SUFFICES ASSUME Steady' PROVE Alike' BY DEF Alike
<1> DEFINE got   == Response(NextChunk, scanned)
           fresh == Fresh(got)
           a     == Kept(got, fresh \cap open)
           kept  == visible \o a
           k     == requests
           T     == Target(offset, limit)
<1>1. /\ SearchTypeOK /\ Accounted /\ phase = "scan" /\ limit > 0 /\ scanned < ScanMax
      /\ SourceOk(Source)
  BY SourceIsOk DEF SearchIInv, Scanning, Scan
<1>2. /\ Source' = Source /\ nameless' = nameless /\ rows' = rows
      /\ seen' = seen \cup fresh /\ visible' = kept
      /\ scanned' = scanned + Len(got) /\ requests' = k + 1
      /\ offset' = offset /\ limit' = limit /\ past' = past /\ Steady
      /\ IF GoesOn(got, kept, scanned', requests') THEN UNCHANGED <<phase, page>>
         ELSE phase' = "answered" /\ page' = Cut(kept)
  BY DEF Scan, upstream, Source, Steady
<1>3. /\ scanned = Pos(Source, k) /\ visible = Found(Source, k)
      /\ seen = ToSet(SubSeq(rows, 1, scanned)) \ nameless
      /\ Ran(Source, offset, limit, k) /\ (k > 0 => Going(Source, k, T))
      /\ \A i \in DOMAIN past :
           Over(Source, past[i].offset, past[i].limit, past[i].requests, past[i].page)
  BY <1>1, <1>2 DEF Alike
<1>4. /\ k \in Nat /\ rows \in Seq(Bugs) /\ Len(rows) \in Nat /\ scanned \in Nat
      /\ cap \in Nat \ {0} /\ ScanMax \in Nat /\ ScanChunk \in Nat \ {0}
      /\ IsInjective(rows) /\ offset \in Nat /\ limit \in Nat
  BY <1>1, Bounds DEF SearchTypeOK, Accounted
<1>5. scanned <= Len(rows)
  <2>1. Pos(Source, k) <= Readable(Source) /\ Readable(Source) <= Len(Source.rows)
        /\ Readable(Source) \in Nat
    BY <1>1, <1>4, PosFacts
  <2>2. Source.rows = rows BY DEF Source
  <2> QED BY <1>3, <1>4, <2>1, <2>2
<1>6. /\ got \in Seq(Bugs) /\ Pos(Source, k + 1) = scanned + Len(got)
      /\ got = SubSeq(rows, scanned + 1, Pos(Source, k + 1))
      /\ Pos(Source, k + 1) <= Len(rows) /\ scanned <= Pos(Source, k + 1)
  <2> DEFINE size == IF cap > ScanChunk THEN cap
                     ELSE Least(cap, Least(ScanChunk, ScanMax - scanned))
             left == Len(rows) - scanned
  <2>1. /\ got \in Seq(Bugs) /\ size \in Nat \ {0}
        /\ Len(got) = IF scanned >= Len(rows) THEN 0 ELSE Least(size, Len(rows) - scanned)
        /\ got = SubSeq(rows, scanned + 1, Least(scanned + size, Len(rows)))
    BY <1>1, ResponseFacts
  <2>2. Source.rows = rows /\ Source.cap = cap BY DEF Source
  <2>3. Pos(Source, k + 1) = scanned + (IF left <= 0 THEN 0 ELSE Least(size, left))
    BY <1>1, <1>3, <1>4, <2>2, PosStep
  <2> HIDE DEF size, got
  <2>4. Len(got) = (IF left <= 0 THEN 0 ELSE Least(size, left)) BY <1>4, <2>1
  <2>5. Pos(Source, k + 1) = Least(scanned + size, Len(rows))
    BY <1>4, <1>5, <2>1, <2>3 DEF Least
  <2>6. Least(scanned + size, Len(rows)) <= Len(rows)
        /\ scanned <= Least(scanned + size, Len(rows))
    BY <1>4, <1>5, <2>1 DEF Least
  <2> QED BY <2>1, <2>3, <2>4, <2>5, <2>6
<1>7. fresh = ToSet(got) \ (nameless \cup seen) BY DEF Fresh
<1> DEFINE q == Pos(Source, k + 1)
           pre == SubSeq(rows, 1, scanned)
<1>8. q \in Nat /\ Len(got) \in Nat BY <1>4, <1>6
<1> HIDE DEF got, fresh
<1>9. /\ pre \in Seq(Bugs) /\ SubSeq(rows, 1, q) = pre \o got
      /\ ToSet(SubSeq(rows, 1, q)) = ToSet(pre) \cup ToSet(got)
      /\ ToSet(pre) \cap ToSet(got) = {}
  <2>1. pre \in Seq(Bugs) BY <1>4, <1>5, StretchFacts
  <2>2. IsInjective(SubSeq(rows, 1, q)) BY <1>4, <1>6, <1>8, StretchFacts
  <2>3. pre \o SubSeq(rows, scanned + 1, q) = SubSeq(rows, 1, q)
    <3>1. /\ 1 \in 1 .. Len(rows) + 1 /\ scanned \in 1 - 1 .. Len(rows)
          /\ q \in scanned .. Len(rows)
      BY <1>4, <1>5, <1>6, <1>8
    <3> QED BY <1>4, <3>1, ConcatAdjacentSubSeq
  <2>4. pre \o got = SubSeq(rows, 1, q) BY <1>6, <2>3
  <2> HIDE DEF pre, q
  <2>5. /\ ToSet(pre \o got) = ToSet(pre) \cup ToSet(got)
        /\ IsInjective(pre \o got) => ToSet(pre) \cap ToSet(got) = {}
    <3>1. got \in Seq(Bugs) BY <1>6
    <3> QED BY <2>1, <3>1, ConcatFacts
  <2> QED BY <2>1, <2>2, <2>4, <2>5
<1>10. a = Kept(got, open \ nameless)
  <2>1. ToSet(got) \cap (fresh \cap open) = ToSet(got) \cap (open \ nameless)
    BY <1>3, <1>7, <1>9
  <2> QED BY <1>6, <2>1, KeptSame
<1>11. kept = Found(Source, k + 1)
  <2>1. Kept(SubSeq(rows, 1, q), open \ nameless) =
          Kept(pre, open \ nameless) \o Kept(SubSeq(rows, scanned + 1, q), open \ nameless)
    <3>1. q \in Nat /\ scanned <= q /\ q <= Len(rows) BY <1>6, <1>8
    <3> HIDE DEF q, pre
    <3>2. Kept(SubSeq(rows, 1, q), open \ nameless) =
            Kept(SubSeq(rows, 1, scanned), open \ nameless)
              \o Kept(SubSeq(rows, scanned + 1, q), open \ nameless)
      BY <1>4, <3>1, KeptPrefix, SMTT(30)
    <3> QED BY <3>2 DEF pre
  <2>2. /\ Found(Source, k + 1) = Kept(SubSeq(rows, 1, q), open \ nameless)
        /\ Found(Source, k) = Kept(pre, open \ nameless)
    BY <1>3 DEF Found, Source
  <2> QED BY <1>3, <1>6, <1>10, <2>1, <2>2
<1>12. seen' = ToSet(SubSeq(rows, 1, q)) \ nameless BY <1>2, <1>3, <1>7, <1>9
<1> HIDE DEF a, kept, pre
<1>13. GoesOn(got, kept, scanned', requests') <=> Going(Source, k + 1, T)
  <2>1. (k + 1) - 1 = k BY <1>4
  <2>2. got # <<>> <=> Len(got) # 0
    <3>1. got \in Seq(Bugs) BY <1>6
    <3> QED BY <3>1
  <2>3. q = scanned + Len(got) /\ q \in Nat /\ scanned \in Nat /\ Len(got) \in Nat
        /\ Pos(Source, (k + 1) - 1) = scanned
    BY <1>3, <1>4, <1>6, <1>8, <2>1
  <2>4. got # <<>> <=> q # Pos(Source, (k + 1) - 1)
    <3> HIDE DEF q
    <3> QED BY <2>2, <2>3
  <2> QED BY <1>2, <1>6, <1>11, <2>4 DEF GoesOn, Going
<1>14. Ran(Source, offset, limit, k + 1)
  <2> SUFFICES ASSUME NEW j \in 1 .. (k + 1) - 1 PROVE Going(Source, j, T) BY DEF Ran
  <2>1. j \in 1 .. k - 1 \/ (j = k /\ k > 0) BY <1>4
  <2> QED BY <1>3, <2>1 DEF Ran
<1>15. Cut(kept) = PageOf(offset, limit, kept) BY DEF Cut, PageOf
<1>16. phase' = "answered" => Over(Source, offset, limit, k + 1, page')
  <2> SUFFICES ASSUME phase' = "answered" PROVE Over(Source, offset, limit, k + 1, page')
    OBVIOUS
  <2>1. ~GoesOn(got, kept, scanned', requests') /\ page' = Cut(kept) BY <1>1, <1>2
  <2>2. limit # 0 /\ k + 1 > 0 BY <1>1, <1>4
  <2> QED BY <1>11, <1>13, <1>14, <1>15, <2>1, <2>2 DEF Over
<1>17. phase' = "scan" => Going(Source, k + 1, T) BY <1>2, <1>13
<1>18. scanned' = Pos(Source', requests') /\ visible' = Found(Source', requests')
       /\ seen' = ToSet(SubSeq(rows', 1, scanned')) \ nameless'
  BY <1>2, <1>6, <1>11, <1>12
<1>19. Ran(Source', offset', limit', requests') BY <1>2, <1>14
<1>20. phase' = "scan" => Going(Source', requests', Target(offset', limit')) BY <1>2, <1>17
<1>21. phase' = "answered" => Over(Source', offset', limit', requests', page') BY <1>2, <1>16
<1>22. \A i \in DOMAIN past' :
         Over(Source', past'[i].offset, past'[i].limit, past'[i].requests, past'[i].page)
  BY <1>2, <1>3
<1> HIDE DEF k, T, q
<1> QED BY <1>18, <1>19, <1>20, <1>21, <1>22 DEF Alike

LEMMA AlikeStep == SearchIInv /\ Alike /\ [SearchNext]_searchVars => Alike'
<1> SUFFICES ASSUME SearchIInv, Alike, [SearchNext]_searchVars PROVE Alike' OBVIOUS
<1>1. CASE (\E i \in 1 .. Len(rows) : Reorder(i)) \/ (\E b \in ToSet(rows) : Flip(b))
  <2>1. disturbances' = disturbances + 1 BY <1>1 DEF Reorder, Flip
  <2>2. disturbances \in Nat BY Bounds DEF SearchIInv, SearchTypeOK
  <2>3. ~Steady' BY <2>1, <2>2 DEF Steady
  <2> QED BY <2>3 DEF Alike
<1>2. CASE \E off, lim \in 0 .. MaxAsk : Begin(off, lim) BY <1>2, BeginAlike
<1>3. CASE Scan BY <1>3, ScanAlike
<1>4. CASE ScanFails
  <2>1. Source' = Source /\ past' = past /\ phase' = "failed" /\ disturbances' = disturbances
    BY <1>4 DEF ScanFails, Source, upstream
  <2>2. Steady' => Steady BY <2>1 DEF Steady
  <2> QED BY <2>1, <2>2 DEF Alike
<1>5. CASE UNCHANGED searchVars
  <2>1. Source' = Source BY <1>5 DEF searchVars, Source, upstream
  <2> QED BY <1>5, <2>1 DEF Alike, Steady, searchVars, upstream, search
<1> QED BY <1>1, <1>2, <1>3, <1>4, <1>5 DEF SearchNext

LEMMA AlikeAlways == SearchSpec => [](SearchIInv /\ Alike)
<1>1. SearchInit => Alike BY DEF SearchInit, Alike
<1> QED BY <1>1, SearchInitOk, SearchStepOk, AlikeStep, PTL DEF SearchSpec
-----------------------------------------------------------------------------
(* The pages of such searches                                              *)

\* A page is a stretch of what was found, from the offset on.
LEMMA PageFacts ==
  ASSUME NEW v \in Seq(Bugs), NEW off \in Nat, NEW lim \in Nat
  PROVE  LET end == Least(NeededFor(off, lim), Len(v))
         IN  /\ end \in Nat /\ end <= Len(v) /\ end <= NeededFor(off, lim)
             /\ off < end => PageOf(off, lim, v) = SubSeq(v, off + 1, end)
                             /\ Len(PageOf(off, lim, v)) = end - off
             /\ end <= off => PageOf(off, lim, v) = <<>>
<1> DEFINE end == Least(NeededFor(off, lim), Len(v))
<1>1. end \in Nat /\ end <= Len(v) /\ end <= NeededFor(off, lim)
  <2>1. Len(v) \in Nat OBVIOUS
  <2>2. NeededFor(off, lim) \in Nat BY TargetCovers
  <2> QED BY <2>1, <2>2 DEF Least
<1>2. PageOf(off, lim, v) = SubSeq(v, Least(off, end) + 1, end) BY DEF PageOf
<1> HIDE DEF end
<1>3. ASSUME off < end
      PROVE  PageOf(off, lim, v) = SubSeq(v, off + 1, end) /\ Len(PageOf(off, lim, v)) = end - off
  <2>1. Least(off, end) = off /\ off + 1 \in Nat \ {0} /\ off + 1 <= end BY <1>1, <1>3 DEF Least
  <2>2. Len(SubSeq(v, off + 1, end)) = IF off + 1 <= end THEN end - (off + 1) + 1 ELSE 0
    BY <1>1, <2>1, StretchFacts
  <2> QED BY <1>1, <1>2, <2>1, <2>2
<1>4. ASSUME end <= off PROVE PageOf(off, lim, v) = <<>>
  <2>1. Least(off, end) = end BY <1>1, <1>4 DEF Least
  <2>2. SubSeq(v, end + 1, end) = <<>> BY <1>1, SubSeqEmpty
  <2> QED BY <1>2, <2>1, <2>2
<1> QED BY <1>1, <1>3, <1>4 DEF end

\* Two searches that look for the same number of bugs stop at the same
\* request.
LEMMA SameTargetSameStop ==
  ASSUME NEW u, NEW T, NEW j \in Nat, NEW k \in Nat,
         \A i \in 1 .. j - 1 : Going(u, i, T), \A i \in 1 .. k - 1 : Going(u, i, T),
         ~Going(u, j, T), ~Going(u, k, T), j > 0, k > 0
  PROVE  j = k
<1>1. ~(j < k)
  <2> SUFFICES ASSUME j < k PROVE FALSE OBVIOUS
  <2>1. j \in 1 .. k - 1 OBVIOUS
  <2> QED BY <2>1
<1>2. ~(k < j)
  <2> SUFFICES ASSUME k < j PROVE FALSE OBVIOUS
  <2>1. k \in 1 .. j - 1 OBVIOUS
  <2> QED BY <2>1
<1> QED BY <1>1, <1>2

LEMMA SameWorkFollows == SearchIInv /\ Alike => SameWorkInABlock
<1> SUFFICES ASSUME SearchIInv, Alike, phase = "answered", Steady, NEW i \in DOMAIN past,
                    limit > 0, past[i].limit > 0,
                    Block(offset, limit) = Block(past[i].offset, past[i].limit)
             PROVE  requests = past[i].requests
  BY DEF SameWorkInABlock
<1> DEFINE T == Target(offset, limit)
<1>1. T = Target(past[i].offset, past[i].limit) BY DEF Target, Block
<1>2. /\ requests \in Nat /\ limit \in Nat
      /\ past[i].requests \in Nat /\ past[i].limit \in Nat
  BY Bounds DEF SearchIInv, SearchTypeOK
<1>3. /\ Over(Source, offset, limit, requests, page)
      /\ Over(Source, past[i].offset, past[i].limit, past[i].requests, past[i].page)
  BY DEF Alike
<1>4. /\ requests > 0 /\ ~Going(Source, requests, T)
      /\ \A j \in 1 .. requests - 1 : Going(Source, j, T)
  BY <1>2, <1>3 DEF Over, Ran
<1>5. /\ past[i].requests > 0 /\ ~Going(Source, past[i].requests, T)
      /\ \A j \in 1 .. past[i].requests - 1 : Going(Source, j, T)
  BY <1>1, <1>2, <1>3 DEF Over, Ran
<1> HIDE DEF T
<1> QED BY <1>2, <1>4, <1>5, SameTargetSameStop

\* A search that found less than its window reaches to was stopped by the
\* list or by a bound, where any search is: none finds more.
LEMMA NoneFindsMore ==
  ASSUME NEW u, SourceOk(u), NEW j \in Nat, NEW k \in Nat, j > 0,
         NEW n \in Nat, NEW S \in Nat, NEW T \in Nat, n <= S,
         ~Going(u, j, S), \A i \in 1 .. k - 1 : Going(u, i, T),
         Len(Found(u, j)) < n
  PROVE  Len(Found(u, k)) <= Len(Found(u, j))
<1>1. Found(u, j) \in Seq(Bugs) /\ Found(u, k) \in Seq(Bugs) BY FoundFacts
<1>2. k <= j
  <2> SUFFICES ASSUME j < k PROVE FALSE OBVIOUS
  <2>1. j \in 1 .. k - 1 OBVIOUS
  <2>2. Going(u, j, T) BY <2>1
  <2>3. Len(Found(u, j)) < S
    <3>1. Len(Found(u, j)) \in Nat BY <1>1
    <3> QED BY <3>1
  <2> QED BY <2>2, <2>3 DEF Going
<1>3. PICK r \in Seq(Bugs) : Found(u, j) = Found(u, k) \o r BY <1>2, FoundFacts
<1>4. Len(Found(u, j)) = Len(Found(u, k)) + Len(r) BY <1>1, <1>3, ConcatProperties
<1>5. Len(r) \in Nat /\ Len(Found(u, k)) \in Nat BY <1>1
<1> QED BY <1>4, <1>5

LEMMA ShortPageFollows == SearchIInv /\ Alike => ShortPageIsTheEnd
<1> SUFFICES ASSUME SearchIInv, Alike, phase = "answered", Steady, NEW i \in DOMAIN past,
                    Len(past[i].page) < past[i].limit,
                    offset >= past[i].offset + Len(past[i].page)
             PROVE  page = <<>>
  BY DEF ShortPageIsTheEnd
<1>1. PICK p : p = past[i] OBVIOUS
<1>2. /\ requests \in Nat /\ limit \in Nat /\ offset \in Nat
      /\ p.requests \in Nat /\ p.limit \in Nat /\ p.offset \in Nat /\ p.page \in Seq(Bugs)
  BY <1>1, Bounds DEF SearchIInv, SearchTypeOK
<1>3. /\ Over(Source, offset, limit, requests, page)
      /\ Over(Source, p.offset, p.limit, p.requests, p.page)
  BY <1>1 DEF Alike
<1>4. CASE limit = 0 BY <1>3, <1>4 DEF Over
<1>5. CASE limit # 0
  <2> DEFINE v1 == Found(Source, p.requests)
             v2 == Found(Source, requests)
             n1 == NeededFor(p.offset, p.limit)
             n2 == NeededFor(offset, limit)
             e1 == Least(n1, Len(v1))
             e2 == Least(n2, Len(v2))
  <2>1. Len(p.page) \in Nat /\ Len(p.page) < p.limit /\ offset >= p.offset + Len(p.page)
    BY <1>1, <1>2
  <2>2. /\ p.requests > 0 /\ ~Going(Source, p.requests, Target(p.offset, p.limit))
        /\ p.page = PageOf(p.offset, p.limit, v1)
    BY <1>2, <1>3, <2>1 DEF Over
  <2>3. /\ \A j \in 1 .. requests - 1 : Going(Source, j, Target(offset, limit))
        /\ page = PageOf(offset, limit, v2)
    BY <1>3, <1>5 DEF Over, Ran
  <2>4. SourceOk(Source) BY SourceIsOk
  <2>5. v1 \in Seq(Bugs) /\ v2 \in Seq(Bugs) BY <1>2, <2>4, FoundFacts
  <2>6. Len(v1) \in Nat /\ Len(v2) \in Nat BY <2>5
  <2>7. /\ n1 \in Nat /\ n2 \in Nat /\ n2 <= MaxWindow /\ n1 <= p.offset + p.limit
        /\ Target(p.offset, p.limit) \in Nat /\ n1 <= Target(p.offset, p.limit)
        /\ Target(offset, limit) \in Nat
    BY <1>2, TargetCovers
  <2>8. n1 = IF p.offset + p.limit <= MaxWindow THEN p.offset + p.limit ELSE MaxWindow
    BY DEF NeededFor, Least
  <2>9. Len(v1) < n1 => Len(v2) <= Len(v1)
    BY <1>2, <2>2, <2>3, <2>4, <2>7, NoneFindsMore
  <2>10. /\ p.offset < e1 => Len(p.page) = e1 - p.offset
         /\ e1 <= p.offset => p.page = <<>>
    <3>1. /\ v1 \in Seq(Bugs) /\ p.offset \in Nat /\ p.limit \in Nat
          /\ p.page = PageOf(p.offset, p.limit, v1)
      BY <1>2, <2>2, <2>5
    <3> HIDE DEF v1
    <3>2. /\ e1 \in Nat /\ e1 <= Len(v1) /\ e1 <= n1
          /\ p.offset < e1 => PageOf(p.offset, p.limit, v1) = SubSeq(v1, p.offset + 1, e1)
                              /\ Len(PageOf(p.offset, p.limit, v1)) = e1 - p.offset
          /\ e1 <= p.offset => PageOf(p.offset, p.limit, v1) = <<>>
      BY <3>1, PageFacts
    <3> QED BY <3>1, <3>2
  <2>11. e2 <= offset => page = <<>> BY <1>2, <2>3, <2>5, PageFacts
  <2> HIDE DEF v1, v2, n1, n2
  <2>12. /\ e1 = (IF n1 <= Len(v1) THEN n1 ELSE Len(v1)) /\ e1 \in Nat
         /\ e2 = (IF n2 <= Len(v2) THEN n2 ELSE Len(v2)) /\ e2 \in Nat
    BY <2>6, <2>7 DEF Least
  <2> HIDE DEF e1, e2
  <2>13. offset >= e1 /\ (p.offset < e1 => e1 - p.offset < p.limit)
    BY <1>2, <2>1, <2>10, <2>12
  <2>14. e2 <= offset
    <3>1. CASE Len(v1) < n1
      <4>1. e1 = Len(v1) BY <2>6, <2>7, <2>12, <3>1
      <4> QED BY <1>2, <2>6, <2>7, <2>9, <2>12, <2>13, <3>1, <4>1
    <3>2. CASE n1 <= Len(v1)
      <4>1. e1 = n1 BY <2>12, <3>2
      <4>2. MaxWindow \in Nat BY Bounds
      <4>3. n1 = MaxWindow BY <1>2, <2>1, <2>7, <2>8, <2>13, <4>1, <4>2
      <4> QED BY <1>2, <2>6, <2>7, <2>12, <2>13, <4>1, <4>2, <4>3
    <3> QED BY <2>6, <2>7, <3>1, <3>2
  <2> QED BY <2>11, <2>14
<1> QED BY <1>4, <1>5

\* A scan that ends with too little has read the whole list, if it may.
LEMMA AllRead ==
  ASSUME NEW u, SourceOk(u), NEW k \in Nat, k > 0, NEW T \in Nat,
         \A j \in 1 .. k - 1 : Going(u, j, T), ~Going(u, k, T), Len(Found(u, k)) < T,
         Len(u.rows) <= Least(ScanMax, u.cap * ScanRequests)
  PROVE  Pos(u, k) = Len(u.rows)
<1> DEFINE L == Len(u.rows)
           c == u.cap
<1>1. /\ L \in Nat /\ c \in Nat \ {0} /\ ScanMax \in Nat \ {0} /\ ScanRequests \in Nat \ {0}
      /\ ScanChunk \in Nat \ {0}
  BY Bounds DEF SourceOk
<1>2. /\ Pos(u, k) \in Nat /\ Pos(u, k - 1) \in Nat /\ Pos(u, 0) = 0
      /\ Pos(u, k) <= Readable(u) /\ Readable(u) <= L
      /\ Pos(u, k - 1) <= Readable(u) /\ Readable(u) \in Nat
  <2>1. k - 1 \in Nat OBVIOUS
  <2> QED BY <2>1, PosFacts
<1>3. L <= ScanMax /\ L <= c * ScanRequests
  <2>1. c * ScanRequests \in Nat BY <1>1, MoreRows
  <2> QED BY <1>1, <2>1 DEF Least
<1>4. Readable(u) = L BY <1>1, <1>3 DEF Readable, Least
<1>5. CASE Pos(u, k) = Pos(u, k - 1)
  <2>1. Pos(u, k - 1) < ScanMax
    <3>1. CASE k = 1 BY <1>1, <1>2, <3>1
    <3>2. CASE k # 1
      <4>1. k - 1 \in 1 .. k - 1 BY <3>2
      <4> QED BY <4>1 DEF Going
    <3> QED BY <3>1, <3>2
  <2> DEFINE m == k - 1
             size == IF u.cap > ScanChunk THEN u.cap
                     ELSE Least(u.cap, Least(ScanChunk, ScanMax - Pos(u, m)))
             left == Len(u.rows) - Pos(u, m)
  <2>2. m \in Nat /\ m + 1 = k /\ Pos(u, m) < ScanMax BY <2>1
  <2>3. size \in Nat \ {0} /\ left \in Int BY <1>1, <1>2, <2>1, SMTT(30) DEF Least
  <2> HIDE DEF m
  <2>4. Pos(u, m + 1) = Pos(u, m) + (IF left <= 0 THEN 0 ELSE Least(size, left))
    BY <2>2, PosStep
  <2>5. Pos(u, m) = Pos(u, m + 1) /\ Pos(u, m) \in Nat BY <1>2, <1>5, <2>2 DEF m
  <2>6. left <= 0
    <3> HIDE DEF size, left
    <3> QED BY <2>3, <2>4, <2>5 DEF Least
  <2> QED BY <1>1, <1>2, <1>4, <2>2, <2>5, <2>6, SMTT(30)
<1>6. CASE ~(Pos(u, k) < ScanMax) BY <1>1, <1>2, <1>3, <1>6
<1>7. CASE ~(k < ScanRequests)
  <2>1. ScanRequests * c <= k * c /\ k * c \in Nat BY <1>1, <1>7, MoreRows
  <2>2. ScanRequests * c = c * ScanRequests BY <1>1
  <2>3. L <= k * c BY <1>1, <1>3, <2>1, <2>2
  <2>4. Pos(u, k) = Least(k * c, L) BY <1>4 DEF Pos
  <2> QED BY <1>1, <2>1, <2>3, <2>4 DEF Least
<1> QED BY <1>5, <1>6, <1>7 DEF Going
LEMMA PageIsWindowFollows == SearchIInv /\ Alike => PageIsWindow
<1> SUFFICES ASSUME SearchIInv, Alike, phase = "answered", Steady
             PROVE  /\ IsPrefix(page, Promised)
                    /\ Len(rows) <= Reach => page = Promised
  BY DEF PageIsWindow
<1> DEFINE v == Found(Source, requests)
           n == NeededFor(offset, limit)
           e == Least(n, Len(v))
           f == Least(n, Len(Shown))
<1>1. /\ requests \in Nat /\ limit \in Nat /\ offset \in Nat /\ SourceOk(Source)
      /\ Over(Source, offset, limit, requests, page)
  BY Bounds, SourceIsOk DEF SearchIInv, SearchTypeOK, Alike
<1>2. /\ n \in Nat /\ n <= offset + limit /\ Target(offset, limit) \in Nat
      /\ n <= Target(offset, limit)
  BY <1>1, TargetCovers
<1>3. Shown = Kept(Source.rows, Source.open) /\ Source.rows = rows /\ Source.cap = cap
  BY DEF Shown, Source
<1>4. Promised = SubSeq(Shown, offset + 1, f) BY DEF Promised
<1>5. v \in Seq(Bugs) /\ \E r \in Seq(Bugs) : Shown = v \o r
  <2>1. requests <= requests BY <1>1
  <2>2. v \in Seq(Bugs) BY <1>1, <2>1, FoundFacts
  <2>3. \E r \in Seq(Bugs) : Kept(Source.rows, Source.open) = v \o r
    BY <1>1, <2>1, FoundFacts
  <2> QED BY <1>3, <2>2, <2>3
<1>6. PICK r \in Seq(Bugs) : Shown = v \o r BY <1>5
<1>7. Shown \in Seq(Bugs) /\ Len(Shown) = Len(v) + Len(r)
  <2> HIDE DEF v
  <2> QED BY <1>5, <1>6, ConcatProperties
<1>8. Len(v) \in Nat /\ Len(r) \in Nat /\ Len(Shown) \in Nat /\ Len(v) <= Len(Shown)
  BY <1>5, <1>7
<1>9. page = <<>> => IsPrefix(page, Promised)
  <2>1. Len(<<>>) = 0 /\ SubSeq(<<>>, 1, 0) = <<>> /\ SubSeq(Promised, 1, 0) = <<>>
    BY SubSeqEmpty
  <2>2. Len(Promised) \in Nat
    <3>1. f \in Nat /\ f <= Len(Shown) BY <1>2, <1>8 DEF Least
    <3> HIDE DEF f
    <3>2. Promised \in Seq(Bugs) BY <1>1, <1>4, <1>7, <3>1, StretchFacts
    <3> QED BY <3>2
  <2> QED BY <2>1, <2>2 DEF IsPrefix
<1>10. CASE limit = 0
  <2>1. page = <<>> BY <1>1, <1>10 DEF Over
  <2>2. f \in Nat /\ f < offset + 1 BY <1>1, <1>2, <1>8, <1>10 DEF Least
  <2>3. Promised = <<>>
    <3> HIDE DEF f
    <3> QED BY <1>1, <1>4, <2>2, SubSeqEmpty
  <2> QED BY <1>9, <2>1, <2>3
<1>11. CASE limit # 0
  <2>1. /\ requests > 0 /\ ~Going(Source, requests, Target(offset, limit))
        /\ \A j \in 1 .. requests - 1 : Going(Source, j, Target(offset, limit))
        /\ page = PageOf(offset, limit, v)
    BY <1>1, <1>11 DEF Over, Ran
  <2>2. /\ e \in Nat /\ e <= Len(v)
        /\ offset < e => page = SubSeq(v, offset + 1, e) /\ Len(page) = e - offset
        /\ e <= offset => page = <<>>
    <3>1. page = PageOf(offset, limit, v) BY <2>1
    <3>2. v \in Seq(Bugs) BY <1>5
    <3> HIDE DEF v
    <3> QED BY <1>1, <3>1, <3>2, PageFacts
  <2>3. Len(rows) <= Reach => e = f
    <3> SUFFICES ASSUME Len(rows) <= Reach PROVE e = f OBVIOUS
    <3>1. CASE Len(v) < Target(offset, limit)
      <4>1. Len(Source.rows) <= Least(ScanMax, Source.cap * ScanRequests) BY <1>3 DEF Reach
      <4>2. Pos(Source, requests) = Len(Source.rows) BY <1>1, <1>2, <2>1, <3>1, <4>1, AllRead
      <4>3. v = Shown BY <1>1, <1>3, <4>2, FoundFacts
      <4> QED BY <4>3
    <3>2. CASE ~(Len(v) < Target(offset, limit))
      <4>1. n <= Len(v) /\ n <= Len(Shown) BY <1>2, <1>8, <3>2
      <4> QED BY <4>1 DEF Least
    <3> QED BY <3>1, <3>2
  <2>4. f \in Nat /\ e <= f /\ f <= Len(Shown) BY <1>2, <1>8 DEF Least
  <2>5. CASE e <= offset
    <3>1. page = <<>> BY <2>2, <2>5
    <3>2. e = f => Promised = <<>>
      <4> SUFFICES ASSUME e = f PROVE Promised = <<>> OBVIOUS
      <4>1. f \in Int /\ f < offset + 1 /\ offset + 1 \in Int BY <1>1, <2>2, <2>4, <2>5
      <4> HIDE DEF f
      <4> QED BY <1>4, <4>1, SubSeqEmpty
    <3> QED BY <1>9, <2>3, <3>1, <3>2
  <2>6. CASE offset < e
    <3> HIDE DEF v, e, f
    <3>1. page = SubSeq(v, offset + 1, e) /\ Len(page) = e - offset BY <2>2, <2>6
    <3>2. page = SubSeq(Shown, offset + 1, e)
      <4>1. offset + 1 \in Nat \ {0} BY <1>1
      <4>2. SubSeq(v \o r, offset + 1, e) = SubSeq(v, offset + 1, e)
        BY <1>5, <2>2, <4>1, StretchOfConcat
      <4> QED BY <1>6, <3>1, <4>2
    <3>3. e = f => page = Promised BY <1>4, <3>2
    <3>4. IsPrefix(page, Promised)
      <4> DEFINE d == e - offset
      <4>1. d \in Nat \ {0} /\ d <= f - offset BY <1>1, <2>2, <2>4, <2>6
      <4>2. SubSeq(Promised, 1, d) = SubSeq(Shown, offset + 1, e)
        <5>1. /\ offset + 1 \in 1 .. Len(Shown) /\ f \in 1 .. Len(Shown)
              /\ 1 \in 1 .. f - (offset + 1) + 1 /\ d \in 1 .. f - (offset + 1) + 1
          BY <1>1, <1>8, <2>2, <2>4, <2>6, <4>1
        <5>2. SubSeq(SubSeq(Shown, offset + 1, f), 1, d) =
                SubSeq(Shown, (offset + 1) + 1 - 1, (offset + 1) + d - 1)
          <6> DEFINE o == offset + 1
          <6>1. /\ o \in 1 .. Len(Shown) /\ f \in 1 .. Len(Shown)
                /\ 1 \in 1 .. f - o + 1 /\ d \in 1 .. f - o + 1 /\ Shown \in Seq(Bugs)
            BY <1>7, <5>1
          <6> HIDE DEF d, o
          <6>2. SubSeq(SubSeq(Shown, o, f), 1, d) = SubSeq(Shown, o + 1 - 1, o + d - 1)
            BY <6>1, SubSeqOfSubSeq
          <6> QED BY <6>2 DEF o
        <5>3. (offset + 1) + 1 - 1 = offset + 1 /\ (offset + 1) + d - 1 = e BY <1>1, <2>2
        <5> QED BY <1>4, <5>2, <5>3
      <4>3. Len(Promised) = f - offset
        <5>1. offset + 1 \in Nat \ {0} /\ offset + 1 <= f BY <1>1, <2>2, <2>4, <2>6
        <5>2. Len(SubSeq(Shown, offset + 1, f)) =
                IF offset + 1 <= f THEN f - (offset + 1) + 1 ELSE 0
          BY <1>7, <2>4, <5>1, StretchFacts
        <5> QED BY <1>1, <1>4, <2>4, <5>1, <5>2
      <4>4. SubSeq(page, 1, Len(page)) = page
        <5>1. page \in Seq(Bugs) BY DEF SearchIInv, SearchTypeOK
        <5> QED BY <5>1, SubSeqFull
      <4>5. Len(page) = d BY <3>1
      <4> HIDE DEF d
      <4> QED BY <3>2, <4>1, <4>2, <4>3, <4>4, <4>5 DEF IsPrefix
    <3> QED BY <2>3, <3>3, <3>4 DEF e, f
  <2>7. e <= offset \/ offset < e BY <1>1, <2>2
  <2> QED BY <2>5, <2>6, <2>7
<1> QED BY <1>10, <1>11

\* Over a list that keeps still, a page is the client's window on the bugs it
\* may see (or, of a longer list than a scan may reach, the beginning of that
\* window), and a page that came back short is the last that is not empty:
\* whatever is hidden, and whatever the upstream serves a request with
\* (Guard::quicksearch_window: "pagination is applied AFTER the guard").
THEOREM PagesCorrect == SearchSpec => []PagesAgree
<1>1. SearchIInv /\ Alike => PagesAgree BY PageIsWindowFollows, ShortPageFollows DEF PagesAgree
<1> QED BY <1>1, AlikeAlways, PTL

\* Two searches of such a list whose windows end in the same block of a chunk
\* send the same number of requests, whatever is hidden ("every limit inside a
\* block asks for the same work").
THEOREM WorkCorrect == SearchSpec => []SameWorkInABlock
BY SameWorkFollows, AlikeAlways, PTL
=============================================================================
