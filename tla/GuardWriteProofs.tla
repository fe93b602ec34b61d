--------------------------- MODULE GuardWriteProofs ---------------------------
(***************************************************************************)
(* What a write tool sends, files, refuses with, answers and costs, proved *)
(* for every policy, every content of Bugzilla, every request and every    *)
(* interference; and that no write is held back without a cause.           *)
(*                                                                         *)
(* The argument: once the call decides, the request, the kinds it looked   *)
(* up, the caller and the objects it judged no longer change, so that what *)
(* the decision required still holds of what is sent and of what is said   *)
(* about it; and what is granted on a partial reading is granted knowing   *)
(* everything (KnowingLessGrantsLess).                                     *)
(***************************************************************************)
EXTENDS GuardWrite, GuardPolicyProofs, FiniteSetTheorems

USE WriteBounds, WritePolicies, WriteWorlds

Object == [record : Worlds \ {Gone}, blind : Blinds]

\* A lookup's answer is the field's kind, or that it is unknown.
KindsOK ==
  /\ DOMAIN kinds \subseteq DOMAIN req.custom
  /\ \A f \in DOMAIN kinds : kinds[f] \in {schema[f], "Unknown"}

\* What the call knows of the fields once it assesses anything.
KindsKnown ==
  phase \notin {"idle", "kinds"} /\ outcome # "refused" => DOMAIN kinds = DOMAIN req.custom

\* What a decision to write requires.
MayGo ==
  /\ ~Creating => OwnOk
  /\ TargetsOk
  /\ ~Unassessable
  /\ Creating => judged.ok

Explained == {"odd", "self", "big", "target denied", "failed"}

\* The evidence may_create judged, dated when it did, and its verdict.
Evidence(at) ==
  [text |-> [f \in Fields |-> IF f = "groups" THEN {}
                             ELSE {Trimmed[n] : n \in req.filing[f] \ {OddName}}],
   created |-> {at}, mine |-> {TRUE}]

FilingJudged ==
  judged.ok => Allows(Classify(policy, Evidence(judged.at), judged.at, "create"), "create")

WriteInv ==
  /\ KindsOK /\ KindsKnown
  /\ phase = "write" \/ Written \/ filed # {} => MayGo
  /\ phase = "write" => outcome = "none"
  /\ filed # {} => phase = "ended" /\ outcome = "written" /\ Creating
  /\ outcome \in Explained => phase = "ended" /\ ~Creating /\ OwnOk
  /\ outcome # "none" => phase = "ended"
  /\ FilingJudged
  /\ \A meta \in filed :
       /\ meta.created = {judged.at} /\ meta.mine = {TRUE}
       /\ \A f \in Fields : \E v \in Fileable(f) : meta.text[f] = {v}
  /\ named # {} => Written /\ ~Creating /\ (req.tool = "add_attachment" \/ named \subseteq Ids)

-----------------------------------------------------------------------------
(* Facts about the state                                                   *)

\* Requests have the fields of requests.
LEMMA RequestFacts ==
  ASSUME req \in Requests
  PROVE  /\ req \in Request /\ Shaped(req) /\ req.bug \in Bugs /\ req.tool \in DOMAIN Needs
         /\ req.adds \subseteq Bugs /\ req.removes \subseteq Bugs
         /\ DOMAIN req.custom \subseteq CustomFields
         /\ \A f \in DOMAIN req.custom : req.custom[f] \in CustomValue
         /\ req.filing \in [Fields -> Option(Names)]
<1>1. req \in Request /\ Shaped(req)
  BY WriteRequests
<1>2. req.custom \in UNION {[S -> CustomValue] : S \in SUBSET CustomFields}
  BY <1>1 DEF Request
<1>3. PICK S \in SUBSET CustomFields : req.custom \in [S -> CustomValue]
  BY <1>2
<1>. QED
  BY <1>1, <1>3 DEF Request

\* What the policy grants on a fetched object it grants on the record the
\* object was fetched from.
LEMMA JudgeWithinEntitled ==
  ASSUME policy \in Policies, caller \in BOOLEAN, NEW object \in Object, NEW at \in Int,
         NEW cap, Allows(Judge(object, at), cap)
  PROVE  Allows(Entitled(object.record, at), cap)
<1>1. object.record \in CompleteMeta
  BY DEF Object
<1>2. Judge(object, at) \subseteq Entitled(object.record, at)
  BY <1>1, FailsClosed DEF Judge, Entitled, Operation
<1>. QED
  BY <1>2 DEF Allows

\* A capability assessed of a bug stands on an object, and the record it came
\* from entitles the client to as much.
LEMMA AssessedIsEntitled ==
  ASSUME TypeOK, NEW b, NEW cap, Allows(Assessed(b), cap)
  PROVE  b \in DOMAIN seen /\ Allows(Entitled(seen[b].record, now), cap)
<1>1. b \in DOMAIN seen
  BY DEF Assessed, Allows
<1>2. seen[b] \in Object /\ now \in Int /\ policy \in Policies /\ caller \in BOOLEAN
  BY <1>1 DEF TypeOK, Object
<1>. QED
  BY <1>1, <1>2, JudgeWithinEntitled DEF Assessed

\* The verdicts of the handlers are the ones the state knows, and only the
\* three that need no right to write lack it.
LEMMA VerdictFacts ==
  /\ UpdateVerdict \in {"none", "denied", "target denied", "odd", "self", "big"}
  /\ UpdateVerdict \in {"none", "target denied", "odd", "self", "big"} => OwnOk
BY DEF UpdateVerdict, PlainVerdict, AttachVerdict, FieldsVerdict, LinkVerdict, DuplicateVerdict

\* A tool whose request names no other bug has no target to check, and one
\* without custom fields no value to judge.
LEMMA VerdictIsEnough ==
  ASSUME TypeOK, KindsOK, ~Creating, UpdateVerdict = "none"
  PROVE  MayGo
<1>1. OwnOk
  BY VerdictFacts
<1>2. CASE req.tool = "update_bug_fields"
  BY <1>1, <1>2 DEF UpdateVerdict, FieldsVerdict, MayGo, Creating
<1>3. CASE req.tool # "update_bug_fields"
  <2>1. DOMAIN req.custom = {}
    BY <1>3, RequestFacts DEF TypeOK, Shaped, Creating
  <2>2. LinkReadings(req, kinds) = {}
    BY <2>1 DEF LinkReadings
  <2>3. ~Unassessable
    BY <2>2 DEF Unassessable
  <2>4. CASE req.tool \in {"update_bug_dependencies", "mark_as_duplicate"}
    BY <1>1, <2>3, <2>4 DEF UpdateVerdict, LinkVerdict, DuplicateVerdict, MayGo, Creating
  <2>5. CASE req.tool \notin {"update_bug_dependencies", "mark_as_duplicate"}
    <3>1. req.adds = {} /\ req.removes = {}
      BY <1>3, <2>5, RequestFacts DEF TypeOK, Shaped
    <3>2. Ids = {req.bug}
      BY <2>2, <3>1 DEF Ids, Direct, Creating
    <3>. QED
      BY <1>1, <2>3, <3>2 DEF MayGo, TargetsOk
  <2>. QED
    BY <2>4, <2>5
<1>. QED
  BY <1>2, <1>3

-----------------------------------------------------------------------------
(* Type correctness                                                        *)

LEMMA FetchedIsObject ==
  ASSUME world \in [Bugs -> Worlds], NEW b \in Live, NEW blind \in Blinds
  PROVE  Fetched(b, blind) \in [record : Worlds \ {Gone}, blind : Blinds]
BY DEF Live, Fetched

LEMMA CountStep ==
  ASSUME TypeOK, sent' = sent + 1 PROVE sent' \in Nat
<1>1. sent \in Nat
  BY DEF TypeOK
<1>. QED
  BY <1>1

LEMMA TypeStep == TypeOK /\ [Next]_vars => TypeOK'
<1>. SUFFICES ASSUME TypeOK, [Next]_vars PROVE TypeOK'
  OBVIOUS
<1>. USE DEF Phases, Outcomes
<1>0. ASSUME UNCHANGED <<policy, schema, req, kinds>>, asked' = asked PROVE asked' \subseteq Ids'
  <2>1. Ids' = Ids
    BY <1>0 DEF Ids
  <2>. QED
    BY <1>0, <2>1 DEF TypeOK
<1>1. ASSUME NEW b \in Bugs, Edit(b) PROVE TypeOK'
  <2>1. calm' = FALSE /\ UNCHANGED <<policy, schema, clock, call>>
    BY <1>1 DEF Edit
  <2>2. world' \in [Bugs -> Worlds]
    BY <1>1 DEF Edit, TypeOK
  <2>3. edits \in 0 .. MaxEdits
    BY DEF TypeOK
  <2>4. edits' \in 0 .. MaxEdits
    BY <1>1, <2>3 DEF Edit
  <2>. QED
    BY <2>1, <2>2, <2>4, <1>0 DEF TypeOK, call
<1>2. CASE Tick
  <2>2. clock \in 0 .. MaxClock
    BY DEF TypeOK
  <2>1. clock' \in 0 .. MaxClock
    BY <1>2, <2>2 DEF Tick
  <2>. QED
    BY <1>2, <2>1, <1>0 DEF TypeOK, Tick, call
<1>3. CASE Begin
  BY <1>3, <1>0 DEF Begin, TypeOK, environment
<1>4. ASSUME NEW known \in SUBSET CustomFields, LookUp(known) PROVE TypeOK'
  <2>1. kinds' = [f \in DOMAIN req.custom |-> IF f \in known THEN schema[f] ELSE "Unknown"]
    BY <1>4 DEF LookUp
  <2>2. DOMAIN req.custom \subseteq CustomFields
    BY RequestFacts DEF TypeOK
  <2>3. \A f \in DOMAIN req.custom : kinds'[f] \in Kinds
    <3>1. schema \in [CustomFields -> {"BugId", "BugList", "Other"}]
      BY WriteSchemas DEF TypeOK
    <3>. QED
      BY <2>1, <2>2, <3>1 DEF Kinds
  <2>4. asked = {} /\ phase' \in Phases
    BY <1>4 DEF LookUp, TypeOK
  <2>7. calm' \in BOOLEAN
    BY <1>4, Zenon DEF LookUp
  <2>8. sent' \in Nat
    BY <1>4, CountStep DEF LookUp
  <2>5. UNCHANGED <<environment, req, judged, caller, now, asked, seen, outcome, filed, named>>
    BY <1>4 DEF LookUp
  <2>6. DOMAIN kinds' = DOMAIN req'.custom
    BY <2>1, <2>5
  <2>. QED
    BY <2>3, <2>4, <2>5, <2>6, <2>7, <2>8 DEF TypeOK, environment
<1>5. ASSUME NEW ok \in BOOLEAN, ResolveCaller(ok) PROVE TypeOK'
  <2>1. sent' \in Nat
    <3>1. sent' = sent \/ sent' = sent + 1
      <4>1. sent \in Nat
        BY DEF TypeOK
      <4>. QED
        BY <1>5, <4>1 DEF ResolveCaller
    <3>. QED
      BY <3>1, CountStep DEF TypeOK
  <2>2. calm' \in BOOLEAN
    BY <1>5, Zenon DEF ResolveCaller
  <2>3. /\ caller' \in BOOLEAN /\ now' = clock /\ phase' = "assess"
        /\ UNCHANGED <<environment, req, judged, kinds, asked, seen, outcome, filed, named>>
    BY <1>5 DEF ResolveCaller
  <2>. QED
    BY <2>1, <2>2, <2>3, <1>0 DEF TypeOK, environment
<1>6. ASSUME NEW b \in Bugs, AssessMissing(b) PROVE TypeOK'
  <2>1. Ids' = Ids
    BY <1>6 DEF AssessMissing, Ids, Direct, LinkReadings
  <2>2. asked' \subseteq Ids /\ asked \subseteq asked'
    BY <1>6 DEF AssessMissing, TypeOK
  <2>3. sent' \in Nat
    BY <1>6, CountStep DEF AssessMissing
  <2>4. calm' \in BOOLEAN
    BY <1>6, Zenon DEF AssessMissing
  <2>5. /\ phase = "assess"
        /\ UNCHANGED <<environment, phase, req, judged, kinds, caller, now, seen, outcome,
                       filed, named>>
    BY <1>6 DEF AssessMissing
  <2>. QED
    BY <2>1, <2>2, <2>3, <2>4, <2>5 DEF TypeOK, environment
<1>7. ASSUME NEW b \in Bugs, NEW blind \in Blinds, AssessOne(b, blind) PROVE TypeOK'
  <2>1. Ids' = Ids
    BY <1>7 DEF AssessOne, Ids, Direct, LinkReadings
  <2>2. Fetched(b, blind) \in [record : Worlds \ {Gone}, blind : Blinds]
    BY <1>7, FetchedIsObject DEF AssessOne, TypeOK
  <2>3. /\ DOMAIN seen' \subseteq asked'
        /\ \A x \in DOMAIN seen' : seen'[x] \in [record : Worlds \ {Gone}, blind : Blinds]
    BY <1>7, <2>2 DEF AssessOne, TypeOK
  <2>4. asked' \subseteq Ids
    BY <1>7 DEF AssessOne, TypeOK
  <2>5. sent' \in Nat
    BY <1>7, CountStep DEF AssessOne
  <2>6. calm' \in BOOLEAN
    BY <1>7, Zenon DEF AssessOne
  <2>7. /\ phase = "assess"
        /\ UNCHANGED <<environment, phase, req, judged, kinds, caller, now, outcome, filed,
                       named>>
    BY <1>7 DEF AssessOne
  <2>. QED
    BY <2>1, <2>3, <2>4, <2>5, <2>6, <2>7 DEF TypeOK, environment
<1>8. CASE AssessDone
  BY <1>8, <1>0 DEF AssessDone, TypeOK, environment
<1>9. CASE DecideUpdate
  <2>1. UpdateVerdict \in Outcomes
    BY VerdictFacts
  <2>. QED
    BY <1>9, <1>0, <2>1 DEF DecideUpdate, TypeOK, environment
<1>10. CASE DecideCreate
  BY <1>10, <1>0 DEF DecideCreate, TypeOK, environment
<1>11. CASE Pad
  <2>1. sent' \in Nat
    BY <1>11, CountStep DEF Pad
  <2>2. /\ outcome' \in Outcomes /\ phase' = "ended" /\ calm' \in {calm, FALSE}
        /\ UNCHANGED <<environment, req, judged, kinds, caller, now, asked, seen, filed, named>>
    BY <1>11 DEF Pad
  <2>. QED
    BY <2>1, <2>2, <1>0 DEF TypeOK, environment
<1>12. CASE WriteFails
  <2>1. sent' \in Nat
    BY <1>12, CountStep DEF WriteFails
  <2>2. /\ outcome' \in Outcomes /\ phase' = "ended" /\ calm' \in {calm, FALSE}
        /\ UNCHANGED <<environment, req, judged, kinds, caller, now, asked, seen, filed, named>>
    BY <1>12 DEF WriteFails
  <2>. QED
    BY <2>1, <2>2, <1>0 DEF TypeOK, environment
<1>13. ASSUME NEW text \in [Fields -> Values], Create(text) PROVE TypeOK'
  <2>1. [f \in Fields |-> {text[f]}] \in [Fields -> {{v} : v \in Values}]
    OBVIOUS
  <2>2. judged.at \in Instants
    BY WriteInstants DEF TypeOK
  <2>3. filed' \subseteq CompleteMeta
    BY <1>13, <2>1, <2>2 DEF Create, CompleteMeta
  <2>4. sent' \in Nat
    BY <1>13, CountStep DEF Create
  <2>5. /\ outcome' = "written" /\ phase' = "ended"
        /\ UNCHANGED <<environment, req, judged, kinds, caller, now, asked, seen, named, calm>>
    BY <1>13 DEF Create
  <2>. QED
    BY <2>3, <2>4, <2>5, <1>0 DEF TypeOK, environment
<1>14. ASSUME NEW entry \in Bugs, NEW f, NEW ids \in SUBSET Bugs, Update(entry, f, ids)
       PROVE TypeOK'
  <2>1. named' \subseteq Bugs
    BY <1>14 DEF Update, Kept
  <2>2. sent' \in Nat
    BY <1>14, CountStep DEF Update
  <2>3. /\ outcome' = "written" /\ phase' = "ended"
        /\ UNCHANGED <<environment, req, judged, kinds, caller, now, asked, seen, filed, calm>>
    BY <1>14 DEF Update
  <2>. QED
    BY <2>1, <2>2, <2>3, <1>0 DEF TypeOK, environment
<1>15. CASE UNCHANGED vars
  BY <1>15, <1>0, ZenonT(30) DEF vars, TypeOK
<1>. QED
  BY <1>1, <1>2, <1>3, <1>4, <1>5, <1>6, <1>7, <1>8, <1>9, <1>10, <1>11, <1>12, <1>13, <1>14,
     <1>15 DEF Next

\* Every variable of a write holds what its comment says, at every step.
THEOREM TypeCorrect == Spec => []TypeOK
<1>1. ASSUME Init PROVE TypeOK
  <2>1. 0 \in 0 .. MaxClock /\ 0 \in 0 .. MaxEdits /\ 0 \in Nat /\ DOMAIN Empty = {}
    BY DEF Empty
  <2>. QED
    BY <1>1, <2>1 DEF Init, TypeOK, Phases, Outcomes
<1>. QED
  BY <1>1, TypeStep, PTL DEF Spec

-----------------------------------------------------------------------------
(* The decision, and what comes after it                                   *)

\* Steps that leave alone what the decision was about leave it standing.
LEMMA Frame ==
  ASSUME UNCHANGED <<policy, schema, req, judged, kinds, caller, now, seen>>
  PROVE  /\ Ids' = Ids /\ Creating' = Creating /\ Unassessable' = Unassessable
         /\ OwnOk' = OwnOk /\ TargetsOk' = TargetsOk /\ MayGo' = MayGo
         /\ KindsOK' = KindsOK /\ FilingJudged' = FilingJudged
<1>1. Ids' = Ids /\ Creating' = Creating /\ Unassessable' = Unassessable
  BY DEF Ids, Creating, Unassessable
<1>2. \A b : Assessed(b)' = Assessed(b)
  BY DEF Assessed, Judge
<1>3. OwnOk' = OwnOk /\ TargetsOk' = TargetsOk
  BY <1>1, <1>2 DEF OwnOk, TargetsOk
<1>4. MayGo' = MayGo
  BY <1>1, <1>3 DEF MayGo
<1>5. KindsOK' = KindsOK
  BY DEF KindsOK
<1>6. FilingJudged' = FilingJudged
  BY DEF FilingJudged, Evidence
<1>. QED
  BY <1>1, <1>3, <1>4, <1>5, <1>6

\* Before a decision nothing is sent, filed, explained or named.
Quiet ==
  /\ phase \in {"idle", "kinds", "caller", "assess", "decide", "pad"}
  /\ outcome = "none" /\ filed = {} /\ named = {}

LEMMA QuietBefore ==
  ASSUME WriteInv, phase \notin {"write", "ended"}, TypeOK
  PROVE  Quiet
BY DEF WriteInv, Written, TypeOK, Phases, Quiet

LEMMA QuietSuffices ==
  ASSUME KindsOK', KindsKnown', FilingJudged', Quiet'
  PROVE  WriteInv'
BY DEF WriteInv, Quiet, Written, Explained

LEMMA WriteStep == TypeOK /\ WriteInv /\ [Next]_vars => WriteInv'
<1>. SUFFICES ASSUME TypeOK, WriteInv, [Next]_vars PROVE WriteInv'
  OBVIOUS
<1>0. KindsOK /\ KindsKnown /\ FilingJudged
  BY DEF WriteInv
<1>1. CASE UNCHANGED <<policy, schema, call>>
  <2>1. UNCHANGED <<policy, schema, phase, req, judged, kinds, caller, now, asked, seen,
                    outcome, filed, named>>
    BY <1>1 DEF call
  <2>2. \A f \in Fields : Fileable(f)' = Fileable(f)
    BY <2>1 DEF Fileable
  <2>3. KindsKnown' /\ Written' = Written
    BY <1>0, <2>1 DEF KindsKnown, Written
  <2>4. \A meta \in filed' :
          /\ meta.created = {judged'.at} /\ meta.mine = {TRUE}
          /\ \A f \in Fields : \E v \in Fileable(f)' : meta.text[f] = {v}
    <3>1. \A meta \in filed :
            /\ meta.created = {judged.at} /\ meta.mine = {TRUE}
            /\ \A f \in Fields : \E v \in Fileable(f) : meta.text[f] = {v}
      BY DEF WriteInv
    <3>2. filed' = filed /\ judged' = judged
      BY <2>1
    <3>3. SUFFICES ASSUME NEW meta \in filed'
                   PROVE  /\ meta.created = {judged'.at} /\ meta.mine = {TRUE}
                          /\ \A f \in Fields : \E v \in Fileable(f)' : meta.text[f] = {v}
      OBVIOUS
    <3>4. /\ meta.created = {judged'.at} /\ meta.mine = {TRUE}
          /\ \A f \in Fields : \E v \in Fileable(f) : meta.text[f] = {v}
      BY <3>1, <3>2, <3>3
    <3>5. ASSUME NEW f \in Fields PROVE \E v \in Fileable(f)' : meta.text[f] = {v}
      BY <2>2, <3>4
    <3>. QED
      BY <3>4, <3>5
  <2>5. named' # {} =>
          Written' /\ ~Creating' /\ (req'.tool = "add_attachment" \/ named' \subseteq Ids')
    BY <2>1, <2>3, Frame DEF WriteInv
  <2>6. phase' = "write" \/ Written' \/ filed' # {} => MayGo'
    BY <2>1, <2>3, Frame DEF WriteInv
  <2>7. /\ phase' = "write" => outcome' = "none"
        /\ filed' # {} => phase' = "ended" /\ outcome' = "written" /\ Creating'
        /\ outcome' \in Explained => phase' = "ended" /\ ~Creating' /\ OwnOk'
        /\ outcome' # "none" => phase' = "ended"
    <3>1. Creating' = Creating /\ OwnOk' = OwnOk
      BY <2>1, Frame
    <3>2. phase' = phase /\ outcome' = outcome /\ filed' = filed
      BY <2>1
    <3>3. outcome \in Explained => phase = "ended" /\ ~Creating /\ OwnOk
      BY DEF WriteInv
    <3>4. outcome' \in Explained => phase' = "ended" /\ ~Creating' /\ OwnOk'
      BY <3>1, <3>2, <3>3
    <3>. QED
      BY <3>1, <3>2, <3>4 DEF WriteInv
  <2>. QED
    BY <1>0, <2>1, <2>3, <2>4, <2>5, <2>6, <2>7, Frame DEF WriteInv, Explained
<1>2. CASE Begin
  <2>1. /\ phase = "idle" /\ judged' = [ok |-> Creating /\ MayCreate(req), at |-> clock]
        /\ UNCHANGED <<environment, req, kinds, caller, now, asked, seen, sent, filed, named>>
    BY <1>2 DEF Begin
  <2>2. Quiet
    BY <2>1, QuietBefore
  <2>3. KindsOK'
    BY <1>0, <2>1 DEF KindsOK, environment
  <2>4. FilingJudged'
    <3>1. Prospective(req) = Evidence(clock)
      BY DEF Prospective, Evidence
    <3>2. ASSUME judged'.ok
          PROVE  Allows(Classify(policy, Evidence(clock), clock, "create"), "create")
      BY <2>1, <3>1, <3>2 DEF MayCreate
    <3>3. Evidence(judged.at)' = Evidence(clock) /\ judged'.at = clock
      BY <2>1 DEF Evidence, environment
    <3>. QED
      BY <2>1, <3>2, <3>3 DEF FilingJudged, environment
  <2>5. CASE RefusedOutright(req)
    <3>1. phase' = "ended" /\ outcome' = "refused"
      BY <1>2, <2>5 DEF Begin
    <3>. QED
      BY <2>1, <2>2, <2>3, <2>4, <3>1 DEF WriteInv, Quiet, KindsKnown, Written, Explained
  <2>6. CASE ~RefusedOutright(req)
    <3>1. /\ outcome' = "none" /\ phase' \in {"kinds", "decide", "caller"}
          /\ phase' \in {"decide", "caller"} => DOMAIN req.custom = {}
      BY <1>2, <2>6 DEF Begin
    <3>2. Quiet'
      BY <2>1, <2>2, <3>1 DEF Quiet
    <3>3. KindsKnown'
      BY <2>1, <2>3, <3>1 DEF KindsKnown, KindsOK
    <3>. QED
      BY <2>3, <2>4, <3>2, <3>3, QuietSuffices
  <2>. QED
    BY <2>5, <2>6
<1>3. ASSUME NEW known \in SUBSET CustomFields, LookUp(known) PROVE WriteInv'
  <2>1. /\ phase = "kinds" /\ phase' \in {"decide", "caller"}
        /\ kinds' = [f \in DOMAIN req.custom |-> IF f \in known THEN schema[f] ELSE "Unknown"]
        /\ UNCHANGED <<environment, req, judged, caller, now, asked, seen, outcome, filed, named>>
    BY <1>3 DEF LookUp
  <2>2. Quiet
    BY <2>1, QuietBefore
  <2>3. Quiet'
    BY <2>1, <2>2 DEF Quiet
  <2>4. KindsOK' /\ KindsKnown'
    BY <2>1 DEF KindsOK, KindsKnown, environment
  <2>5. FilingJudged'
    BY <1>0, <2>1 DEF FilingJudged, Evidence, environment
  <2>. QED
    BY <2>3, <2>4, <2>5, QuietSuffices
<1>4. CASE \/ \E ok \in BOOLEAN : ResolveCaller(ok)
           \/ \E b \in Bugs : AssessMissing(b)
           \/ \E b \in Bugs, blind \in Blinds : AssessOne(b, blind)
           \/ AssessDone
  <2>1. /\ phase \in {"caller", "assess"} /\ phase' \in {"assess", "decide"}
        /\ UNCHANGED <<policy, schema, req, judged, kinds, outcome, filed, named>>
    BY <1>4 DEF ResolveCaller, AssessMissing, AssessOne, AssessDone, environment
  <2>2. Quiet
    BY <2>1, QuietBefore
  <2>3. Quiet'
    BY <2>1, <2>2 DEF Quiet
  <2>4. KindsOK' /\ KindsKnown'
    BY <1>0, <2>1 DEF KindsOK, KindsKnown
  <2>5. FilingJudged'
    BY <1>0, <2>1 DEF FilingJudged, Evidence
  <2>. QED
    BY <2>3, <2>4, <2>5, QuietSuffices
<1>5. CASE DecideUpdate
  <2>1. /\ phase = "decide" /\ ~Creating /\ outcome' = UpdateVerdict
        /\ phase' = IF UpdateVerdict = "none" THEN "write" ELSE "ended"
        /\ UNCHANGED <<policy, schema, req, judged, kinds, caller, now, asked, seen, filed, named>>
    BY <1>5 DEF DecideUpdate, environment
  <2>2. Quiet
    BY <2>1, QuietBefore
  <2>3. outcome' = "none" => MayGo
    BY <2>1, <1>0, VerdictIsEnough
  <2>4. outcome' \in Explained => OwnOk
    BY <2>1, VerdictFacts DEF Explained
  <2>5. outcome' \notin {"written", "failed", "refused"}
    BY <2>1, VerdictFacts
  <2>6. KindsKnown'
    BY <1>0, <2>1, <2>2 DEF KindsKnown, Quiet
  <2>. QED
    BY <1>0, <2>1, <2>2, <2>3, <2>4, <2>5, <2>6, Frame DEF WriteInv, Quiet, Written
<1>6. CASE DecideCreate
  <2>1. /\ phase = "decide" /\ Creating
        /\ phase' = IF Unassessable \/ ~TargetsOk \/ ~judged.ok THEN "pad" ELSE "write"
        /\ UNCHANGED <<policy, schema, req, judged, kinds, caller, now, asked, seen, outcome,
                       filed, named>>
    BY <1>6 DEF DecideCreate, environment
  <2>2. Quiet
    BY <2>1, QuietBefore
  <2>3. phase' = "write" => MayGo
    BY <2>1 DEF MayGo
  <2>4. KindsKnown'
    BY <1>0, <2>1, <2>2 DEF KindsKnown, Quiet
  <2>. QED
    BY <1>0, <2>1, <2>2, <2>3, <2>4, Frame DEF WriteInv, Quiet, Written, Explained
<1>7. CASE Pad
  <2>1. /\ phase = "pad" /\ phase' = "ended" /\ outcome' = "denied"
        /\ UNCHANGED <<policy, schema, req, judged, kinds, caller, now, asked, seen, filed, named>>
    BY <1>7 DEF Pad, environment
  <2>2. Quiet
    BY <2>1, QuietBefore
  <2>3. KindsKnown'
    BY <1>0, <2>1, <2>2 DEF KindsKnown, Quiet
  <2>. QED
    BY <1>0, <2>1, <2>2, <2>3, Frame DEF WriteInv, Quiet, Written, Explained
<1>8. CASE WriteFails
  <2>1. /\ phase = "write" /\ phase' = "ended"
        /\ outcome' = IF Creating THEN "denied" ELSE "failed"
        /\ UNCHANGED <<policy, schema, req, judged, kinds, caller, now, asked, seen, filed, named>>
    BY <1>8 DEF WriteFails, environment
  <2>2. MayGo /\ outcome = "none" /\ filed = {} /\ named = {}
    BY <2>1 DEF WriteInv, Written
  <2>3. KindsKnown'
    BY <1>0, <2>1, <2>2 DEF KindsKnown
  <2>4. ~Creating => OwnOk
    BY <2>2 DEF MayGo
  <2>. QED
    BY <1>0, <2>1, <2>2, <2>3, <2>4, Frame DEF WriteInv, Written, Explained
<1>9. ASSUME NEW text \in [Fields -> Values], Create(text) PROVE WriteInv'
  <2>1. /\ phase = "write" /\ Creating /\ phase' = "ended" /\ outcome' = "written"
        /\ \A f \in Fields : text[f] \in Fileable(f)
        /\ filed' = {[text |-> [f \in Fields |-> {text[f]}], created |-> {judged.at},
                      mine |-> {TRUE}]}
        /\ UNCHANGED <<policy, schema, req, judged, kinds, caller, now, asked, seen, named>>
    BY <1>9 DEF Create, environment
  <2>2. MayGo /\ outcome = "none" /\ named = {}
    BY <2>1 DEF WriteInv, Written
  <2>3. KindsKnown'
    BY <1>0, <2>1, <2>2 DEF KindsKnown
  <2>4. \A meta \in filed' :
          /\ meta.created = {judged.at} /\ meta.mine = {TRUE}
          /\ \A f \in Fields : \E v \in Fileable(f) : meta.text[f] = {v}
    <3>1. SUFFICES ASSUME NEW meta \in filed'
                   PROVE  /\ meta.created = {judged.at} /\ meta.mine = {TRUE}
                          /\ \A f \in Fields : \E v \in Fileable(f) : meta.text[f] = {v}
      OBVIOUS
    <3>2. meta = [text |-> [f \in Fields |-> {text[f]}], created |-> {judged.at},
                  mine |-> {TRUE}]
      BY <2>1
    <3>3. \A f \in Fields : meta.text[f] = {text[f]}
      BY <3>2
    <3>. QED
      BY <2>1, <3>2, <3>3
  <2>5. \A f \in Fields : Fileable(f)' = Fileable(f)
    BY <2>1 DEF Fileable
  <2>. QED
    BY <1>0, <2>1, <2>2, <2>3, <2>4, <2>5, Frame DEF WriteInv, Written, Explained
<1>10. ASSUME NEW entry \in Bugs, NEW f, NEW ids \in SUBSET Bugs,
              f \in CustomFields \cup {"links"}, Update(entry, f, ids)
       PROVE  WriteInv'
  <2>1. /\ phase = "write" /\ ~Creating /\ phase' = "ended" /\ outcome' = "written"
        /\ (f \in CustomFields /\ schema[f] = "Other") => ids = {}
        /\ named' = IF req.tool = "add_attachment" THEN {entry} \cup ids
                    ELSE IF entry \in Ids THEN {entry} \cup Kept(f, ids) ELSE {}
        /\ UNCHANGED <<policy, schema, req, judged, kinds, caller, now, asked, seen, filed>>
    BY <1>10 DEF Update, environment
  <2>2. MayGo /\ outcome = "none" /\ filed = {}
    BY <2>1 DEF WriteInv, Written
  <2>3. KindsKnown'
    BY <1>0, <2>1, <2>2 DEF KindsKnown
  <2>4. Kept(f, ids) \subseteq Ids
    <3>1. CASE f \in DOMAIN kinds /\ kinds[f] = "Other"
      <4>1. f \in CustomFields
        BY <3>1, RequestFacts DEF TypeOK
      <4>2. schema[f] = "Other"
        BY <1>0, <3>1 DEF KindsOK
      <4>. QED
        BY <2>1, <4>1, <4>2 DEF Kept
    <3>2. CASE ~(f \in DOMAIN kinds /\ kinds[f] = "Other")
      BY <3>2 DEF Kept
    <3>. QED
      BY <3>1, <3>2
  <2>5. req.tool = "add_attachment" \/ named' \subseteq Ids
    BY <2>1, <2>4
  <2>. QED
    BY <1>0, <2>1, <2>2, <2>3, <2>5, Frame DEF WriteInv, Written, Explained
<1>. QED
  BY <1>1, <1>2, <1>3, <1>4, <1>5, <1>6, <1>7, <1>8, <1>9, <1>10
     DEF Next, vars, call, environment, Edit, Tick

LEMMA WriteInvariant == Spec => []WriteInv
<1>1. ASSUME Init PROVE WriteInv
  <2>1. phase = "idle" /\ outcome = "none" /\ filed = {} /\ named = {} /\ ~judged.ok
        /\ DOMAIN kinds = {}
    BY <1>1 DEF Init, Empty
  <2>. QED
    BY <2>1 DEF WriteInv, KindsOK, KindsKnown, FilingJudged, Written, Explained
<1>. QED
  BY <1>1, WriteStep, TypeCorrect, PTL DEF Spec

-----------------------------------------------------------------------------
(* What follows                                                            *)

\* What the guard read of the custom fields names every bug Bugzilla reads
\* in them, unless it found a value it cannot judge.
LEMMA ReadingsCover ==
  ASSUME TypeOK, WriteInv, ~Unassessable, phase \notin {"idle", "kinds"}, outcome # "refused"
  PROVE  TrueReadings \subseteq LinkReadings(req, kinds)
<1>1. DOMAIN kinds = DOMAIN req.custom /\ \A f \in DOMAIN kinds : kinds[f] \in {schema[f], "Unknown"}
  BY DEF WriteInv, KindsOK, KindsKnown
<1>2. schema \in [CustomFields -> {"BugId", "BugList", "Other"}] /\ DOMAIN req.custom \subseteq CustomFields
  BY WriteSchemas, RequestFacts DEF TypeOK
<1>3. SUFFICES ASSUME NEW f \in DOMAIN req.custom
               PROVE  Readings(req.custom[f], schema[f]) \subseteq LinkReadings(req, kinds)
  BY <1>2 DEF TrueReadings, LinkReadings, TypeOK
<1>4. Readings(req.custom[f], kinds[f]) \subseteq LinkReadings(req, kinds)
  BY <1>1, <1>3 DEF LinkReadings
<1>5. CASE kinds[f] = schema[f]
  BY <1>4, <1>5
<1>6. CASE kinds[f] = "Unknown"
  <2>1. Readings(req.custom[f], "Unknown")
          = IF req.custom[f].many THEN {Odd} ELSE req.custom[f].pieces
    BY DEF Readings
  <2>2. ~req.custom[f].many
    BY <1>4, <1>6, <2>1 DEF Unassessable
  <2>3. schema[f] \in {"BugId", "BugList", "Other"}
    BY <1>2
  <2>4. Readings(req.custom[f], schema[f]) \subseteq req.custom[f].pieces
    <3>1. CASE schema[f] = "BugId"
      BY <2>2, <3>1 DEF Readings
    <3>2. CASE schema[f] = "BugList"
      BY <3>2 DEF Readings
    <3>3. CASE schema[f] = "Other"
      BY <3>3 DEF Readings
    <3>. QED
      BY <2>3, <3>1, <3>2, <3>3
  <2>. QED
    BY <1>4, <1>6, <2>1, <2>2, <2>4
<1>. QED
  BY <1>1, <1>5, <1>6

\* Every write that goes out was granted on all it touches and names (I8,
\* I11, I14).
THEOREM WriteCorrect == Spec => []WriteIsEntitled
<1>1. TypeOK /\ WriteInv => WriteIsEntitled
  <2>. SUFFICES ASSUME TypeOK, WriteInv, Written \/ filed # {}
                PROVE  /\ ~Creating => /\ req.bug \in DOMAIN seen
                                       /\ Allows(Entitled(seen[req.bug].record, now), Needs[req.tool])
                       /\ Odd \notin TrueReadings
                       /\ \A b \in (Direct(req) \ {req.bug}) \cup (TrueReadings \cap Bugs) :
                            \/ ~Creating /\ b = req.bug
                            \/ b \in DOMAIN seen /\ Allows(Entitled(seen[b].record, now), "summary")
    BY DEF WriteIsEntitled
  <2>1. MayGo /\ phase = "ended" /\ outcome \in {"written", "failed"}
    BY DEF WriteInv, Written
  <2>2. ~Creating => /\ req.bug \in DOMAIN seen
                     /\ Allows(Entitled(seen[req.bug].record, now), Needs[req.tool])
    BY <2>1, AssessedIsEntitled DEF MayGo, OwnOk
  <2>3. TrueReadings \subseteq LinkReadings(req, kinds)
    BY <2>1, ReadingsCover DEF MayGo
  <2>4. Odd \notin TrueReadings
    BY <2>1, <2>3 DEF MayGo, Unassessable
  <2>5. ASSUME NEW b \in (Direct(req) \ {req.bug}) \cup (TrueReadings \cap Bugs),
               ~(~Creating /\ b = req.bug)
        PROVE  b \in DOMAIN seen /\ Allows(Entitled(seen[b].record, now), "summary")
    <3>1. b \in Ids
      BY <2>3, <2>5 DEF Ids
    <3>2. Allows(Assessed(b), "summary")
      BY <2>1, <2>5, <3>1 DEF MayGo, TargetsOk
    <3>. QED
      BY <3>2, AssessedIsEntitled
  <2>. QED
    BY <2>2, <2>4, <2>5
<1>. QED
  BY <1>1, TypeCorrect, WriteInvariant, PTL

\* What was judged of a bug that is filed.
LEMMA FilingFacts ==
  ASSUME TypeOK, WriteInv, NEW meta \in filed
  PROVE  /\ Allows(Classify(policy, Evidence(judged.at), judged.at, "create"), "create")
         /\ meta.created = {judged.at} /\ meta.mine = {TRUE}
         /\ \A f \in Fields : \E v \in Fileable(f) : meta.text[f] = {v}
         /\ policy \in Policy /\ meta \in CompleteMeta /\ judged.at \in Int
<1>1. judged.ok
  BY DEF WriteInv, MayGo
<1>2. Allows(Classify(policy, Evidence(judged.at), judged.at, "create"), "create")
  BY <1>1 DEF WriteInv, FilingJudged
<1>3. /\ meta.created = {judged.at} /\ meta.mine = {TRUE}
      /\ \A f \in Fields : \E v \in Fileable(f) : meta.text[f] = {v}
  BY DEF WriteInv
<1>. QED
  BY <1>2, <1>3 DEF TypeOK

\* The evidence of a name that Bugzilla files as rewritten is what it files.
LEMMA RewrittenIsFiled ==
  ASSUME TypeOK, WriteInv, NEW meta \in filed, AsRewritten(meta)
  PROVE  KnowsLess(Evidence(judged.at), meta)
<1>. DEFINE r == Evidence(judged.at)
<1>1. ASSUME NEW f \in Fields PROVE r.text[f] \subseteq meta.text[f]
  <2>1. r.text[f] = IF f = "groups" THEN {} ELSE {Trimmed[n] : n \in req.filing[f] \ {OddName}}
    BY DEF Evidence
  <2>2. f # "groups" => \A n \in req.filing[f] \ {OddName} : meta.text[f] = {Trimmed[n]}
    BY DEF AsRewritten
  <2>. QED
    BY <2>1, <2>2
<1>2. r.created = meta.created /\ r.mine = meta.mine
  BY FilingFacts DEF Evidence
<1>. QED
  BY <1>1, <1>2 DEF KnowsLess

\* A rule of an allowlist that holds of the evidence holds of what is filed:
\* the names it accepts stand for themselves.
LEMMA ExactNamesStand ==
  ASSUME TypeOK, WriteInv, NEW meta \in filed, NEW m \in Matcher,
         Evaluate(m, Evidence(judged.at), judged.at) = "yes",
         \A c \in m.criteria : c.field # "priority" /\ \A v \in c.accepts : Collated[v] \subseteq {v}
  PROVE  Evaluate(m, meta, judged.at) = "yes"
<1>. DEFINE r == Evidence(judged.at)
<1>1. ~Excluded(m, r, judged.at) /\ ~Undecided(m, r)
  BY DEF Evaluate
<1>2. r.created = meta.created /\ r.mine = meta.mine /\ meta \in CompleteMeta
  BY FilingFacts DEF Evidence
<1>3. ASSUME NEW c \in m.criteria, NEW v \in meta.text[c.field] PROVE v \in c.accepts
  <2>1. c.field \in Fields /\ c.accepts \subseteq Values
    BY DEF Matcher
  <2>2. r.text[c.field] # {} /\ \A w \in r.text[c.field] : w \in c.accepts
    BY <1>1 DEF Undecided, Excluded
  <2>3. /\ c.field # "groups"
        /\ r.text[c.field] = {Trimmed[n] : n \in req.filing[c.field] \ {OddName}}
    BY <2>1, <2>2 DEF Evidence
  <2>4. req.filing[c.field] \in Option(Names)
    BY <2>1, RequestFacts DEF TypeOK
  <2>5. PICK n \in Names : req.filing[c.field] = {n} /\ n # OddName
    BY <2>2, <2>3, <2>4 DEF Option
  <2>6. Trimmed[n] \in c.accepts
    BY <2>2, <2>3, <2>5
  <2>7. Collated[Trimmed[n]] \subseteq {Trimmed[n]}
    BY <2>6
  <2>8. Fileable(c.field) = Collated[Trimmed[n]]
    <3>1. ~(c.field \in {"groups", "priority"} \/ req.filing[c.field] \in {{}, {OddName}})
      BY <2>3, <2>5
    <3>. QED
      BY <2>5, <3>1 DEF Fileable
  <2>9. PICK w \in Fileable(c.field) : meta.text[c.field] = {w}
    <3>1. \A f \in Fields : \E w \in Fileable(f) : meta.text[f] = {w}
      BY FilingFacts
    <3>. QED
      BY <2>1, <3>1
  <2>. QED
    BY <2>6, <2>7, <2>8, <2>9
<1>4. ~Excluded(m, meta, judged.at)
  BY <1>1, <1>2, <1>3 DEF Excluded
<1>5. ~Undecided(m, meta)
  BY <1>2, CompleteIsDecided
<1>. QED
  BY <1>4, <1>5 DEF Evaluate

\* Under an allowlist what is filed is granted whatever the database took the
\* names for: the rule that granted the request is still consulted, so the
\* first rule consulted is one, and every one grants.
LEMMA AllowlistHolds ==
  ASSUME TypeOK, WriteInv, NEW meta \in filed, Allowlist
  PROVE  Allows(Classify(policy, meta, judged.at, "create"), "create")
<1>. DEFINE r == Evidence(judged.at)
            at == judged.at
<1>1. /\ Allows(Classify(policy, r, at, "create"), "create")
      /\ policy \in Policy /\ meta \in CompleteMeta /\ r.created = meta.created
  BY FilingFacts DEF Evidence
<1>2. policy.rules \in Seq(Rule)
  BY <1>1 DEF Policy
<1>3. /\ ~TooYoung(policy, r, at) /\ Consulted(policy, r, at, "create") # {}
      /\ Verdict(policy, r, at, Decider(policy, r, at, "create")) # {}
      /\ "create" \in Verdict(policy, r, at, Decider(policy, r, at, "create"))
  <2>1. "create" \in Classify(policy, r, at, "create")
    BY <1>1 DEF Allows
  <2>2. DefaultVerdict(policy) = {}
    BY DEF Allowlist, DefaultVerdict
  <2>. QED
    BY <2>1, <2>2 DEF Classify
<1>4. PICK i : i = Decider(policy, r, at, "create")
  OBVIOUS
<1>5. i \in Consulted(policy, r, at, "create")
  BY <1>1, <1>3, <1>4, DeciderIsFirst
<1>6. i \in DOMAIN policy.rules /\ AppliesTo(policy.rules[i], "create") /\ policy.rules[i] \in Rule
  BY <1>2, <1>5 DEF Consulted
<1>7. Evaluate(policy.rules[i].matcher, r, at) = "yes"
  BY <1>3, <1>4, <1>5 DEF Consulted, Verdict, Evaluate
<1>8. policy.read_only = FALSE
  <2>1. Verdict(policy, r, at, i)
          \in {Grant(policy, Capability), Grant(policy, policy.rules[i].capabilities)}
    BY <1>3, <1>4 DEF Verdict
  <2>2. "create" \in WriteCaps
    BY DEF WriteCaps
  <2>. QED
    BY <1>1, <1>3, <1>4, <2>1, <2>2 DEF Grant, Policy
<1>9. i \in Consulted(policy, meta, at, "create")
  <2>1. policy.rules[i].matcher \in Matcher
    BY <1>6 DEF Rule
  <2>2. \A c \in policy.rules[i].matcher.criteria :
          c.field # "priority" /\ \A v \in c.accepts : Collated[v] \subseteq {v}
    BY <1>6 DEF Allowlist
  <2>3. Evaluate(policy.rules[i].matcher, meta, at) = "yes"
    BY <1>7, <2>1, <2>2, ExactNamesStand
  <2>. QED
    BY <1>6, <2>3 DEF Consulted
<1>10. PICK j : j = Decider(policy, meta, at, "create")
  OBVIOUS
<1>11. j \in Consulted(policy, meta, at, "create")
  BY <1>1, <1>9, <1>10, DeciderIsFirst
<1>12. /\ j \in DOMAIN policy.rules /\ AppliesTo(policy.rules[j], "create") /\ policy.rules[j] \in Rule
  BY <1>2, <1>11 DEF Consulted
<1>13. Evaluate(policy.rules[j].matcher, meta, at) # "unknown"
  <2>1. policy.rules[j].matcher \in Matcher
    BY <1>12 DEF Rule
  <2>. QED
    BY <1>1, <2>1, CompleteIsDecided DEF Evaluate
<1>14. /\ policy.rules[j].action # "deny"
       /\ policy.rules[j].action # "allow" => "create" \in policy.rules[j].capabilities
  BY <1>12 DEF Allowlist
<1>15. Verdict(policy, meta, at, j)
         = Grant(policy, IF policy.rules[j].action = "allow" THEN Capability
                                                            ELSE policy.rules[j].capabilities)
  BY <1>13, <1>14 DEF Verdict
<1>16. "create" \in Verdict(policy, meta, at, j)
  BY <1>8, <1>14, <1>15 DEF Grant, Capability, WriteCaps
<1>17. ~TooYoung(policy, meta, at)
  BY <1>1, <1>3 DEF TooYoung
<1>. QED
  BY <1>9, <1>10, <1>16, <1>17 DEF Classify, Allows

\* A bug that is filed is one the policy grants create on, knowing all of it,
\* if its names are filed as rewritten, and whatever they are filed as under an
\* allowlist of exact names.
THEOREM FiledCorrect == Spec => []FiledIsJudged
<1>1. TypeOK /\ WriteInv => FiledIsJudged
  <2>. SUFFICES ASSUME TypeOK, WriteInv, NEW meta \in filed, AsRewritten(meta) \/ Allowlist
                PROVE  Allows(Classify(policy, meta, judged.at, "create"), "create")
    BY DEF FiledIsJudged
  <2>1. CASE AsRewritten(meta)
    <3>. DEFINE r == Evidence(judged.at)
    <3>1. KnowsLess(r, meta)
      BY <2>1, RewrittenIsFiled
    <3>2. policy \in Policy /\ meta \in CompleteMeta /\ judged.at \in Int /\ "create" \in Operation
      BY FilingFacts DEF Operation
    <3>3. Classify(policy, r, judged.at, "create") \subseteq Classify(policy, meta, judged.at, "create")
      BY <3>1, <3>2, KnowingLessGrantsLess
    <3>. QED
      BY <3>3, FilingFacts DEF Allows
  <2>2. CASE Allowlist
    BY <2>2, AllowlistHolds
  <2>. QED
    BY <2>1, <2>2
<1>. QED
  BY <1>1, TypeCorrect, WriteInvariant, PTL

\* A refusal that says more than "denied" is for a caller who may write.
THEOREM RefusalCorrect == Spec => []RefusalIsForWriters
<1>1. TypeOK /\ WriteInv => RefusalIsForWriters
  BY AssessedIsEntitled DEF WriteInv, RefusalIsForWriters, Explained, OwnOk
<1>. QED
  BY <1>1, TypeCorrect, WriteInvariant, PTL

\* The answer to an update names the bugs it has assessed, and no other.
THEOREM AnswerCorrect == Spec => []AnswerNamesAssessed
<1>1. TypeOK /\ WriteInv => AnswerNamesAssessed
  <2>. SUFFICES ASSUME TypeOK, WriteInv, req.tool # "add_attachment", NEW b \in named
                PROVE  /\ b \in DOMAIN seen
                       /\ Allows(Entitled(seen[b].record, now), "summary") \/ b = req.bug
    BY DEF AnswerNamesAssessed
  <2>1. MayGo /\ ~Creating /\ b \in Ids
    BY DEF WriteInv
  <2>2. CASE b = req.bug
    BY <2>1, <2>2, AssessedIsEntitled DEF MayGo, OwnOk
  <2>3. CASE b # req.bug
    BY <2>1, <2>3, AssessedIsEntitled DEF MayGo, TargetsOk
  <2>. QED
    BY <2>2, <2>3
<1>. QED
  BY <1>1, TypeCorrect, WriteInvariant, PTL

\* What an answer to a write says, it says only to who may know it: the two
\* together.
THEOREM ForWritersCorrect == Spec => []AnswerIsForWriters
<1>1. RefusalIsForWriters /\ AnswerNamesAssessed => AnswerIsForWriters
  BY DEF AnswerIsForWriters
<1>. QED
  BY <1>1, RefusalCorrect, AnswerCorrect, PTL

-----------------------------------------------------------------------------
(* What a call costs                                                       *)

Whoami == IF NeedsIdentity(policy) THEN 1 ELSE 0

\* Each phase has cost what the requests before it cost, and the count goes by
\* the ids alone.
CostInv ==
  /\ IsFiniteSet(asked)
  /\ phase \in {"idle", "kinds", "caller"} => asked = {}
  /\ phase = "idle" => sent = 0
  /\ phase = "kinds" => sent = 0 /\ DOMAIN req.custom # {}
  /\ phase = "caller" => sent = LookupCost /\ Ids # {}
  /\ phase = "assess" => sent = LookupCost + Whoami + Cardinality(asked) /\ Ids # {}
  /\ phase \in {"decide", "pad", "write"} => sent = LookupCost + AssessCost
  /\ phase = "pad" => Creating
  /\ phase = "ended" /\ outcome # "refused" =>
       sent = LookupCost + AssessCost
              + (IF Creating \/ outcome \in {"written", "failed"} THEN 1 ELSE 0)

\* What the costs are of does not change, but for the kinds at the lookup.
LEMMA CostFrame ==
  ASSUME UNCHANGED <<policy, req, kinds>>
  PROVE  /\ Ids' = Ids /\ LookupCost' = LookupCost /\ AssessCost' = AssessCost
         /\ Whoami' = Whoami /\ Creating' = Creating
BY DEF Ids, LookupCost, AssessCost, Whoami, Creating

LEMMA CostStep == TypeOK /\ CostInv /\ [Next]_vars => CostInv'
<1>. SUFFICES ASSUME TypeOK, CostInv, [Next]_vars PROVE CostInv'
  OBVIOUS
<1>1. CASE UNCHANGED <<policy, req, kinds, phase, sent, asked, outcome>>
  BY <1>1, CostFrame DEF CostInv
<1>2. CASE Begin
  <2>1. /\ phase = "idle" /\ sent = 0 /\ asked = {} /\ IsFiniteSet(asked)
        /\ UNCHANGED <<policy, req, kinds, sent, asked>>
        /\ DOMAIN kinds \subseteq DOMAIN req.custom
    BY <1>2 DEF Begin, CostInv, TypeOK, environment
  <2>2. CASE RefusedOutright(req)
    BY <1>2, <2>1, <2>2 DEF Begin, CostInv
  <2>3. CASE ~RefusedOutright(req) /\ DOMAIN req.custom # {}
    <3>1. phase' = "kinds"
      BY <1>2, <2>3 DEF Begin
    <3>. QED
      BY <2>1, <2>3, <3>1 DEF CostInv
  <2>4. CASE ~RefusedOutright(req) /\ DOMAIN req.custom = {}
    <3>1. LookupCost' = 0 /\ Ids' = Direct(req)
      BY <2>1, <2>4 DEF LookupCost, Ids, LinkReadings
    <3>2. CASE Creating
      <4>1. Ids' = {} /\ phase' = "decide"
        BY <1>2, <2>4, <3>1, <3>2 DEF Begin, Creating, Direct
      <4>2. AssessCost' = 0
        BY <4>1 DEF AssessCost
      <4>. QED
        BY <2>1, <3>1, <4>1, <4>2 DEF CostInv
    <3>3. CASE ~Creating
      <4>1. Ids' # {} /\ phase' = "caller"
        BY <1>2, <2>4, <3>1, <3>3 DEF Begin, Creating, Direct
      <4>. QED
        BY <2>1, <3>1, <4>1 DEF CostInv
    <3>. QED
      BY <3>2, <3>3
  <2>. QED
    BY <2>2, <2>3, <2>4
<1>3. ASSUME NEW known \in SUBSET CustomFields, LookUp(known) PROVE CostInv'
  <2>1. /\ phase = "kinds" /\ sent = 0 /\ sent' = 1 /\ asked = {} /\ IsFiniteSet(asked)
        /\ DOMAIN req.custom # {} /\ UNCHANGED <<policy, req, asked>>
    BY <1>3 DEF LookUp, CostInv, environment
  <2>2. LookupCost' = 1
    BY <2>1 DEF LookupCost
  <2>3. phase' = IF Ids' = {} THEN "decide" ELSE "caller"
    BY <1>3 DEF LookUp, Ids
  <2>4. Ids' = {} => AssessCost' = 0
    BY DEF AssessCost
  <2>. QED
    BY <2>1, <2>2, <2>3, <2>4 DEF CostInv
<1>4. ASSUME NEW ok \in BOOLEAN, ResolveCaller(ok) PROVE CostInv'
  <2>1. /\ sent = LookupCost /\ Ids # {} /\ asked = {} /\ phase' = "assess"
        /\ sent' = sent + Whoami /\ UNCHANGED <<policy, req, kinds, asked>>
    BY <1>4 DEF ResolveCaller, CostInv, Whoami, environment
  <2>2. LookupCost \in Nat /\ Whoami \in Nat /\ Cardinality(asked) = 0
    BY <2>1, FS_EmptySet DEF LookupCost, Whoami
  <2>3. sent' = LookupCost + Whoami + Cardinality(asked)
    BY <2>1, <2>2
  <2>. QED
    BY <2>1, <2>3, CostFrame, FS_EmptySet DEF CostInv
<1>5. ASSUME NEW b \in Bugs,
             AssessMissing(b) \/ \E blind \in Blinds : AssessOne(b, blind)
      PROVE  CostInv'
  <2>1. /\ phase = "assess" /\ phase' = "assess" /\ b \notin asked /\ asked' = asked \cup {b}
        /\ sent' = sent + 1 /\ UNCHANGED <<policy, req, kinds>>
    BY <1>5 DEF AssessMissing, AssessOne, environment
  <2>2. /\ IsFiniteSet(asked) /\ Ids # {}
        /\ sent = LookupCost + Whoami + Cardinality(asked)
    BY <2>1 DEF CostInv
  <2>3. IsFiniteSet(asked') /\ Cardinality(asked') = Cardinality(asked) + 1
        /\ Cardinality(asked) \in Nat
    BY <2>1, <2>2, FS_AddElement, FS_CardinalityType
  <2>4. LookupCost \in Nat /\ Whoami \in Nat
    BY DEF LookupCost, Whoami
  <2>5. sent' = LookupCost + Whoami + Cardinality(asked')
    BY <2>1, <2>2, <2>3, <2>4
  <2>. QED
    BY <2>1, <2>2, <2>3, <2>5, CostFrame DEF CostInv
<1>6. CASE AssessDone
  <2>1. /\ IsFiniteSet(asked) /\ sent = LookupCost + Whoami + Cardinality(Ids) /\ Ids # {}
        /\ phase' = "decide" /\ UNCHANGED <<policy, req, kinds, sent, asked>>
    BY <1>6 DEF AssessDone, CostInv, environment
  <2>2. LookupCost \in Nat /\ Whoami \in Nat /\ Cardinality(Ids) \in Nat
    BY <1>6, <2>1, FS_CardinalityType DEF LookupCost, Whoami, AssessDone
  <2>3. AssessCost = Cardinality(Ids) + Whoami
    BY <2>1 DEF AssessCost, Whoami
  <2>4. sent = LookupCost + AssessCost
    BY <2>1, <2>2, <2>3
  <2>. QED
    BY <2>1, <2>4, CostFrame DEF CostInv
<1>7. CASE DecideUpdate
  <2>1. /\ sent = LookupCost + AssessCost /\ ~Creating /\ IsFiniteSet(asked)
        /\ phase' \in {"write", "ended"} /\ outcome' \notin {"written", "failed"}
        /\ UNCHANGED <<policy, req, kinds, sent, asked>>
    BY <1>7 DEF DecideUpdate, CostInv, environment, UpdateVerdict, PlainVerdict, AttachVerdict,
       FieldsVerdict, LinkVerdict, DuplicateVerdict
  <2>2. sent = LookupCost + AssessCost + 0
    BY <2>1 DEF TypeOK
  <2>. QED
    BY <2>1, <2>2, CostFrame DEF CostInv
<1>8. CASE DecideCreate
  <2>1. /\ sent = LookupCost + AssessCost /\ Creating /\ IsFiniteSet(asked)
        /\ phase' \in {"pad", "write"} /\ UNCHANGED <<policy, req, kinds, sent, asked>>
    BY <1>8 DEF DecideCreate, CostInv, environment
  <2>. QED
    BY <2>1, CostFrame DEF CostInv
<1>9. ASSUME \/ Pad \/ WriteFails
             \/ \E text \in [Fields -> Values] : Create(text)
             \/ \E entry \in Bugs, f \in CustomFields \cup {"links"}, ids \in SUBSET Bugs :
                  Update(entry, f, ids)
      PROVE  CostInv'
  <2>1. /\ sent = LookupCost + AssessCost /\ IsFiniteSet(asked)
        /\ phase' = "ended" /\ sent' = sent + 1 /\ UNCHANGED <<policy, req, kinds, asked>>
        /\ Creating \/ outcome' \in {"written", "failed"}
    BY <1>9 DEF Pad, WriteFails, Create, Update, CostInv, environment
  <2>. QED
    BY <2>1, CostFrame DEF CostInv
<1>. QED
  BY <1>1, <1>2, <1>3, <1>4, <1>5, <1>6, <1>7, <1>8, <1>9
     DEF Next, vars, Edit, Tick, call

\* A create costs the same requests however it ends, and a denied update those
\* its ids cost, whichever of them was denied, hidden or absent (I2), for any
\* request, policy and interference.
THEOREM CostCorrect == Spec => []CostTellsNothing
<1>1. Init => CostInv
  BY FS_EmptySet DEF Init, CostInv
<1>2. CostInv => CostTellsNothing
  BY DEF CostInv, CostTellsNothing, Written
<1>. QED
  BY <1>1, <1>2, CostStep, TypeCorrect, PTL DEF Spec

-----------------------------------------------------------------------------
(* What an undisturbed call does                                           *)

\* What the decision comes to: the write is sent.
Permitted ==
  IF Creating THEN ~Unassessable /\ TargetsOk /\ judged.ok ELSE UpdateVerdict = "none"

Decided == phase \in {"decide", "pad", "write"} \/ (phase = "ended" /\ outcome # "refused")

\* While nothing disturbs the call, no time has passed, the kinds are those
\* of Bugzilla's fields, the caller is known where the policy asks, and every
\* object assessed is all of what Bugzilla holds.
CalmInv ==
  calm =>
    /\ clock = 0 /\ now = 0
    /\ phase # "idle" => (judged.ok <=> Creating /\ MayCreate(req))
    /\ \A f \in DOMAIN kinds : kinds[f] = schema[f]
    /\ phase = "assess" \/ asked # {} => (NeedsIdentity(policy) => caller)
    /\ DOMAIN seen = asked \cap Live
    /\ \A b \in DOMAIN seen : seen[b] = Fetched(b, {})
    /\ Decided => asked = Ids
    /\ phase = "write" => Permitted
    /\ phase = "pad" => ~Permitted
    /\ phase = "ended" /\ outcome # "refused" => (outcome = "written" <=> Permitted)

\* What the verdict is of.
LEMMA PermittedFrame ==
  ASSUME UNCHANGED <<policy, req, kinds, caller, now, seen, judged>>
  PROVE  Permitted' = Permitted /\ Ids' = Ids /\ Creating' = Creating
BY DEF Permitted, Ids, Creating, Unassessable, TargetsOk, UpdateVerdict, PlainVerdict,
   AttachVerdict, FieldsVerdict, LinkVerdict, DuplicateVerdict, OwnOk, SelfLinked, Assessed, Judge

LEMMA CalmStep == TypeOK /\ CalmInv /\ [Next]_vars => CalmInv'
<1>. SUFFICES ASSUME TypeOK, CalmInv, [Next]_vars, calm' PROVE CalmInv'
  BY DEF CalmInv
<1>. DEFINE Still == UNCHANGED <<policy, schema, world, clock, req>>
            Here == /\ clock = 0 /\ now = 0
                    /\ \A f \in DOMAIN kinds : kinds[f] = schema[f]
                    /\ DOMAIN seen = asked \cap Live
                    /\ \A b \in DOMAIN seen : seen[b] = Fetched(b, {})
<1>f. ASSUME Still PROVE Creating' = Creating /\ Live' = Live
                         /\ \A b \in Live : Fetched(b, {})' = Fetched(b, {})
  BY <1>f DEF Creating, Live, Fetched
<1>1. CASE UNCHANGED vars
  BY <1>1, PermittedFrame DEF vars, CalmInv, Decided, Creating, Live, Fetched, MayCreate,
     Prospective, Ids
<1>2. CASE Begin
  <2>1. /\ calm /\ Still /\ phase = "idle" /\ asked = {} /\ Here
        /\ UNCHANGED <<kinds, caller, now, asked, seen>>
        /\ judged'.ok <=> Creating /\ MayCreate(req)
    BY <1>2 DEF Begin, TypeOK, environment, CalmInv
  <2>2. MayCreate(req)' <=> MayCreate(req)
    BY <2>1 DEF MayCreate, Prospective
  <2>3. CASE RefusedOutright(req)
    <3>1. phase' = "ended" /\ outcome' = "refused"
      BY <1>2, <2>3 DEF Begin
    <3>. QED
      BY <1>f, <2>1, <2>2, <3>1 DEF CalmInv, Decided
  <2>4. CASE ~RefusedOutright(req)
    <3>1. phase' \in {"kinds", "caller", "decide"}
          /\ (phase' = "decide" => DOMAIN req.custom = {} /\ Creating)
      BY <1>2, <2>4 DEF Begin
    <3>2. phase' = "decide" => Ids' = {}
      BY <2>1, <3>1 DEF Ids, Direct, Creating, LinkReadings
    <3>. QED
      BY <1>f, <2>1, <2>2, <3>1, <3>2 DEF CalmInv, Decided
  <2>. QED
    BY <2>3, <2>4
<1>3. ASSUME NEW known \in SUBSET CustomFields, LookUp(known) PROVE CalmInv'
  <2>1. /\ calm /\ Still /\ phase = "kinds" /\ asked = {} /\ Here
        /\ phase' \in {"decide", "caller"}
        /\ UNCHANGED <<judged, caller, now, asked, seen>>
    BY <1>3 DEF LookUp, TypeOK, environment, CalmInv
  <2>2. kinds' = [f \in DOMAIN req.custom |-> schema[f]]
    BY <1>3 DEF LookUp
  <2>3. phase' = "decide" => Ids' = {}
    BY <1>3 DEF LookUp, Ids
  <2>4. (MayCreate(req)' <=> MayCreate(req)) /\ (judged.ok <=> Creating /\ MayCreate(req))
    BY <2>1 DEF MayCreate, Prospective, CalmInv
  <2>. QED
    BY <1>f, <2>1, <2>2, <2>3, <2>4 DEF CalmInv, Decided
<1>4. ASSUME NEW ok \in BOOLEAN, ResolveCaller(ok) PROVE CalmInv'
  <2>1. /\ calm /\ Still /\ phase = "caller" /\ phase' = "assess" /\ Here
        /\ (NeedsIdentity(policy) => caller') /\ now' = clock
        /\ UNCHANGED <<kinds, judged, asked, seen>>
    BY <1>4 DEF ResolveCaller, environment, CalmInv
  <2>2. (MayCreate(req)' <=> MayCreate(req)) /\ (judged.ok <=> Creating /\ MayCreate(req))
    BY <2>1 DEF MayCreate, Prospective, CalmInv
  <2>. QED
    BY <1>f, <2>1, <2>2 DEF CalmInv, Decided
<1>5. ASSUME NEW b \in Bugs,
             AssessMissing(b) \/ \E blind \in Blinds : AssessOne(b, blind)
      PROVE  CalmInv'
  <2>1. /\ calm /\ Still /\ phase = "assess" /\ phase' = "assess" /\ Here
        /\ (NeedsIdentity(policy) => caller) /\ asked' = asked \cup {b}
        /\ UNCHANGED <<kinds, judged, caller, now>>
    BY <1>5 DEF AssessMissing, AssessOne, environment, CalmInv
  <2>2. /\ DOMAIN seen' = asked' \cap Live
        /\ \A x \in DOMAIN seen' : seen'[x] = Fetched(x, {})
    <3>1. CASE AssessMissing(b)
      BY <2>1, <3>1 DEF AssessMissing
    <3>2. CASE \E blind \in Blinds : AssessOne(b, blind)
      <4>1. /\ b \in Live
            /\ seen' = [x \in DOMAIN seen \cup {b} |-> IF x = b THEN Fetched(b, {}) ELSE seen[x]]
        BY <3>2 DEF AssessOne
      <4>. QED
        BY <2>1, <4>1
    <3>. QED
      BY <1>5, <3>1, <3>2
  <2>3. (MayCreate(req)' <=> MayCreate(req)) /\ (judged.ok <=> Creating /\ MayCreate(req))
    BY <2>1 DEF MayCreate, Prospective, CalmInv
  <2>. QED
    BY <1>f, <2>1, <2>2, <2>3 DEF CalmInv, Decided
<1>6. ASSUME \/ AssessDone \/ DecideUpdate \/ DecideCreate \/ Pad
             \/ \E text \in [Fields -> Values] : Create(text)
             \/ \E entry \in Bugs, f \in CustomFields \cup {"links"}, ids \in SUBSET Bugs :
                  Update(entry, f, ids)
      PROVE  CalmInv'
  <2>1. /\ calm /\ Still /\ Here /\ phase \notin {"idle", "kinds", "caller"}
        /\ UNCHANGED <<kinds, judged, caller, now, asked, seen>>
    BY <1>6 DEF AssessDone, DecideUpdate, DecideCreate, Pad, Create, Update, environment, CalmInv
  <2>2. Permitted' = Permitted /\ Ids' = Ids
    BY <2>1, PermittedFrame
  <2>3. (MayCreate(req)' <=> MayCreate(req)) /\ (judged.ok <=> Creating /\ MayCreate(req))
    BY <2>1 DEF MayCreate, Prospective, CalmInv
  <2>4. /\ asked = Ids /\ phase' \in {"decide", "write", "pad", "ended"}
        /\ phase' = "write" => Permitted
        /\ phase' = "pad" => ~Permitted
        /\ phase' = "ended" => outcome' # "refused" /\ (outcome' = "written" <=> Permitted)
    <3>1. CASE AssessDone
      BY <3>1 DEF AssessDone
    <3>2. CASE DecideUpdate
      BY <2>1, <3>2, VerdictFacts DEF DecideUpdate, Permitted, CalmInv, Decided
    <3>3. CASE DecideCreate
      BY <2>1, <3>3 DEF DecideCreate, Permitted, CalmInv, Decided
    <3>4. CASE Pad
      BY <2>1, <3>4 DEF Pad, CalmInv, Decided
    <3>5. CASE \E text \in [Fields -> Values] : Create(text)
      BY <2>1, <3>5 DEF Create, CalmInv, Decided
    <3>6. CASE \E entry \in Bugs, f \in CustomFields \cup {"links"}, ids \in SUBSET Bugs :
                 Update(entry, f, ids)
      BY <2>1, <3>6 DEF Update, CalmInv, Decided
    <3>. QED
      BY <1>6, <3>1, <3>2, <3>3, <3>4, <3>5, <3>6
  <2>5. phase = "assess" \/ asked # {} => (NeedsIdentity(policy) => caller)
    BY <2>1 DEF CalmInv
  <2>6. asked' # {} => (NeedsIdentity(policy)' => caller')
    BY <2>1, <2>5
  <2>. QED
    BY <1>f, <2>1, <2>2, <2>3, <2>4, <2>6 DEF CalmInv, Decided
<1>. QED
  BY <1>1, <1>2, <1>3, <1>4, <1>5, <1>6 DEF Next, Edit, Tick, WriteFails

\* The verdict on a whole object is the entitlement.
LEMMA WholeObjectIsExact ==
  ASSUME TypeOK, NeedsIdentity(policy) => caller, NEW b \in Live
  PROVE  Judge(Fetched(b, {}), now) = Entitled(world[b], now)
<1>1. b \in Bugs /\ world[b] # Gone /\ world[b] \in CompleteMeta
  BY WriteWorlds DEF Live, TypeOK
<1>2. policy \in Policy /\ caller \in BOOLEAN
  BY DEF TypeOK
<1>. QED
  BY <1>1, <1>2, FullReadingIsExact DEF Judge, Entitled, Fetched

\* The verdict of a handler on an update, in one formula for all the tools:
\* what a tool does not look at, its request does not have.
LEMMA VerdictIsExact ==
  ASSUME TypeOK, ~Creating
  PROVE  UpdateVerdict = "none" <=>
           /\ OwnOk /\ ~Unassessable /\ TargetsOk /\ ~req.big
           /\ ~(req.tool # "update_bug_fields" /\ SelfLinked)
<1>1. /\ req.tool \notin {"update_bug_fields", "update_bug_dependencies", "mark_as_duplicate"} =>
             req.adds = {} /\ req.removes = {}
      /\ req.tool # "update_bug_fields" => DOMAIN req.custom = {}
      /\ req.big \in BOOLEAN /\ (req.big => req.tool = "add_attachment")
  BY RequestFacts DEF TypeOK, Shaped, Request, Creating
<1>2. req.tool # "update_bug_fields" => LinkReadings(req, kinds) = {}
  BY <1>1 DEF LinkReadings
<1>3. req.tool # "update_bug_fields" => ~Unassessable
  BY <1>2 DEF Unassessable
<1>4. CASE req.tool \notin {"update_bug_fields", "update_bug_dependencies", "mark_as_duplicate"}
  <2>1. Ids = {req.bug}
    BY <1>1, <1>2, <1>4 DEF Ids, Direct, Creating
  <2>2. TargetsOk /\ ~SelfLinked
    BY <1>1, <1>4, <2>1 DEF TargetsOk, SelfLinked
  <2>. QED
    BY <1>1, <1>3, <1>4, <2>2 DEF UpdateVerdict, PlainVerdict, AttachVerdict
<1>5. CASE req.tool = "update_bug_fields"
  BY <1>1, <1>5 DEF UpdateVerdict, FieldsVerdict
<1>6. CASE req.tool \in {"update_bug_dependencies", "mark_as_duplicate"}
  BY <1>1, <1>3, <1>6 DEF UpdateVerdict, LinkVerdict, DuplicateVerdict
<1>. QED
  BY <1>4, <1>5, <1>6

\* The guard refuses nothing without a cause: a write nothing disturbed goes
\* out exactly when the policy entitles the caller to it and Bugzilla can
\* carry it out, for every policy, request and content of Bugzilla.
THEOREM UndisturbedCorrect == Spec => []UndisturbedWriteIsExact
<1>1. Init => CalmInv
  BY DEF Init, CalmInv, Empty, Decided
<1>2. TypeOK /\ WriteInv /\ CalmInv => UndisturbedWriteIsExact
  <2>. SUFFICES ASSUME TypeOK, WriteInv, CalmInv, phase = "ended", calm, outcome # "refused"
                PROVE  outcome = "written" <=> MayWrite
    BY DEF UndisturbedWriteIsExact
  <2>1. /\ clock = 0 /\ now = 0 /\ asked = Ids /\ (outcome = "written" <=> Permitted)
        /\ judged.ok <=> Creating /\ MayCreate(req)
    BY DEF CalmInv, Decided
  <2>2. DOMAIN kinds = DOMAIN req.custom /\ DOMAIN req.custom \subseteq CustomFields
        /\ DOMAIN schema = CustomFields /\ \A f \in DOMAIN kinds : kinds[f] = schema[f]
    BY RequestFacts, WriteSchemas DEF WriteInv, KindsKnown, CalmInv, TypeOK
  <2>3. LinkReadings(req, kinds) = TrueReadings
    <3>1. DOMAIN req.custom \cap DOMAIN kinds = DOMAIN req.custom
          /\ DOMAIN req.custom \cap DOMAIN schema = DOMAIN req.custom
      BY <2>2
    <3>. QED
      BY <2>2, <3>1 DEF LinkReadings, TrueReadings
  <2>4. Ids = Direct(req) \cup (TrueReadings \cap Bugs) /\ (Unassessable <=> Odd \in TrueReadings)
    BY <2>3 DEF Ids, Unassessable
  <2>5. ASSUME NEW b \in Ids, NEW cap
        PROVE  Allows(Assessed(b), cap) <=> b \in Live /\ Allows(Entitled(world[b], clock), cap)
    <3>1. CASE b \in Live
      <4>1. b \in DOMAIN seen /\ seen[b] = Fetched(b, {}) /\ (NeedsIdentity(policy) => caller)
        BY <2>1, <2>5, <3>1 DEF CalmInv
      <4>. QED
        BY <2>1, <3>1, <4>1, WholeObjectIsExact DEF Assessed
    <3>2. CASE b \notin Live
      BY <2>1, <3>2 DEF CalmInv, Assessed, Allows
    <3>. QED
      BY <3>1, <3>2
  <2>6. TargetsOk <=> \A b \in Ids \ (IF Creating THEN {} ELSE {req.bug}) :
                        b \in Live /\ Allows(Entitled(world[b], clock), "summary")
    BY <2>5 DEF TargetsOk
  <2>7. CASE Creating
    BY <2>1, <2>4, <2>6, <2>7 DEF Permitted, MayWrite
  <2>8. CASE ~Creating
    <3>1. req.bug \in Ids
      BY <2>8 DEF Ids, Direct, Creating
    <3>2. OwnOk <=> req.bug \in Live /\ Allows(Entitled(world[req.bug], clock), Needs[req.tool])
      BY <2>5, <3>1 DEF OwnOk
    <3>. QED
      BY <2>1, <2>4, <2>6, <2>8, <3>2, VerdictIsExact DEF Permitted, MayWrite
  <2>. QED
    BY <2>7, <2>8
<1>. QED
  BY <1>1, <1>2, CalmStep, TypeCorrect, WriteInvariant, PTL DEF Spec
=============================================================================
