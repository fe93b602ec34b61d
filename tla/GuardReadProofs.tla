---------------------------- MODULE GuardReadProofs ----------------------------
(***************************************************************************)
(* Type correctness of the bug_info call, and that what it serves and      *)
(* names the client is entitled to, for every policy, every content of     *)
(* Bugzilla and every interference; then, of the other read tools, what    *)
(* they serve a thread or a file on, what a denial costs, which bugs and   *)
(* which private items a served thread holds, which items its window       *)
(* shows and counts, that a call nothing disturbs withholds nothing it     *)
(* need not, and that what the audit record says of a read is so.          *)
(***************************************************************************)
EXTENDS GuardViews, GuardPolicyProofs, FiniteSetTheorems

USE PoliciesAssumption, WorldsAssumption, GoneAssumption, BoundsAssumption

\* What the policy grants on a fetched object, it grants on the record the
\* object was fetched from.
LEMMA JudgeWithinEntitled ==
  ASSUME policy \in Policies, caller \in BOOLEAN, NEW obj \in Object, NEW at \in Int,
         NEW cap, Allows(Judge(obj, at), cap)
  PROVE  Allows(Entitled(obj.record, at), cap)
<1>1. obj.record.meta \in CompleteMeta
  BY DEF Object
<1>2. Judge(obj, at) \subseteq Entitled(obj.record, at)
  BY <1>1, FailsClosed DEF Judge, Entitled, Operation
<1>. QED
  BY <1>2 DEF Allows

\* An object fetched of a bug that is there is an object.
LEMMA FetchedIsObject ==
  ASSUME world \in [Bugs -> Worlds], NEW b \in Live, NEW blind \in Blinds
  PROVE  Fetched(b, blind) \in Object
BY DEF Live, Fetched, Object

\* A view other than "none" has an object behind it, of the type of objects.
LEMMA SourceIsObject ==
  ASSUME TypeOK, NEW b \in ids, View(b) # "none"
  PROVE  Source(b) \in Object
<1>1. CASE b \in ReadIds
  <2>1. b \in DOMAIN body
    BY <1>1 DEF View
  <2>. QED
    BY <1>1, <2>1 DEF Source, TypeOK
<1>2. CASE b \notin ReadIds
  <2>1. b \in DOMAIN seen
    BY <1>2 DEF View, Assessed, Allows
  <2>. QED
    BY <1>2, <2>1 DEF Source, TypeOK
<1>. QED
  BY <1>1, <1>2

-----------------------------------------------------------------------------
(* Type correctness                                                        *)

LEMMA TypeStep == TypeOK /\ [Next]_vars => TypeOK'
<1>. SUFFICES ASSUME TypeOK, [Next]_vars PROVE TypeOK'
  OBVIOUS
<1>1. ASSUME NEW b \in Bugs, Edit(b) PROVE TypeOK'
  <2>1. /\ UNCHANGED <<policy, clock, phase, ids, caller, now, asked, seen, body, served,
                       target, named>>
        /\ calm' = FALSE
    BY <1>1 DEF Edit, call
  <2>2. world' \in [Bugs -> Worlds] /\ edits' \in 0 .. MaxEdits
    BY <1>1 DEF Edit, TypeOK
  <2>. QED
    BY <2>1, <2>2 DEF TypeOK, Phases
<1>2. CASE Tick
  <2>1. /\ UNCHANGED <<policy, world, edits, phase, ids, caller, now, asked, seen, body, served,
                       target, named>>
        /\ calm' = FALSE
    BY <1>2 DEF Tick, call
  <2>2. clock' \in 0 .. MaxClock
    BY <1>2 DEF Tick, TypeOK
  <2>. QED
    BY <2>1, <2>2 DEF TypeOK, Phases
<1>3. ASSUME NEW wanted \in SUBSET Bugs, Begin(wanted) PROVE TypeOK'
  <2>1. ids = {} /\ asked = {} /\ DOMAIN body = {} /\ DOMAIN served = {}
    BY <1>3 DEF Begin, TypeOK
  <2>. QED
    BY <1>3, <2>1 DEF Begin, TypeOK, Phases
<1>4. ASSUME NEW ok \in BOOLEAN, ResolveCaller(ok) PROVE TypeOK'
  BY <1>4 DEF ResolveCaller, TypeOK, Phases
<1>5. ASSUME NEW b \in Bugs, AssessMissing(b) PROVE TypeOK'
  BY <1>5 DEF AssessMissing, TypeOK, Phases
<1>6. ASSUME NEW b \in Bugs, NEW blind \in Blinds, AssessOne(b, blind) PROVE TypeOK'
  <2>1. Fetched(b, blind) \in Object
    BY <1>6, FetchedIsObject DEF AssessOne, TypeOK
  <2>. QED
    BY <1>6, <2>1 DEF AssessOne, TypeOK, Phases
<1>7. CASE AssessDone
  BY <1>7 DEF AssessDone, TypeOK, Phases
<1>8. ASSUME NEW got \in SUBSET Bugs, FetchBodies(got) PROVE TypeOK'
  <2>1. PICK blind \in [got -> Blinds] :
          /\ body' = [b \in got |-> Fetched(b, blind[b])]
          /\ calm' = (calm /\ got = ReadIds /\ \A b \in got : blind[b] = {})
    BY <1>8 DEF FetchBodies
  <2>2. \A b \in got : Fetched(b, blind[b]) \in Object
    BY <1>8, FetchedIsObject DEF FetchBodies, TypeOK
  <2>3. got \subseteq ids
    BY <1>8 DEF FetchBodies, ReadIds
  <2>4. /\ phase = "body" /\ phase' = "assemble"
        /\ UNCHANGED <<policy, world, clock, edits, ids, caller, now, asked, seen, served,
                       target, named>>
    BY <1>8 DEF FetchBodies
  <2>5. calm' \in BOOLEAN
    BY <2>1
  <2>6. DOMAIN body' \subseteq ids' /\ \A b \in DOMAIN body' : body'[b] \in Object
    BY <2>1, <2>2, <2>3, <2>4
  <2>. QED
    BY <2>4, <2>5, <2>6 DEF TypeOK, Phases
<1>9. ASSUME NEW got \in SUBSET Bugs, Disclose(got) PROVE TypeOK'
  <2>1. PICK blind \in [got -> Blinds] :
          /\ target' = [b \in got |-> Fetched(b, blind[b])]
          /\ calm' = (calm /\ got = Candidates \cap Live /\ \A b \in got : blind[b] = {})
          /\ named' = DOMAIN served \cup
                      {b \in got : Allows(Judge(Fetched(b, blind[b]), now), "summary")}
    BY <1>9 DEF Disclose
  <2>2. \A b \in got : Fetched(b, blind[b]) \in Object
    BY <1>9, FetchedIsObject DEF Disclose, TypeOK
  <2>3. /\ phase = "disclose" /\ phase' = "answered"
        /\ UNCHANGED <<policy, world, clock, edits, ids, caller, now, asked, seen, body, served>>
    BY <1>9 DEF Disclose
  <2>4. DOMAIN target' \subseteq Bugs /\ \A b \in DOMAIN target' : target'[b] \in Object
    BY <2>1, <2>2
  <2>5. calm' \in BOOLEAN /\ named' \subseteq Bugs
    BY <2>1 DEF TypeOK
  <2>. QED
    BY <2>3, <2>4, <2>5 DEF TypeOK, Phases
<1>10. CASE Assemble
  <2>1. \A b \in ids : View(b) # "none" =>
          [object |-> Source(b), view |-> View(b), at |-> IF b \in ReadIds THEN clock ELSE now]
            \in [object : Object, view : {"full", "summary"}, at : 0 .. MaxClock]
    <3>1. \A b \in ids : View(b) # "none" => Source(b) \in Object
      BY SourceIsObject
    <3>2. \A b \in ids : View(b) # "none" => View(b) \in {"full", "summary"}
      BY DEF View, Recheck
    <3>. QED
      BY <3>1, <3>2 DEF TypeOK
  <2>2. /\ phase = "assemble" /\ phase' = "disclose" /\ now' = clock
        /\ UNCHANGED <<policy, world, clock, edits, ids, caller, asked, seen, body, target,
                       named, calm>>
    BY <1>10 DEF Assemble
  <2>3. /\ DOMAIN served' \subseteq ids'
        /\ \A b \in DOMAIN served' :
             served'[b] \in [object : Object, view : {"full", "summary"}, at : 0 .. MaxClock]
    BY <1>10, <2>1 DEF Assemble
  <2>. QED
    BY <2>2, <2>3 DEF TypeOK, Phases
<1>11. CASE UNCHANGED vars
  BY <1>11 DEF vars, TypeOK, Phases
<1>. QED
  BY <1>1, <1>2, <1>3, <1>4, <1>5, <1>6, <1>7, <1>8, <1>9, <1>10, <1>11 DEF Next

\* Every variable of a call holds what its comment says, at every step.
THEOREM TypeCorrect == Spec => []TypeOK
<1>1. ASSUME Init PROVE TypeOK
  <2>1. DOMAIN Empty = {}
    BY DEF Empty
  <2>2. 0 \in 0 .. MaxClock /\ 0 \in 0 .. MaxEdits
    OBVIOUS
  <2>. QED
    BY <1>1, <2>1, <2>2 DEF Init, TypeOK, Phases
<1>. QED
  BY <1>1, TypeStep, PTL DEF Spec

-----------------------------------------------------------------------------
(* What is served                                                          *)

LEMMA ServedStep ==
  TypeOK /\ ServedIsEntitled /\ [Next]_vars => ServedIsEntitled'
<1>. SUFFICES ASSUME TypeOK, ServedIsEntitled, [Next]_vars PROVE ServedIsEntitled'
  OBVIOUS
<1>1. CASE UNCHANGED <<policy, served>>
  BY <1>1 DEF ServedIsEntitled, Entitled
<1>2. CASE Assemble
  <2>1. SUFFICES ASSUME NEW b \in DOMAIN served'
                 PROVE  Allows(Entitled(served'[b].object.record, served'[b].at),
                               IF served'[b].view = "full" THEN "read" ELSE "summary")
    BY <1>2 DEF ServedIsEntitled, Assemble, Entitled
  <2>2. /\ b \in ids /\ View(b) # "none"
        /\ served'[b] = [object |-> Source(b), view |-> View(b),
                         at |-> IF b \in ReadIds THEN clock ELSE now]
    BY <1>2 DEF Assemble
  <2>3. Source(b) \in Object /\ clock \in Int /\ now \in Int
    BY <2>2, SourceIsObject DEF TypeOK
  <2>4. policy \in Policies /\ caller \in BOOLEAN
    BY DEF TypeOK
  <2>5. CASE b \in ReadIds
    <3>1. Allows(Judge(Source(b), clock), IF View(b) = "full" THEN "read" ELSE "summary")
      BY <2>2, <2>5 DEF View, Recheck, Source
    <3>2. Allows(Entitled(Source(b).record, clock),
                 IF View(b) = "full" THEN "read" ELSE "summary")
      BY <2>3, <2>4, <3>1, JudgeWithinEntitled
    <3>. QED
      BY <2>2, <2>5, <3>2
  <2>6. CASE b \notin ReadIds
    <3>1. View(b) = "summary" /\ Allows(Judge(Source(b), now), "summary")
      BY <2>2, <2>6 DEF View, Source, Assessed, Allows
    <3>2. Allows(Entitled(Source(b).record, now), "summary")
      BY <2>3, <2>4, <3>1, JudgeWithinEntitled
    <3>. QED
      BY <2>2, <2>6, <3>1, <3>2
  <2>. QED
    BY <2>5, <2>6
<1>. QED
  BY <1>1, <1>2 DEF Next, vars, call, Edit, Tick, Begin, ResolveCaller, AssessMissing,
     AssessOne, AssessDone, FetchBodies, Disclose

\* Every body and every summary served is one the policy grants on the
\* version of the bug it was taken from (I4 and the re-check), for every
\* policy, instance and interference.
THEOREM ServedCorrect == Spec => []ServedIsEntitled
<1>1. Init => ServedIsEntitled
  BY DEF Init, ServedIsEntitled, Empty
<1>. QED
  BY <1>1, ServedStep, TypeCorrect, PTL DEF Spec

-----------------------------------------------------------------------------
(* What is named                                                           *)

LEMMA NamedStep ==
  TypeOK /\ NamedIsEntitled /\ [Next]_vars => NamedIsEntitled'
<1>. SUFFICES ASSUME TypeOK, NamedIsEntitled, [Next]_vars PROVE NamedIsEntitled'
  OBVIOUS
<1>1. CASE UNCHANGED <<policy, phase, now, served, target, named>>
  BY <1>1 DEF NamedIsEntitled, Shown, Links, Entitled
<1>2. CASE phase' # "answered"
  BY <1>2 DEF NamedIsEntitled
<1>3. ASSUME NEW got \in SUBSET Bugs, Disclose(got) PROVE NamedIsEntitled'
  <2>1. PICK blind \in [got -> Blinds] :
          /\ target' = [b \in got |-> Fetched(b, blind[b])]
          /\ named' = DOMAIN served \cup
                      {b \in got : Allows(Judge(Fetched(b, blind[b]), now), "summary")}
    BY <1>3 DEF Disclose
  <2>2. UNCHANGED <<policy, now, served>>
    BY <1>3 DEF Disclose
  <2>3. SUFFICES ASSUME NEW link \in named', link \notin DOMAIN served
                 PROVE  link \in DOMAIN target' /\
                        Allows(Entitled(target'[link].record, now), "summary")
    BY <2>2 DEF NamedIsEntitled, Shown, Entitled
  <2>4. link \in got /\ Allows(Judge(Fetched(link, blind[link]), now), "summary")
    BY <2>1, <2>3
  <2>5. Fetched(link, blind[link]) \in Object
    BY <1>3, <2>4, FetchedIsObject DEF Disclose, TypeOK
  <2>6. Allows(Entitled(Fetched(link, blind[link]).record, now), "summary")
    BY <2>4, <2>5, JudgeWithinEntitled DEF TypeOK
  <2>. QED
    BY <2>1, <2>4, <2>6
<1>. QED
  BY <1>1, <1>2, <1>3 DEF Next, vars, call, Edit, Tick, Begin, ResolveCaller, AssessMissing,
     AssessOne, AssessDone, FetchBodies, Assemble

\* Every link an answer shows names a bug served beside it or one the policy
\* grants a summary of (I2), for every policy, instance and interference.
THEOREM NamedCorrect == Spec => []NamedIsEntitled
<1>1. Init => NamedIsEntitled
  BY DEF Init, NamedIsEntitled
<1>. QED
  BY <1>1, NamedStep, TypeCorrect, PTL DEF Spec

-----------------------------------------------------------------------------
(* What an undisturbed call answers                                        *)

\* The client may learn of bug b, as Bugzilla holds it now.
Grantable(b) == b \in Live /\ Allows(Entitled(world[b], clock), "summary")

\* The requested bugs served are those grantable, each in the view it is
\* entitled to and from the record Bugzilla holds.
ServedExact ==
  /\ DOMAIN served = {b \in ids : Grantable(b)}
  /\ \A b \in DOMAIN served :
       /\ served[b].object.record = world[b]
       /\ (served[b].view = "full") <=> Allows(Entitled(world[b], clock), "read")

\* While nothing disturbs the call, no time has passed, the caller is known
\* where the policy asks, every object fetched so far is all of what
\* Bugzilla holds, and none is missing.
CalmInv ==
  calm =>
    /\ clock = 0 /\ now = 0
    /\ phase \notin {"idle", "caller", "refused"} => (NeedsIdentity(policy) => caller)
    /\ DOMAIN seen = asked \cap Live
    /\ \A b \in DOMAIN seen : seen[b] = Fetched(b, {})
    /\ phase \in {"body", "assemble", "disclose", "answered"} => asked = ids
    /\ phase \in {"idle", "caller", "assess", "body", "refused"} => DOMAIN body = {}
    /\ phase = "assemble" => DOMAIN body = ReadIds
    /\ \A b \in DOMAIN body : b \in Live /\ body[b] = Fetched(b, {})
    /\ phase \in {"disclose", "answered"} => ServedExact
    /\ phase = "answered" => named = DOMAIN served \cup {b \in Candidates : Grantable(b)}

\* The verdict on a whole object is the entitlement.
LEMMA WholeObjectIsExact ==
  ASSUME TypeOK, NeedsIdentity(policy) => caller, NEW b \in Live, NEW at
  PROVE  Judge(Fetched(b, {}), at) = Entitled(world[b], at)
<1>1. b \in Bugs /\ world[b] # Gone /\ world[b].meta \in CompleteMeta
  BY DEF Live, TypeOK
<1>2. policy \in Policy /\ caller \in BOOLEAN
  BY DEF TypeOK
<1>. QED
  BY <1>1, <1>2, FullReadingIsExact DEF Judge, Entitled, Fetched

LEMMA CalmAssemble ==
  ASSUME TypeOK, CalmInv, calm, Assemble
  PROVE  ServedExact'
<1>1. /\ phase = "assemble" /\ clock = 0 /\ now = 0 /\ asked = ids
      /\ NeedsIdentity(policy) => caller
      /\ DOMAIN seen = ids \cap Live /\ DOMAIN body = ReadIds
      /\ \A b \in DOMAIN seen : seen[b] = Fetched(b, {})
      /\ \A b \in DOMAIN body : b \in Live /\ body[b] = Fetched(b, {})
  BY DEF CalmInv, Assemble
<1>2. \A b \in Live : Judge(Fetched(b, {}), 0) = Entitled(world[b], 0)
  BY <1>1, WholeObjectIsExact
<1>3. \A b \in ids : Assessed(b) = IF b \in Live THEN Entitled(world[b], 0) ELSE {}
  BY <1>1, <1>2 DEF Assessed
<1>4. \A b \in ids : b \in ReadIds <=> b \in Live /\ Allows(Entitled(world[b], 0), "read")
  BY <1>3 DEF ReadIds, Allows
<1>5. ASSUME NEW b \in ids
      PROVE  View(b) = IF b \notin Live THEN "none"
                       ELSE IF Allows(Entitled(world[b], 0), "read") THEN "full"
                       ELSE IF Allows(Entitled(world[b], 0), "summary") THEN "summary"
                       ELSE "none"
  <2>1. CASE b \in ReadIds
    <3>1. Recheck(b) = "full"
      BY <1>1, <1>2, <1>4, <2>1 DEF Recheck
    <3>. QED
      BY <1>1, <1>4, <2>1, <3>1 DEF View
  <2>2. CASE b \notin ReadIds
    <3>1. ~Allows({}, "summary")
      BY DEF Allows
    <3>. QED
      BY <1>3, <1>4, <2>2, <3>1 DEF View
  <2>. QED
    BY <2>1, <2>2
<1>6. \A caps : Allows(caps, "read") => Allows(caps, "summary")
  BY DEF Allows
<1>7. \A b \in ids : View(b) # "none" <=> Grantable(b)
  BY <1>1, <1>5, <1>6 DEF Grantable
<1>8. \A b \in ids : View(b) # "none" => Source(b).record = world[b]
  <2>1. \A b \in ids : View(b) # "none" => b \in Live
    BY <1>5
  <2>. QED
    BY <1>1, <2>1 DEF Source, Fetched
<1>9. /\ DOMAIN served' = {b \in ids : View(b) # "none"}
      /\ \A b \in DOMAIN served' : /\ served'[b].object = Source(b)
                                  /\ served'[b].view = View(b)
      /\ UNCHANGED <<policy, world, clock, ids>>
  BY DEF Assemble
<1>10. \A b \in ids : View(b) # "none" =>
         ((View(b) = "full") <=> Allows(Entitled(world[b], 0), "read"))
  BY <1>5
<1>. QED
  BY <1>1, <1>7, <1>8, <1>9, <1>10 DEF ServedExact, Grantable, Live, Entitled

LEMMA CalmStep == TypeOK /\ CalmInv /\ [Next]_vars => CalmInv'
<1>. SUFFICES ASSUME TypeOK, CalmInv, [Next]_vars, calm' PROVE CalmInv'
  BY DEF CalmInv
<1>1. CASE UNCHANGED vars
  BY <1>1 DEF vars, CalmInv, ServedExact, Grantable, Live, Entitled, Fetched, ReadIds,
     Assessed, Judge, Candidates, Links
<1>2. ASSUME NEW wanted \in SUBSET Bugs, Begin(wanted) PROVE CalmInv'
  <2>1. ids = {} /\ asked = {} /\ phase' \in {"refused", "caller"}
    BY <1>2 DEF Begin, TypeOK
  <2>. QED
    BY <1>2, <2>1 DEF Begin, CalmInv, Live, Fetched
<1>3. ASSUME NEW ok \in BOOLEAN, ResolveCaller(ok) PROVE CalmInv'
  <2>1. /\ calm /\ phase' = "assess" /\ now' = clock /\ phase = "caller"
        /\ (NeedsIdentity(policy) => caller')
        /\ UNCHANGED <<policy, world, clock, ids, asked, seen, body>>
    BY <1>3 DEF ResolveCaller
  <2>. QED
    BY <2>1 DEF CalmInv, Live, Fetched
<1>4. ASSUME NEW b \in Bugs, AssessMissing(b) PROVE CalmInv'
  <2>1. /\ calm /\ b \notin Live /\ phase = "assess" /\ asked' = asked \cup {b}
        /\ UNCHANGED <<policy, world, clock, phase, ids, caller, now, seen, body>>
    BY <1>4 DEF AssessMissing
  <2>. QED
    BY <2>1 DEF CalmInv, Live, Fetched
<1>5. ASSUME NEW b \in Bugs, NEW blind \in Blinds, AssessOne(b, blind) PROVE CalmInv'
  <2>1. /\ calm /\ blind = {} /\ b \in Live /\ phase = "assess" /\ asked' = asked \cup {b}
        /\ DOMAIN seen' = DOMAIN seen \cup {b}
        /\ \A x \in DOMAIN seen' : seen'[x] = IF x = b THEN Fetched(b, {}) ELSE seen[x]
        /\ UNCHANGED <<policy, world, clock, phase, ids, caller, now, body>>
    BY <1>5 DEF AssessOne
  <2>. QED
    BY <2>1, ZenonT(30) DEF CalmInv, Live, Fetched
<1>6. CASE AssessDone
  <2>1. /\ calm /\ phase = "assess" /\ asked = ids
        /\ phase' = IF ReadIds = {} THEN "assemble" ELSE "body"
        /\ UNCHANGED <<policy, world, clock, ids, caller, now, asked, seen, body>>
    BY <1>6 DEF AssessDone
  <2>2. ReadIds' = ReadIds
    BY <2>1 DEF ReadIds, Assessed, Judge
  <2>. QED
    BY <2>1, <2>2 DEF CalmInv, Live, Fetched
<1>7. ASSUME NEW got \in SUBSET Bugs, FetchBodies(got) PROVE CalmInv'
  <2>1. /\ phase = "body" /\ phase' = "assemble" /\ got \subseteq Live
        /\ UNCHANGED <<policy, world, clock, ids, caller, now, asked, seen>>
    BY <1>7 DEF FetchBodies
  <2>2. /\ calm /\ got = ReadIds /\ DOMAIN body' = got
        /\ \A b \in got : body'[b] = Fetched(b, {})
    BY <1>7 DEF FetchBodies
  <2>3. ReadIds' = ReadIds
    BY <2>1 DEF ReadIds, Assessed, Judge
  <2>. QED
    BY <2>1, <2>2, <2>3 DEF CalmInv, Live, Fetched
<1>8. CASE Assemble
  <2>1. /\ calm /\ phase = "assemble" /\ phase' = "disclose" /\ now' = clock
        /\ UNCHANGED <<policy, world, clock, ids, caller, asked, seen, body>>
    BY <1>8 DEF Assemble
  <2>2. ServedExact'
    BY <1>8, <2>1, CalmAssemble
  <2>. QED
    BY <2>1, <2>2 DEF CalmInv, Live, Fetched
<1>9. ASSUME NEW got \in SUBSET Bugs, Disclose(got) PROVE CalmInv'
  <2>1. /\ phase = "disclose" /\ phase' = "answered"
        /\ UNCHANGED <<policy, world, clock, ids, caller, now, asked, seen, body, served>>
    BY <1>9 DEF Disclose
  <2>2. /\ calm /\ got = Candidates \cap Live
        /\ named' = DOMAIN served \cup
                    {b \in got : Allows(Judge(Fetched(b, {}), now), "summary")}
    BY <1>9 DEF Disclose
  <2>3. \A b \in Live : Judge(Fetched(b, {}), now) = Entitled(world[b], clock)
    BY <2>1, <2>2, WholeObjectIsExact DEF CalmInv
  <2>4. named' = DOMAIN served \cup {b \in Candidates : Grantable(b)}
    BY <2>2, <2>3 DEF Grantable
  <2>5. Candidates' = Candidates /\ \A b \in Candidates : Grantable(b)' <=> Grantable(b)
    BY <2>1 DEF Candidates, Links, Grantable, Live, Entitled
  <2>6. ServedExact'
    BY <2>1, <2>2 DEF CalmInv, ServedExact, Grantable, Live, Entitled
  <2>. QED
    BY <2>1, <2>2, <2>4, <2>5, <2>6 DEF CalmInv, Live, Fetched
<1>. QED
  BY <1>1, <1>2, <1>3, <1>4, <1>5, <1>6, <1>7, <1>8, <1>9 DEF Next, Edit, Tick

\* Fail closed, and only so: an answer nothing disturbed serves every bug
\* the policy grants, in the view it grants, with every link it grants, for
\* every policy and instance.
THEOREM UndisturbedCorrect == Spec => []UndisturbedCallIsExact
<1>1. Init => CalmInv
  BY DEF Init, CalmInv, Empty, Live
<1>2. TypeOK /\ CalmInv => UndisturbedCallIsExact
  <2>. SUFFICES ASSUME TypeOK, CalmInv, phase = "answered", calm
                PROVE  /\ DOMAIN served = {b \in ids \cap Live :
                                              Allows(Entitled(world[b], clock), "summary")}
                       /\ \A b \in DOMAIN served :
                            /\ (served[b].view = "full")
                                 <=> Allows(Entitled(world[b], clock), "read")
                            /\ Shown(b) = {link \in Links(served[b]) \cap Live :
                                             Allows(Entitled(world[link], clock), "summary")}
    BY DEF UndisturbedCallIsExact
  <2>1. ServedExact /\ named = DOMAIN served \cup {b \in Candidates : Grantable(b)}
    BY DEF CalmInv
  <2>2. ASSUME NEW b \in DOMAIN served
        PROVE  Shown(b) = {link \in Links(served[b]) : Grantable(link)}
    <3>1. Links(served[b]) \subseteq Candidates \cup DOMAIN served
      BY DEF Candidates
    <3>2. \A link \in DOMAIN served : Grantable(link)
      BY <2>1 DEF ServedExact
    <3>. QED
      BY <2>1, <3>1, <3>2 DEF Shown
  <2>. QED
    BY <2>1, <2>2 DEF ServedExact, Grantable
<1>. QED
  BY <1>1, <1>2, CalmStep, TypeCorrect, PTL DEF Spec

-----------------------------------------------------------------------------
(* The other read tools                                                    *)

\* The steps of bug_info are those of GuardRead, and no other step of a read
\* tool touches what it keeps.
LEMMA ViewLeavesRead ==
  ASSUME TypeOK, ViewNext
  PROVE  /\ UNCHANGED <<policy, global, readVars>>
         /\ world' \in [Bugs -> Worlds] /\ clock' \in 0 .. MaxClock /\ now' \in 0 .. MaxClock
         /\ edits' \in 0 .. MaxEdits /\ caller' \in BOOLEAN /\ calm' \in BOOLEAN
<1>1. ASSUME NEW b \in Bugs, ViewEdit(b)
      PROVE  /\ UNCHANGED <<policy, global, readVars, clock, now, caller>> /\ calm' = FALSE
             /\ world' \in [Bugs -> Worlds] /\ edits' \in 0 .. MaxEdits
  BY <1>1 DEF ViewEdit, viewVars, TypeOK
<1>2. ASSUME ViewTick
      PROVE  /\ UNCHANGED <<policy, global, readVars, world, edits, now, caller>> /\ calm' = FALSE
             /\ clock' \in 0 .. MaxClock
  <2>1. clock \in 0 .. MaxClock /\ clock' = clock + 1 /\ clock < MaxClock
    BY <1>2 DEF ViewTick, TypeOK
  <2>. QED
    BY <1>2, <2>1 DEF ViewTick, viewVars
<1>3. ASSUME NEW ok \in BOOLEAN, ViewCaller(ok)
      PROVE  /\ UNCHANGED <<policy, global, readVars, world, clock, edits>>
             /\ caller' \in BOOLEAN /\ calm' \in BOOLEAN /\ now' = clock
  BY <1>3 DEF ViewCaller, TypeOK
<1>4. ASSUME NEW r \in ViewRequests, ViewBegin(r)
      PROVE  UNCHANGED <<policy, global, readVars, world, clock, edits, caller, now, calm>>
  BY <1>4 DEF ViewBegin
<1>5. ASSUME NEW found \in Option(Files), FetchMeta(found)
      PROVE  UNCHANGED <<policy, global, readVars, world, clock, edits, caller, now, calm>>
  BY <1>5 DEF FetchMeta
<1>6. ASSUME NEW found \in Option(Files), FetchData(found)
      PROVE  /\ UNCHANGED <<policy, global, readVars, world, clock, edits, caller, now>>
             /\ calm' \in BOOLEAN
  BY <1>6 DEF FetchData
<1>7. ASSUME NEW got \in SUBSET Bugs, ViewAssess(got)
      PROVE  /\ UNCHANGED <<policy, global, readVars, world, clock, edits, caller, now>>
             /\ calm' \in BOOLEAN
  BY <1>7 DEF ViewAssess
<1>8. ASSUME NEW got \in SUBSET Bugs, DiscloseThread(got)
      PROVE  /\ UNCHANGED <<policy, global, readVars, world, clock, edits, caller, now>>
             /\ calm' \in BOOLEAN
  BY <1>8 DEF DiscloseThread
<1>9. CASE Decide
  BY <1>9 DEF Decide, TypeOK
<1>10. ASSUME NEW arrived, FetchThread(arrived)
       PROVE  UNCHANGED <<policy, global, readVars, world, clock, edits, caller, now, calm>>
  BY <1>10 DEF FetchThread
<1>11. CASE FetchFails
  BY <1>11 DEF FetchFails, TypeOK
<1>12. ASSUME NEW learnt, LearnKinds(learnt)
       PROVE  /\ UNCHANGED <<policy, global, readVars, world, clock, edits, caller, now>>
              /\ calm' \in BOOLEAN
  BY <1>12 DEF LearnKinds
<1>. QED
  BY <1>1, <1>2, <1>3, <1>4, <1>5, <1>6, <1>7, <1>8, <1>9, <1>10, <1>11, <1>12
     DEF ViewNext, TypeOK

LEMMA ToolTypeStep == TypeOK /\ [ToolNext]_<<vars, viewVars>> => TypeOK'
<1>1. ASSUME TypeOK, ViewNext PROVE TypeOK'
  BY <1>1, ViewLeavesRead DEF readVars, TypeOK
<1>2. ASSUME TypeOK, BugInfo PROVE TypeOK'
  BY <1>2, TypeStep DEF BugInfo
<1>3. ASSUME TypeOK, UNCHANGED vars PROVE TypeOK'
  BY <1>3, TypeStep
<1>. QED
  BY <1>1, <1>2, <1>3 DEF ToolNext

\* The requests of a call up to the assessment.
First == IF req.tool = "download_attachment" THEN 1 ELSE 0
Whoami == IF NeedsIdentity(policy) THEN 1 ELSE 0

\* A call makes the same requests up to its verdict whatever they find, goes
\* on only on a bug that was granted, and has no file before its end.
CourseInv ==
  /\ object \subseteq Object /\ global \in Globals
  /\ stage # "done" => outcome = "none" /\ blob = {}
  /\ stage \in {"idle", "meta"} => sent = 0
  /\ stage = "meta" => req.tool = "download_attachment"
  /\ stage = "caller" => sent = First
  /\ stage = "assess" => sent = First + Whoami
  /\ stage = "decide" => sent = First + Whoami + 1
  /\ stage \in {"data", "fetch", "kinds", "disclose"} => Granted
  /\ stage = "done" => Granted \/ (outcome = "denied" /\ sent = First + Whoami + 1)
  /\ outcome = "served" => \A f \in blob : f.owner = bug
  /\ FileIsAllowed

\* What CourseInv speaks of.
course == <<object, global, stage, outcome, blob, sent, req, bug, policy, caller, now>>

LEMMA CourseStays == CourseInv /\ UNCHANGED course => CourseInv'
BY DEF CourseInv, course, First, Whoami, Granted, Judge, FileIsAllowed, PrivateAllowed

\* What arrives is served only as its own metadata allows.
LEMMA DataIsChecked ==
  ASSUME global \in Globals, NEW f \in Files, DataVerdict(f) = "served"
  PROVE  /\ f.owner = bug
         /\ f.private = {FALSE} \/ PrivateAllowed
         /\ global.max_attachment_bytes > 0 => f.real <= global.max_attachment_bytes
<1>1. f.owner = bug /\ Gate(f) = "none"
  <2>1. Gate(f) # "served"
    BY DEF Gate
  <2>. QED
    BY <2>1 DEF DataVerdict
<1>2. f.private = {FALSE} \/ PrivateAllowed
  BY <1>1 DEF Gate
<1>3. ~(global.max_attachment_bytes > 0 /\ f.real > global.max_attachment_bytes)
  BY <1>1 DEF DataVerdict
<1>4. global.max_attachment_bytes \in Nat /\ f.real \in Nat
  BY GlobalsAssumption, FilesAssumption, LengthsAssumption DEF File
<1>5. ASSUME NEW cap \in Nat, NEW size \in Nat, ~(cap > 0 /\ size > cap)
      PROVE  cap > 0 => size <= cap
  BY <1>5
<1>. QED
  BY <1>1, <1>2, <1>3, <1>4, <1>5

LEMMA CourseStep == TypeOK /\ CourseInv /\ [ToolNext]_<<vars, viewVars>> => CourseInv'
<1>. SUFFICES ASSUME TypeOK, CourseInv, [ToolNext]_<<vars, viewVars>> PROVE CourseInv'
  OBVIOUS
<1>1. ASSUME NEW b \in Bugs, ViewEdit(b) PROVE CourseInv'
  BY <1>1, CourseStays DEF ViewEdit, viewVars, course
<1>2. CASE ViewTick
  BY <1>2, CourseStays DEF ViewTick, viewVars, course
<1>3. ASSUME NEW r \in ViewRequests, ViewBegin(r) PROVE CourseInv'
  BY <1>3 DEF ViewBegin, CourseInv, First, FileIsAllowed
<1>4. ASSUME NEW found \in Option(Files), FetchMeta(found) PROVE CourseInv'
  BY <1>4 DEF FetchMeta, CourseInv, First, FileIsAllowed
<1>5. ASSUME NEW ok \in BOOLEAN, ViewCaller(ok) PROVE CourseInv'
  BY <1>5 DEF ViewCaller, CourseInv, First, Whoami, FileIsAllowed
<1>6. ASSUME NEW got \in SUBSET Bugs, ViewAssess(got) PROVE CourseInv'
  <2>1. object' \subseteq Object
    BY <1>6, FetchedIsObject DEF ViewAssess, TypeOK
  <2>. QED
    BY <1>6, <2>1 DEF ViewAssess, CourseInv, First, Whoami, FileIsAllowed
<1>7. CASE Decide
  <2>1. /\ stage = "decide" /\ sent = First + Whoami + 1 /\ blob = {}
        /\ object \subseteq Object /\ global \in Globals
    BY <1>7 DEF Decide, CourseInv
  <2>2. /\ UNCHANGED <<policy, caller, now, global, req, bug, object, blob, sent>>
        /\ outcome' = IF ~Granted THEN "denied"
                      ELSE IF req.tool = "download_attachment" THEN Gate(CHOOSE f \in file : TRUE)
                      ELSE "none"
        /\ stage' = IF outcome' # "none" THEN "done"
                    ELSE IF req.tool = "download_attachment" THEN "data" ELSE "fetch"
    BY <1>7 DEF Decide
  <2>3. (Granted' <=> Granted) /\ First' = First /\ Whoami' = Whoami
    BY <2>2 DEF Granted, Judge, First, Whoami
  <2>. QED
    BY <2>1, <2>2, <2>3 DEF CourseInv, FileIsAllowed
<1>8. ASSUME NEW found \in Option(Files), FetchData(found) PROVE CourseInv'
  <2>1. /\ Granted /\ object \subseteq Object /\ global \in Globals
        /\ UNCHANGED <<policy, caller, now, global, req, bug, object>>
        /\ blob' = found /\ stage' = "done"
        /\ outcome' = IF found = {} THEN "denied" ELSE DataVerdict(CHOOSE f \in found : TRUE)
    BY <1>8 DEF FetchData, CourseInv
  <2>2. Granted' /\ (PrivateAllowed' <=> PrivateAllowed)
    BY <2>1 DEF Granted, Judge, PrivateAllowed
  <2>3. ASSUME outcome' = "served", NEW f \in found
        PROVE  /\ f.owner = bug
               /\ f.private = {FALSE} \/ PrivateAllowed
               /\ global.max_attachment_bytes > 0 => f.real <= global.max_attachment_bytes
    <3>1. found = {f} /\ f \in Files
      BY <2>3 DEF Option
    <3>2. DataVerdict(f) = "served"
      BY <2>1, <2>3, <3>1
    <3>. QED
      BY <2>1, <3>1, <3>2, DataIsChecked
  <2>. QED
    BY <2>1, <2>2, <2>3 DEF CourseInv, FileIsAllowed
<1>9. ASSUME NEW arrived, FetchThread(arrived) PROVE CourseInv'
  <2>1. /\ stage = "fetch" /\ stage' \in {"done", "kinds", "disclose"}
        /\ UNCHANGED <<policy, caller, now, global, req, bug, object, blob>>
        /\ stage' # "done" => outcome' = outcome
    BY <1>9 DEF FetchThread, ServeList
  <2>. QED
    BY <2>1 DEF CourseInv, Granted, Judge, FileIsAllowed
<1>10. CASE FetchFails
  BY <1>10 DEF FetchFails, CourseInv, Granted, Judge, FileIsAllowed
<1>11. ASSUME NEW learnt, LearnKinds(learnt) PROVE CourseInv'
  BY <1>11 DEF LearnKinds, CourseInv, Granted, Judge, FileIsAllowed
<1>12. ASSUME NEW got \in SUBSET Bugs, DiscloseThread(got) PROVE CourseInv'
  <2>1. /\ stage = "disclose" /\ stage' = "done"
        /\ UNCHANGED <<policy, caller, now, global, req, bug, object, blob>>
    BY <1>12 DEF DiscloseThread
  <2>. QED
    BY <2>1 DEF CourseInv, Granted, Judge, FileIsAllowed
<1>13. CASE BugInfo
  <2>1. stage = "idle" /\ UNCHANGED <<object, global, stage, outcome, blob, sent, req, bug>>
    BY <1>13 DEF BugInfo
  <2>. QED
    BY <2>1 DEF CourseInv, FileIsAllowed
<1>14. CASE UNCHANGED <<vars, viewVars>>
  BY <1>14, CourseStays DEF vars, viewVars, course
<1>. QED
  BY <1>1, <1>2, <1>3, <1>4, <1>5, <1>6, <1>7, <1>8, <1>9, <1>10, <1>11, <1>12, <1>13, <1>14
     DEF ToolNext, ViewNext

LEMMA CourseCorrect == ToolSpec => [](TypeOK /\ CourseInv)
<1>1. ViewInit => TypeOK
  <2>1. DOMAIN Empty = {}
    BY DEF Empty
  <2>2. 0 \in 0 .. MaxClock /\ 0 \in 0 .. MaxEdits
    OBVIOUS
  <2>. QED
    BY <2>1, <2>2 DEF ViewInit, Init, TypeOK, Phases
<1>2. ViewInit => CourseInv
  BY DEF ViewInit, CourseInv, FileIsAllowed
<1>. QED
  BY <1>1, <1>2, ToolTypeStep, CourseStep, PTL DEF ToolSpec

\* A bug granted on what was fetched of it is one the client is entitled to.
LEMMA GrantedIsEntitled ==
  ASSUME TypeOK, CourseInv, Granted
  PROVE  \E o \in object : Allows(Entitled(o.record, now), NeedsView[req.tool])
<1>1. PICK o \in object : Allows(Judge(o, now), NeedsView[req.tool])
  BY DEF Granted
<1>2. o \in Object /\ now \in Int /\ policy \in Policies /\ caller \in BOOLEAN
  BY <1>1 DEF CourseInv, TypeOK
<1>. QED
  BY <1>1, <1>2, JudgeWithinEntitled

\* A denial costs the same requests whichever of its reasons it has (I2, I3):
\* the bug withheld, absent or unreachable, an attachment without a bug.
THEOREM DenialsCorrect == ToolSpec => []DenialsCostTheSame
<1>1. TypeOK /\ CourseInv => DenialsCostTheSame
  <2>. SUFFICES ASSUME TypeOK, CourseInv, stage = "done",
                       ~(\E o \in object : Allows(Entitled(o.record, now), NeedsView[req.tool]))
                PROVE  /\ outcome = "denied"
                       /\ sent = (IF req.tool = "download_attachment" THEN 2 ELSE 1)
                                 + (IF NeedsIdentity(policy) THEN 1 ELSE 0)
    BY DEF DenialsCostTheSame
  <2>1. outcome = "denied" /\ sent = First + Whoami + 1
    BY GrantedIsEntitled DEF CourseInv
  <2>. QED
    BY <2>1 DEF First, Whoami
<1>. QED
  BY <1>1, CourseCorrect, PTL

\* What a thread is served on is a grant of that thread on the version of the
\* bug that was assessed, and a file hangs on the bug assessed when it arrives.
THEOREM ThreadCorrect == ToolSpec => []ThreadIsGranted
<1>1. TypeOK /\ CourseInv => ThreadIsGranted
  BY GrantedIsEntitled DEF CourseInv, ThreadIsGranted
<1>. QED
  BY <1>1, CourseCorrect, PTL

\* A file is served only as it is when its data arrives: public or opted in
\* twice, and within the cap (I5, I8), whatever its metadata said before.
THEOREM FileCorrect == ToolSpec => []FileIsAllowed
<1>1. CourseInv => FileIsAllowed
  BY DEF CourseInv
<1>. QED
  BY <1>1, CourseCorrect, PTL

\* bug_info serves what it may also as one read tool among the others.
THEOREM ToolServedCorrect == ToolSpec => []ServedIsEntitled
<1>1. ViewInit => ServedIsEntitled
  BY DEF ViewInit, Init, ServedIsEntitled, Empty
<1>2. TypeOK /\ ServedIsEntitled /\ [ToolNext]_<<vars, viewVars>> => ServedIsEntitled'
  <2>1. ASSUME TypeOK, ServedIsEntitled, ViewNext PROVE ServedIsEntitled'
    BY <2>1, ViewLeavesRead DEF readVars, ServedIsEntitled, Entitled
  <2>2. ASSUME TypeOK, ServedIsEntitled, BugInfo PROVE ServedIsEntitled'
    BY <2>2, ServedStep DEF BugInfo
  <2>. QED
    BY <2>1, <2>2, ServedStep DEF ToolNext
<1>. QED
  BY <1>1, <1>2, CourseCorrect, PTL DEF ToolSpec

-----------------------------------------------------------------------------
(* The verdict of the audit record                                         *)

\* A cell has the fields of one, whatever is in them.
IsCell(c) ==
  /\ DOMAIN c = {"verdict", "rule", "ids", "extra", "fields", "scan"}
  /\ c = [x \in DOMAIN c |-> c[x]]

LEMMA CellUpdates ==
  ASSUME NEW c, IsCell(c), NEW e, NEW rule
  PROVE  /\ LET d == [c EXCEPT !.verdict = e] IN IsCell(d) /\ d.verdict = e
         /\ LET d == [c EXCEPT !.verdict = e, !.rule = rule] IN IsCell(d) /\ d.verdict = e
         /\ \A x \in {"rule", "ids", "extra", "fields", "scan"} :
              LET d == [c EXCEPT ![x] = e] IN IsCell(d) /\ d.verdict = c.verdict
BY DEF IsCell

LEMMA Ranks ==
  /\ Rank("ServedFiltered") > Rank("Served") /\ Rank("Refused") > Rank("Served")
  /\ Rank("Denied") > Rank("Served")
  /\ ~(Rank("ServedFiltered") > Rank("ServedFiltered")) /\ ~(Rank("Denied") > Rank("Denied"))
  /\ "Served" \in Verdicts /\ "ServedFiltered" \in Verdicts
  /\ "Refused" \in Verdicts /\ "Denied" \in Verdicts
BY DEF Rank, Verdicts

\* The first verdict noted decides.
LEMMA FirstMerge ==
  ASSUME NEW c, IsCell(c), c.verdict = {}, NEW verdict, NEW rule
  PROVE  IsCell(Merge(c, verdict, rule)) /\ Merge(c, verdict, rule).verdict = {verdict}
<1>1. Decides(c, verdict)
  BY DEF Decides
<1>. QED
  BY <1>1 DEF Merge, IsCell

\* A graver verdict replaces the one noted before, with a rule or without.
LEMMA GraverMerge ==
  ASSUME NEW c, IsCell(c), NEW u, c.verdict = {u}, NEW verdict, Rank(verdict) > Rank(u), NEW rule
  PROVE  /\ IsCell(Merge(c, verdict, rule)) /\ Merge(c, verdict, rule).verdict = {verdict}
         /\ IsCell(MergeKeepingRule(c, verdict))
         /\ MergeKeepingRule(c, verdict).verdict = {verdict}
<1>1. Decides(c, verdict)
  BY DEF Decides
<1>. QED
  BY <1>1 DEF Merge, MergeKeepingRule, IsCell

\* A verdict that is no graver leaves it.
LEMMA OtherMerge ==
  ASSUME NEW c, IsCell(c), NEW u, c.verdict = {u}, NEW verdict, ~(Rank(verdict) > Rank(u)),
         NEW rule
  PROVE  /\ IsCell(Merge(c, verdict, rule)) /\ Merge(c, verdict, rule).verdict = {u}
         /\ IsCell(MergeKeepingRule(c, verdict)) /\ MergeKeepingRule(c, verdict).verdict = {u}
<1>1. ~Decides(c, verdict)
  BY DEF Decides
<1>. QED
  BY <1>1 DEF Merge, MergeKeepingRule, IsCell

\* The notes of a reply: what was served stays served, or is filtered.
Serves(c) == IsCell(c) /\ c.verdict \in {{"Served"}, {"ServedFiltered"}}

LEMMA FilteringServes ==
  ASSUME NEW c, Serves(c), NEW rule
  PROVE  Serves(Merge(c, "ServedFiltered", rule)) /\ Serves(MergeKeepingRule(c, "ServedFiltered"))
<1>1. IsCell(c)
  BY DEF Serves
<1>2. CASE c.verdict = {"Served"}
  BY <1>1, <1>2, Ranks, GraverMerge DEF Serves
<1>3. CASE c.verdict = {"ServedFiltered"}
  BY <1>1, <1>3, Ranks, OtherMerge DEF Serves
<1>. QED
  BY <1>2, <1>3 DEF Serves

LEMMA NotesServe ==
  ASSUME NEW c, Serves(c)
  PROVE  /\ \A bugs : Serves(NoteSuppressed(c, bugs))
         /\ \A n : Serves(NoteSuppressedCount(c, n))
         /\ \A field : Serves(NoteClientWindow(c, field))
<1>1. ASSUME NEW d, Serves(d), NEW e
      PROVE  /\ Serves([d EXCEPT !.ids = @ \cup e]) /\ Serves([d EXCEPT !.extra = @ + e])
             /\ Serves([d EXCEPT !.fields = @ \cup {e}])
  BY <1>1, CellUpdates, ZenonT(30) DEF Serves
<1>2. Serves(NoteVerdict(c, "ServedFiltered")) /\ Serves(MergeKeepingRule(c, "ServedFiltered"))
  BY FilteringServes DEF NoteVerdict
<1>. QED
  BY <1>1, <1>2 DEF NoteSuppressed, NoteSuppressedCount, NoteClientWindow

\* Nothing is noted before the assessment; from then on the cell holds what
\* it decided, and at the end what became of the call.
NotedInv ==
  /\ stage # "idle" => phase = "idle"
  /\ phase = "idle" /\ stage \in {"idle", "meta", "caller", "assess", "decide"} =>
       cell = NothingNoted
  /\ sent \in Nat
  /\ stage \in {"idle", "meta", "caller", "assess"} => object = {}
  /\ object # {} => bug # {}
  /\ stage \in {"data", "fetch", "kinds", "disclose"} =>
       IsCell(cell) /\ cell.verdict = {"Served"}
  /\ stage = "done" =>
       \/ outcome \in {"denied", "size"} /\ cell.verdict = {"Denied"}
       \/ outcome = "no data" /\ cell.verdict = {"Refused"}
       \/ outcome = "failed" /\ cell.verdict = {"Served"} /\ sent > 0
       \/ outcome = "served" /\ Serves(cell)
  /\ stage \in {"idle", "meta", "caller", "assess", "decide", "data", "fetch", "kinds",
                "disclose", "done"}

LEMMA NotedDecide == ASSUME NotedInv, Decide PROVE NotedInv'
<1>1. stage = "decide" /\ phase = "idle" /\ cell = NothingNoted
  BY DEF NotedInv, Decide
<1>2. /\ IsCell(AssessmentNoted)
      /\ AssessmentNoted.verdict = IF Granted THEN {"Served"} ELSE {"Denied"}
  <2>1. IsCell(cell) /\ cell.verdict = {}
    BY <1>1 DEF NothingNoted, IsCell
  <2>2. Granted => bug # {}
    BY DEF Granted, NotedInv
  <2>. QED
    BY <2>1, <2>2, FirstMerge DEF AssessmentNoted, NoteVerdict, NoteVerdictRule
<1>3. /\ outcome' = IF ~Granted THEN "denied"
                    ELSE IF req.tool = "download_attachment" THEN Gate(CHOOSE f \in file : TRUE)
                    ELSE "none"
      /\ stage' = IF outcome' # "none" THEN "done"
                  ELSE IF req.tool = "download_attachment" THEN "data" ELSE "fetch"
      /\ cell' = OutcomeNoted(AssessmentNoted, outcome')
      /\ UNCHANGED <<phase, bug, object, sent>>
  BY DEF Decide, readVars
<1>4. outcome' \in {"denied", "size", "none"}
  BY <1>3 DEF Gate
<1>5. CASE outcome' = "none"
  <2>1. cell' = AssessmentNoted /\ Granted /\ stage' \in {"data", "fetch"}
    BY <1>3, <1>5 DEF OutcomeNoted
  <2>. QED
    BY <1>1, <1>2, <1>3, <2>1 DEF NotedInv
<1>6. CASE outcome' \in {"denied", "size"}
  <2>1. cell' = NoteVerdict(AssessmentNoted, "Denied") /\ stage' = "done"
    BY <1>3, <1>6 DEF OutcomeNoted
  <2>2. cell'.verdict = {"Denied"}
    <3>1. CASE Granted
      BY <1>2, <2>1, <3>1, Ranks, GraverMerge DEF NoteVerdict
    <3>2. CASE ~Granted
      BY <1>2, <2>1, <3>2, Ranks, OtherMerge DEF NoteVerdict
    <3>. QED
      BY <3>1, <3>2
  <2>. QED
    BY <1>1, <1>3, <1>6, <2>1, <2>2 DEF NotedInv
<1>. QED
  BY <1>4, <1>5, <1>6

\* How a call may end.
LEMMA NotedEnd ==
  ASSUME stage' = "done", sent' \in Nat, phase' = "idle", object' # {} => bug' # {},
         \/ outcome' \in {"denied", "size"} /\ cell'.verdict = {"Denied"}
         \/ outcome' = "no data" /\ cell'.verdict = {"Refused"}
         \/ outcome' = "failed" /\ cell'.verdict = {"Served"} /\ sent' > 0
         \/ outcome' = "served" /\ Serves(cell')
  PROVE  NotedInv'
BY DEF NotedInv

LEMMA NotedData ==
  ASSUME NotedInv, NEW found \in Option(Files), FetchData(found)
  PROVE  NotedInv'
<1>1. /\ stage = "data" /\ phase = "idle" /\ IsCell(cell) /\ cell.verdict = {"Served"}
      /\ sent \in Nat /\ (object # {} => bug # {})
  BY DEF NotedInv, FetchData
<1>2. /\ stage' = "done" /\ sent' = sent + 1 /\ UNCHANGED <<phase, bug, object>>
      /\ outcome' \in {"denied", "size", "no data", "served"}
  BY DEF FetchData, DataVerdict, Gate, readVars
<1>3. \/ outcome' = "served" /\ cell' = NoteClientWindow(cell, "attachment_window")
      \/ cell' = OutcomeNoted(cell, outcome')
  BY DEF FetchData
<1>4. Serves(cell)
  BY <1>1 DEF Serves
<1>5. CASE outcome' = "served"
  <2>1. Serves(cell')
    BY <1>3, <1>4, <1>5, NotesServe DEF OutcomeNoted
  <2>. QED
    BY <1>1, <1>2, <1>5, <2>1 DEF NotedInv
<1>6. /\ stage' = "done" /\ sent' \in Nat /\ phase' = "idle"
      /\ object' # {} => bug' # {}
  <2>1. stage' = "done" /\ phase' = "idle"
    BY <1>1, <1>2
  <2>2. sent' \in Nat
    <3>1. sent \in Nat /\ sent' = sent + 1
      BY <1>1, <1>2
    <3>. QED
      BY <3>1
  <2>3. object' # {} => bug' # {}
    BY <1>1, <1>2
  <2>. QED
    BY <2>1, <2>2, <2>3
<1>7. CASE outcome' = "no data"
  <2>1. cell' = NoteVerdict(cell, "Refused")
    BY <1>3, <1>7 DEF OutcomeNoted
  <2>2. cell'.verdict = {"Refused"}
    BY <1>1, <2>1, Ranks, GraverMerge DEF NoteVerdict
  <2>. QED
    BY <1>6, <1>7, <2>2, NotedEnd
<1>8. CASE outcome' \in {"denied", "size"}
  <2>1. cell' = NoteVerdict(cell, "Denied")
    BY <1>3, <1>8 DEF OutcomeNoted
  <2>2. cell'.verdict = {"Denied"}
    BY <1>1, <2>1, Ranks, GraverMerge DEF NoteVerdict
  <2>. QED
    BY <1>6, <1>8, <2>2, NotedEnd
<1>. QED
  BY <1>2, <1>5, <1>7, <1>8

LEMMA NotedStep == CourseInv /\ NotedInv /\ [ToolNext]_<<vars, viewVars>> => NotedInv'
<1>. SUFFICES ASSUME CourseInv, NotedInv, [ToolNext]_<<vars, viewVars>> PROVE NotedInv'
  OBVIOUS
<1>1. CASE UNCHANGED <<stage, phase, cell, sent, object, bug, outcome>>
  BY <1>1 DEF NotedInv, Serves, IsCell
<1>2. ASSUME NEW r \in ViewRequests, ViewBegin(r) PROVE NotedInv'
  <2>1. stage = "idle" /\ phase = "idle" /\ stage' \in {"meta", "caller"} /\ object = {}
        /\ UNCHANGED <<phase, cell, sent, object>>
    BY <1>2 DEF ViewBegin, readVars, NotedInv
  <2>. QED
    BY <2>1 DEF NotedInv
<1>3. ASSUME NEW found \in Option(Files), FetchMeta(found) PROVE NotedInv'
  BY <1>3 DEF FetchMeta, readVars, NotedInv
<1>4. ASSUME NEW ok \in BOOLEAN, ViewCaller(ok) PROVE NotedInv'
  BY <1>4 DEF ViewCaller, readVars, NotedInv
<1>5. ASSUME NEW got \in SUBSET Bugs, ViewAssess(got) PROVE NotedInv'
  BY <1>5 DEF ViewAssess, readVars, NotedInv
<1>6. CASE Decide
  BY <1>6, NotedDecide
<1>7. ASSUME NEW found \in Option(Files), FetchData(found) PROVE NotedInv'
  BY <1>7, NotedData
<1>8. ASSUME NEW arrived, FetchThread(arrived) PROVE NotedInv'
  <2>1. stage = "fetch" /\ phase = "idle" /\ Serves(cell) /\ sent' = sent + 1
        /\ UNCHANGED <<phase, bug, object>>
    BY <1>8 DEF FetchThread, readVars, NotedInv, Serves
  <2>2. CASE ServeList(arrived)
    <3>1. stage' = "done" /\ outcome' = "served" /\ Serves(cell')
      BY <2>1, <2>2, NotesServe DEF ServeList
    <3>. QED
      BY <2>1, <3>1 DEF NotedInv
  <2>3. CASE stage' \in {"kinds", "disclose"} /\ UNCHANGED cell
    <3>1. IsCell(cell) /\ cell.verdict = {"Served"} /\ sent \in Nat /\ (object # {} => bug # {})
      BY <2>1 DEF NotedInv
    <3>2. IsCell(cell') /\ cell'.verdict = {"Served"} /\ sent' \in Nat
          /\ phase' = "idle" /\ (object' # {} => bug' # {})
      BY <2>1, <2>3, <3>1
    <3>. QED
      BY <2>3, <3>2 DEF NotedInv
  <2>. QED
    BY <1>8, <2>2, <2>3 DEF FetchThread
<1>9. CASE FetchFails
  BY <1>9 DEF FetchFails, readVars, NotedInv
<1>10. ASSUME NEW learnt, LearnKinds(learnt) PROVE NotedInv'
  BY <1>10 DEF LearnKinds, readVars, NotedInv, IsCell
<1>11. ASSUME NEW got \in SUBSET Bugs, DiscloseThread(got) PROVE NotedInv'
  <2>1. stage = "disclose" /\ phase = "idle" /\ Serves(cell)
        /\ sent' = sent + 1 /\ stage' = "done" /\ outcome' = "served"
        /\ UNCHANGED <<phase, bug, object>>
    BY <1>11 DEF DiscloseThread, readVars, NotedInv, Serves
  <2>2. \A hidden, cut : Serves(ReplyNoted(hidden, cut))
    BY <2>1, NotesServe DEF ReplyNoted
  <2>3. \E hidden, cut : cell' = ReplyNoted(hidden, cut)
    BY <1>11 DEF DiscloseThread
  <2>. QED
    BY <2>1, <2>2, <2>3 DEF NotedInv
<1>12. CASE BugInfo
  <2>1. stage = "idle" /\ UNCHANGED <<stage, sent, object, bug, outcome>>
    BY <1>12 DEF BugInfo
  <2>2. phase' = "idle" => phase = "idle" /\ cell' = cell
    BY <1>12 DEF BugInfo, BugInfoNoted, Next, Edit, Tick, call, Begin, ResolveCaller, AssessMissing,
       AssessOne, AssessDone, FetchBodies, Assemble, Disclose
  <2>. QED
    BY <2>1, <2>2 DEF NotedInv
<1>. QED
  BY <1>1, <1>2, <1>3, <1>4, <1>5, <1>6, <1>7, <1>8, <1>9, <1>10, <1>11, <1>12
     DEF ToolNext, ViewNext, ViewEdit, ViewTick, readVars, viewVars, vars

LEMMA RefusalsTold == NotedInv => RefusalIsRecorded
<1>. SUFFICES ASSUME NotedInv, stage = "done"
              PROVE  /\ (cell.verdict = {"Denied"}) <=> outcome \in {"denied", "size"}
                     /\ (cell.verdict = {"Refused"}) <=> outcome = "no data"
                     /\ (OutcomeClass = "error") <=> outcome = "failed"
  BY DEF RefusalIsRecorded
<1>1. \/ outcome \in {"denied", "size"} /\ cell.verdict = {"Denied"}
      \/ outcome = "no data" /\ cell.verdict = {"Refused"}
      \/ outcome = "failed" /\ cell.verdict = {"Served"} /\ sent > 0
      \/ outcome = "served" /\ cell.verdict \in {{"Served"}, {"ServedFiltered"}}
  BY DEF NotedInv, Serves
<1>. QED
  BY <1>1 DEF OutcomeClass

\* The audit record tells a denial, a refusal, Bugzilla's failure and a reply
\* from each other, whatever else was noted of the call before.
THEOREM RefusalsCorrect == ToolSpec => []RefusalIsRecorded
<1>1. ViewInit => NotedInv
  BY DEF ViewInit, Init, NotedInv
<1>. QED
  BY <1>1, RefusalsTold, NotedStep, CourseCorrect, PTL DEF ToolSpec

-----------------------------------------------------------------------------
(* A list's places in their order                                          *)

\* How many members of S come before place i.
Before(S, i) == Cardinality({j \in S : j < i})

LEMMA BeforeBounds ==
  ASSUME NEW S \in SUBSET Nat, IsFiniteSet(S), NEW i \in S
  PROVE  /\ Before(S, i) \in Nat /\ Before(S, i) < Cardinality(S)
         /\ Cardinality({j \in S : j > i}) = Cardinality(S) - 1 - Before(S, i)
         /\ \A k \in S : i < k => Before(S, i) < Before(S, k)
<1>. DEFINE B(k) == {j \in S : j < k}
            A == {j \in S : j > i}
<1>1. \A k : B(k) \subseteq S /\ IsFiniteSet(B(k)) /\ Cardinality(B(k)) \in Nat
  BY FS_Subset, FS_CardinalityType
<1>2. A \subseteq S /\ IsFiniteSet(A) /\ Cardinality(A) \in Nat
  BY FS_Subset, FS_CardinalityType
<1>3. Cardinality(S) \in Nat /\ \A j \in S : j \in Int
  BY FS_CardinalityType
<1>4. i \notin B(i) /\ IsFiniteSet(B(i) \cup {i})
      /\ Cardinality(B(i) \cup {i}) = Cardinality(B(i)) + 1
  <2>1. ~(i < i)
    BY <1>3
  <2>. QED
    BY <1>1, <2>1, FS_AddElement, ZenonT(30)
<1>5. S = (B(i) \cup {i}) \cup A /\ (B(i) \cup {i}) \cap A = {}
  <2>1. \A j \in S : /\ j < i \/ j = i \/ j > i
                     /\ ~(j < i /\ j > i) /\ ~(j = i /\ j > i)
    BY <1>3
  <2>. QED
    BY <2>1, Zenon
<1>8. /\ \A k : Before(S, k) = Cardinality(B(k))
      /\ Cardinality({j \in S : j > i}) = Cardinality(A)
  BY DEF Before
<1>. HIDE DEF A, B
<1>6. Cardinality(S) = Cardinality(B(i) \cup {i}) + Cardinality(A)
  <2>1. Cardinality((B(i) \cup {i}) \cup A)
          = Cardinality(B(i) \cup {i}) + Cardinality(A) - Cardinality((B(i) \cup {i}) \cap A)
    BY <1>2, <1>4, FS_Union
  <2>2. Cardinality((B(i) \cup {i}) \cap A) = 0
    BY <1>5, FS_EmptySet
  <2>. QED
    BY <1>1, <1>2, <1>4, <1>5, <2>1, <2>2
<1>7. ASSUME NEW k \in S, i < k PROVE Cardinality(B(i)) < Cardinality(B(k))
  <2>1. \A j \in S : j < i => j < k
    BY <1>3, <1>7
  <2>2. B(i) \cup {i} \subseteq B(k)
    BY <1>7, <2>1, Zenon DEF B
  <2>3. Cardinality(B(i) \cup {i}) <= Cardinality(B(k))
    BY <1>1, <2>2, FS_Subset
  <2>. QED
    BY <1>1, <1>4, <2>3
<1>. QED
  BY <1>1, <1>2, <1>3, <1>4, <1>6, <1>7, <1>8

\* The n-th member of S in its order is the one with n - 1 before it.
LEMMA InOrderIsTheOrder ==
  ASSUME NEW S \in SUBSET Nat, IsFiniteSet(S)
  PROVE  /\ Cardinality(S) \in Nat /\ DOMAIN InOrder(S) = 1 .. Cardinality(S)
         /\ \A n \in 1 .. Cardinality(S) :
              InOrder(S)[n] \in S /\ Before(S, InOrder(S)[n]) = n - 1
         /\ \A i \in S : /\ Before(S, i) + 1 \in 1 .. Cardinality(S)
                         /\ InOrder(S)[Before(S, i) + 1] = i
<1>. DEFINE f == [i \in S |-> Before(S, i) + 1]
            I == 1 .. Cardinality(S)
<1>1. Cardinality(S) \in Nat
  BY FS_CardinalityType
<1>2. ASSUME NEW i \in S PROVE Before(S, i) \in Nat /\ Before(S, i) + 1 \in I
  <2>1. Before(S, i) \in Nat /\ Before(S, i) < Cardinality(S)
    BY BeforeBounds
  <2>. QED
    BY <1>1, <2>1
<1>3. \A a, b \in S : Before(S, a) = Before(S, b) => a = b
  <2>. SUFFICES ASSUME NEW a \in S, NEW b \in S, a # b
                PROVE  Before(S, a) # Before(S, b)
    OBVIOUS
  <2>1. a < b \/ b < a
    OBVIOUS
  <2>2. /\ a < b => Before(S, a) < Before(S, b)
        /\ b < a => Before(S, b) < Before(S, a)
    BY BeforeBounds
  <2>3. Before(S, a) \in Nat /\ Before(S, b) \in Nat
    BY <1>2
  <2>. QED
    BY <2>1, <2>2, <2>3
<1>4. f \in Injection(S, I)
  <2>1. f \in [S -> I]
    BY <1>2
  <2>2. \A a, b \in S : f[a] = f[b] => a = b
    BY <1>2, <1>3
  <2>. QED
    BY <2>1, <2>2 DEF Injection, IsInjective
<1>5. f \in Surjection(S, I)
  <2>1. IsFiniteSet(I) /\ Cardinality(I) = Cardinality(S)
    BY <1>1, FS_Interval
  <2>. QED
    BY <1>4, <2>1, FS_Injection
<1>6. ASSUME NEW n \in I
      PROVE  InOrder(S)[n] \in S /\ Before(S, InOrder(S)[n]) = n - 1
  <2>1. PICK i \in S : f[i] = n
    BY <1>5 DEF Surjection
  <2>2. \E i2 \in S : Cardinality({j \in S : j < i2}) = n - 1
    <3>1. Before(S, i) \in Nat /\ Before(S, i) + 1 = n
      BY <1>2, <2>1
    <3>2. Before(S, i) = n - 1
      BY <3>1
    <3>. QED
      BY <3>2 DEF Before
  <2>3. InOrder(S)[n] = CHOOSE i2 \in S : Cardinality({j \in S : j < i2}) = n - 1
    BY <1>6 DEF InOrder
  <2>. QED
    BY <2>2, <2>3 DEF Before
<1>7. ASSUME NEW i \in S PROVE InOrder(S)[Before(S, i) + 1] = i
  <2>1. Before(S, i) + 1 \in I /\ (Before(S, i) + 1) - 1 = Before(S, i)
    BY <1>2
  <2>2. InOrder(S)[Before(S, i) + 1] \in S
        /\ Before(S, InOrder(S)[Before(S, i) + 1]) = Before(S, i)
    BY <1>6, <2>1
  <2>. QED
    BY <1>3, <2>2
<1>8. DOMAIN InOrder(S) = I
  BY DEF InOrder
<1>. QED
  BY <1>1, <1>2, <1>6, <1>7, <1>8

-----------------------------------------------------------------------------
(* The thread of a call under way                                          *)

\* A call that has ended is not touched again, nor is what it looked at.
LEMMA DoneStays ==
  ASSUME stage = "done", [ToolNext]_<<vars, viewVars>>
  PROVE  UNCHANGED <<vars, viewVars>>
BY DEF ToolNext, ViewNext, BugInfo, ViewEdit, ViewTick, Busy, ViewBegin, FetchMeta, FetchData,
   ViewCaller, ViewAssess, DiscloseThread, Decide, FetchThread, FetchFails, LearnKinds

\* What the field cache answers is what Bugzilla holds or held, or that it is
\* unknown.
KindsFit ==
  /\ DOMAIN kinds \subseteq CustomFields
  /\ \A f \in DOMAIN kinds : kinds[f] \in {FieldKinds[f], "Unknown"} \cup Outdated[f]

\* Nothing of a reply stands before its end, and what a call has of a thread
\* is one that arrived for its tool.
ThreadInv ==
  /\ stage # "idle" => req \in ViewRequests
  /\ stage # "done" => shown = <<>> /\ omitted = 0 /\ targets = Empty
  /\ stage \in {"idle", "meta"} => bug = {} /\ file = {}
  /\ bug \in Option(Bugs) /\ file \in Option(Files)
  /\ stage \notin {"kinds", "disclose", "done"} => thread = <<>>
  /\ stage \notin {"disclose", "done"} => kinds = Empty
  /\ KindsFit
  /\ stage \in {"meta", "data"} => req.tool = "download_attachment"
  /\ stage \in {"fetch", "kinds", "disclose"} => req.tool # "download_attachment"
  /\ stage \in {"kinds", "disclose"} =>
       thread \in Threads[req.tool] /\ req.tool # "list_attachments"
  /\ stage = "kinds" => req.tool = "bug_history"
  /\ stage \notin {"idle", "meta"} /\ req.tool # "download_attachment" => bug = {req.bug}

LEMMA ThreadStep == ThreadInv /\ [ToolNext]_<<vars, viewVars>> => ThreadInv'
<1>. SUFFICES ASSUME ThreadInv, [ToolNext]_<<vars, viewVars>> PROVE ThreadInv'
  OBVIOUS
<1>1. CASE UNCHANGED viewVars
  BY <1>1 DEF viewVars, ThreadInv, KindsFit
<1>2. ASSUME NEW r \in ViewRequests, ViewBegin(r) PROVE ThreadInv'
  <2>1. r.bug \in Bugs
    BY ViewRequestsAssumption DEF ViewRequest
  <2>2. bug' \in Option(Bugs)
    BY <1>2, <2>1 DEF ViewBegin, Option
  <2>. QED
    BY <1>2, <2>2 DEF ViewBegin, ThreadInv, KindsFit
<1>3. ASSUME NEW found \in Option(Files), FetchMeta(found) PROVE ThreadInv'
  <2>1. UNION {f.owner : f \in found} \in Option(Bugs)
    BY FilesAssumption DEF Option, File
  <2>. QED
    BY <1>3, <2>1 DEF FetchMeta, ThreadInv, KindsFit
<1>4. ASSUME NEW ok \in BOOLEAN, ViewCaller(ok) PROVE ThreadInv'
  BY <1>4 DEF ViewCaller, ThreadInv, KindsFit
<1>5. ASSUME NEW got \in SUBSET Bugs, ViewAssess(got) PROVE ThreadInv'
  BY <1>5 DEF ViewAssess, ThreadInv, KindsFit
<1>6. CASE Decide
  BY <1>6 DEF Decide, ThreadInv, KindsFit
<1>7. ASSUME NEW found \in Option(Files), FetchData(found) PROVE ThreadInv'
  BY <1>7 DEF FetchData, ThreadInv, KindsFit
<1>8. ASSUME NEW arrived, FetchThread(arrived) PROVE ThreadInv'
  <2>1. /\ stage = "fetch" /\ arrived \in Threads[req.tool] /\ thread' = arrived
        /\ UNCHANGED <<req, bug, file, kinds, targets, omitted>>
    BY <1>8 DEF FetchThread
  <2>2. CASE req.tool = "list_attachments"
    <3>1. stage' = "done"
      BY <1>8, <2>2 DEF FetchThread, ServeList
    <3>. QED
      BY <2>1, <3>1 DEF ThreadInv, KindsFit
  <2>3. CASE req.tool # "list_attachments"
    <3>1. /\ stage' = IF req.tool = "bug_history" /\ CustomNamed(arrived) # {}
                        THEN "kinds" ELSE "disclose"
          /\ UNCHANGED shown
      BY <1>8, <2>3 DEF FetchThread
    <3>. QED
      BY <2>1, <2>3, <3>1 DEF ThreadInv, KindsFit
  <2>. QED
    BY <2>2, <2>3
<1>9. CASE FetchFails
  BY <1>9 DEF FetchFails, ThreadInv, KindsFit
<1>10. ASSUME NEW learnt, LearnKinds(learnt) PROVE ThreadInv'
  <2>1. /\ stage = "kinds" /\ stage' = "disclose" 
        /\ kinds' = [f \in CustomNamed(thread) |-> learnt[f]]
        /\ \A f \in CustomNamed(thread) :
             learnt[f] \in {FieldKinds[f], "Unknown"} \cup Outdated[f]
        /\ UNCHANGED <<req, bug, file, thread, targets, shown, omitted>>
    BY <1>10 DEF LearnKinds
  <2>2. KindsFit'
    BY <2>1 DEF KindsFit, CustomNamed
  <2>. QED
    BY <2>1, <2>2 DEF ThreadInv
<1>11. ASSUME NEW got \in SUBSET Bugs, DiscloseThread(got) PROVE ThreadInv'
  <2>1. stage = "disclose" /\ stage' = "done" /\ UNCHANGED <<req, bug, file, thread, kinds>>
    BY <1>11 DEF DiscloseThread
  <2>. QED
    BY <2>1 DEF ThreadInv, KindsFit
<1>12. CASE BugInfo
  BY <1>12 DEF BugInfo, ThreadInv, KindsFit
<1>. QED
  BY <1>1, <1>2, <1>3, <1>4, <1>5, <1>6, <1>7, <1>8, <1>9, <1>10, <1>11, <1>12
     DEF ToolNext, ViewNext, ViewEdit, ViewTick

LEMMA ThreadsArrive == ToolSpec => [](TypeOK /\ CourseInv /\ NotedInv /\ ThreadInv)
<1>1. ViewInit => ThreadInv
  BY DEF ViewInit, ThreadInv, KindsFit, Empty, Option
<1>2. ViewInit => NotedInv
  BY DEF ViewInit, Init, NotedInv
<1>. QED
  BY <1>1, <1>2, ThreadStep, NotedStep, CourseCorrect, PTL DEF ToolSpec

-----------------------------------------------------------------------------
(* What a reply is, and what is noted of it                                *)

Cell(verdict, rule, hidden, extra, fields) ==
  [verdict |-> verdict, rule |-> rule, ids |-> hidden, extra |-> extra, fields |-> fields,
   scan |-> {}]

LEMMA CellFields ==
  ASSUME NEW v, NEW r, NEW h, NEW n, NEW f
  PROVE  /\ Cell(v, r, h, n, f).verdict = v /\ Cell(v, r, h, n, f).rule = r
         /\ Cell(v, r, h, n, f).ids = h /\ Cell(v, r, h, n, f).extra = n
BY DEF Cell

\* Merging a filtered reply into what was noted of a served one, and again.
LEMMA FilteredOnce ==
  ASSUME NEW r, NEW h, NEW n, NEW f
  PROVE  /\ Merge(Cell({"Served"}, r, h, n, f), "ServedFiltered", {})
              = Cell({"ServedFiltered"}, {}, h, n, f)
         /\ Merge(Cell({"ServedFiltered"}, {}, h, n, f), "ServedFiltered", {})
              = Cell({"ServedFiltered"}, {}, h, n, f)
         /\ MergeKeepingRule(Cell({"Served"}, r, h, n, f), "ServedFiltered")
              = Cell({"ServedFiltered"}, r, h, n, f)
         /\ MergeKeepingRule(Cell({"ServedFiltered"}, r, h, n, f), "ServedFiltered")
              = Cell({"ServedFiltered"}, r, h, n, f)
<1>1. /\ Decides(Cell({"Served"}, r, h, n, f), "ServedFiltered")
      /\ ~Decides(Cell({"ServedFiltered"}, {}, h, n, f), "ServedFiltered")
      /\ ~Decides(Cell({"ServedFiltered"}, r, h, n, f), "ServedFiltered")
  BY Ranks DEF Decides, Cell
<1>. QED
  BY <1>1 DEF Merge, MergeKeepingRule, Cell

\* The notes of a reply from which `private` items and the bugs in `hidden`
\* are missing, and which a window cut or did not.
NotesMade(private, hidden, cut) ==
  LET noted == NoteSuppressed(NoteSuppressedCount(cell, private), hidden)
  IN  IF cut > 0 THEN NoteClientWindow(noted, "thread_window") ELSE noted

LEMMA NotesOfReply ==
  ASSUME NEW rule, NEW private \in Nat, NEW hidden, NEW cut \in Nat,
         cell = Cell({"Served"}, rule, {}, 0, {})
  PROVE  /\ NotesMade(private, hidden, cut).extra = private
         /\ NotesMade(private, hidden, cut).ids = hidden
         /\ NotesMade(private, hidden, cut).rule = IF private = 0 /\ hidden = {} THEN rule ELSE {}
         /\ NotesMade(private, hidden, cut).verdict
              = IF private = 0 /\ hidden = {} /\ cut = 0 THEN {"Served"} ELSE {"ServedFiltered"}
<1>. PICK third : third = NotesMade(private, hidden, cut)
  OBVIOUS
<1>. DEFINE v1 == IF private = 0 THEN {"Served"} ELSE {"ServedFiltered"}
            r1 == IF private = 0 THEN rule ELSE {}
            v2 == IF private = 0 /\ hidden = {} THEN {"Served"} ELSE {"ServedFiltered"}
            r2 == IF private = 0 /\ hidden = {} THEN rule ELSE {}
<1>. PICK first : first = NoteSuppressedCount(cell, private)
  OBVIOUS
<1>. PICK second : second = NoteSuppressed(first, hidden)
  OBVIOUS
<1>0. third = IF cut > 0 THEN NoteClientWindow(second, "thread_window") ELSE second
  BY DEF NotesMade
<1>1. first = Cell(v1, r1, {}, private, {})
  <2>1. CASE private = 0
    BY <2>1 DEF NoteSuppressedCount
  <2>2. CASE private # 0
    <3>1. first = [Cell({"ServedFiltered"}, {}, {}, 0, {}) EXCEPT !.extra = @ + private]
      BY <2>2, FilteredOnce DEF NoteSuppressedCount, NoteVerdict
    <3>2. 0 + private = private
      OBVIOUS
    <3>3. first = Cell({"ServedFiltered"}, {}, {}, 0 + private, {})
      BY <3>1 DEF Cell
    <3>. QED
      BY <2>2, <3>2, <3>3
  <2>. QED
    BY <2>1, <2>2
<1>2. second = Cell(v2, r2, hidden, private, {})
  <2>1. CASE hidden = {}
    BY <1>1, <2>1 DEF NoteSuppressed
  <2>2. CASE hidden # {}
    <3>1. Merge(first, "ServedFiltered", {}) = Cell({"ServedFiltered"}, {}, {}, private, {})
      BY <1>1, FilteredOnce
    <3>2. second = [Cell({"ServedFiltered"}, {}, {}, private, {}) EXCEPT !.ids = @ \cup hidden]
      BY <2>2, <3>1 DEF NoteSuppressed, NoteVerdict
    <3>. QED
      BY <2>2, <3>2, ZenonT(30) DEF Cell
  <2>. QED
    BY <2>1, <2>2
<1>3. CASE cut > 0
  <2>1. MergeKeepingRule(second, "ServedFiltered") = Cell({"ServedFiltered"}, r2, hidden, private, {})
    BY <1>2, FilteredOnce
  <2>2. third = [Cell({"ServedFiltered"}, r2, hidden, private, {})
                   EXCEPT !.fields = @ \cup {"thread_window"}]
    BY <1>0, <1>3, <2>1 DEF NoteClientWindow
  <2>3. third = Cell({"ServedFiltered"}, r2, hidden, private, {} \cup {"thread_window"})
    BY <2>2 DEF Cell
  <2>4. cut # 0
    BY <1>3
  <2>. HIDE DEF r2
  <2>5. /\ third.extra = private /\ third.ids = hidden /\ third.rule = r2
        /\ third.verdict = {"ServedFiltered"}
    BY <2>3, CellFields
  <2>. QED
    BY <2>4, <2>5 DEF r2
<1>4. CASE cut = 0
  <2>1. third = Cell(v2, r2, hidden, private, {})
    BY <1>0, <1>2, <1>4
  <2>. QED
    BY <1>4, <2>1, SMTT(30) DEF Cell
<1>. QED
  BY <1>3, <1>4

\* The bugs of a thread its reply does not name and counts as hidden.
Unnamed == IF req.tool = "list_attachments" THEN {} ELSE ThreadIds \ Nameable

Unopened == Cardinality({i \in DOMAIN thread : Hidden(thread[i])})

\* The reply is the window's part of what may be told of the thread ...
ReplyIs ==
  /\ req.tool # "download_attachment" /\ thread \in Threads[req.tool]
  /\ DOMAIN targets \subseteq Bugs /\ \A b \in DOMAIN targets : targets[b] \in Object
  /\ LET all == Scrubbed(Nameable)
     IN  /\ shown = IF req.tool \in {"summarize_bug", "list_attachments"} THEN all
                    ELSE Window(all, req.head, req.tail)
         /\ omitted = Len(all) - Len(shown)

\* ... and what is noted of it is what is missing from it.
NotedIs ==
  /\ cell.extra = Unopened /\ cell.ids = Unnamed
  /\ cell.rule = IF Unopened = 0 /\ Unnamed = {} THEN bug ELSE {}
  /\ cell.verdict = IF Unopened = 0 /\ Unnamed = {} /\ omitted = 0
                      THEN {"Served"} ELSE {"ServedFiltered"}

\* How a call ends that is not served a thread.
OtherEnd ==
  /\ shown = <<>> /\ omitted = 0 /\ targets = Empty /\ cell.ids = {} /\ cell.extra = 0
  /\ cell.rule = CASE outcome \in {"failed", "served"} -> bug
                   [] outcome = "denied" -> IF Granted THEN {} ELSE bug
                   [] OTHER -> {}

EndInv ==
  /\ stage \in {"data", "fetch", "kinds", "disclose"} => cell = Cell({"Served"}, bug, {}, 0, {})
  /\ stage = "done" /\ outcome = "served" /\ blob = {} => ReplyIs /\ NotedIs
  /\ stage = "done" /\ ~(outcome = "served" /\ blob = {}) => OtherEnd

\* What an ended call leaves stands.
LEMMA EndStays == EndInv /\ UNCHANGED <<vars, viewVars>> => EndInv'
<1>. SUFFICES ASSUME EndInv, UNCHANGED <<vars, viewVars>> PROVE EndInv'
  OBVIOUS
<1>. USE DEF vars, viewVars
<1>1. \A item : Hidden(item)' <=> Hidden(item)
  BY DEF Hidden, PrivateAllowed
<1>2. Unopened' = Unopened /\ ThreadIds' = ThreadIds
  BY DEF Unopened, ThreadIds, NamesOf, LinkKind, Hidden, PrivateAllowed
<1>3. Nameable' = Nameable /\ (Granted' <=> Granted)
  BY DEF Nameable, Judge, Granted
<1>4. Scrubbed(Nameable)' = Scrubbed(Nameable)
  BY <1>1, <1>3 DEF Scrubbed
<1>5. ReplyIs => ReplyIs'
  BY <1>4 DEF ReplyIs
<1>6. (NotedIs => NotedIs') /\ (OtherEnd => OtherEnd')
  BY <1>2, <1>3 DEF NotedIs, OtherEnd, Unnamed
<1>. QED
  BY <1>5, <1>6 DEF EndInv

\* What the assessment notes.
LEMMA AssessmentNotes ==
  ASSUME cell = NothingNoted, bug \in Option(Bugs), Granted => bug # {}
  PROVE  AssessmentNoted = IF Granted THEN Cell({"Served"}, bug, {}, 0, {})
                                      ELSE Cell({"Denied"}, bug, {}, 0, {})
<1>1. cell = Cell({}, {}, {}, 0, {})
  BY DEF NothingNoted, Cell
<1>2. ASSUME NEW verdict, NEW rule
      PROVE  Merge(cell, verdict, rule) = Cell({verdict}, rule, {}, 0, {})
  <2>1. Decides(cell, verdict)
    BY <1>1, CellFields DEF Decides
  <2>2. Merge(cell, verdict, rule)
          = [Cell({}, {}, {}, 0, {}) EXCEPT !.verdict = {verdict}, !.rule = rule]
    BY <1>1, <2>1 DEF Merge
  <2>. QED
    BY <2>2 DEF Cell
<1>3. bug # {} => {CHOOSE b \in bug : TRUE} = bug
  BY DEF Option
<1>. QED
  BY <1>2, <1>3 DEF AssessmentNoted, NoteVerdict, NoteVerdictRule

\* A refusal noted after it.
LEMMA RefusalNotes ==
  ASSUME NEW r
  PROVE  /\ \A verdict \in {"Denied", "Refused"} :
              NoteVerdict(Cell({"Served"}, r, {}, 0, {}), verdict) = Cell({verdict}, {}, {}, 0, {})
         /\ NoteVerdict(Cell({"Denied"}, r, {}, 0, {}), "Denied") = Cell({"Denied"}, r, {}, 0, {})
<1>1. ASSUME NEW verdict \in {"Denied", "Refused"}
      PROVE  NoteVerdict(Cell({"Served"}, r, {}, 0, {}), verdict) = Cell({verdict}, {}, {}, 0, {})
  <2>1. Decides(Cell({"Served"}, r, {}, 0, {}), verdict)
    BY Ranks, CellFields DEF Decides
  <2>. QED
    BY <2>1 DEF NoteVerdict, Merge, Cell
<1>2. ~Decides(Cell({"Denied"}, r, {}, 0, {}), "Denied")
  BY Ranks, CellFields DEF Decides
<1>3. r = {} => [Cell({"Denied"}, r, {}, 0, {}) EXCEPT !.rule = {}] = Cell({"Denied"}, r, {}, 0, {})
  BY DEF Cell
<1>4. Cell({"Denied"}, r, {}, 0, {}).rule = r
  BY CellFields
<1>. QED
  BY <1>1, <1>2, <1>3, <1>4 DEF NoteVerdict, Merge

\* What is left of a cell that was only decided.
LEMMA OnlyDecided ==
  ASSUME NEW c, NEW v, NEW r, c = Cell(v, r, {}, 0, {})
  PROVE  c.ids = {} /\ c.extra = 0 /\ c.rule = r
BY DEF Cell

LEMMA EndDecide ==
  ASSUME CourseInv, NotedInv, ThreadInv, EndInv, Decide
  PROVE  EndInv'
<1>1. cell = NothingNoted /\ bug \in Option(Bugs) /\ (Granted => bug # {}) /\ blob = {}
      /\ shown = <<>> /\ omitted = 0 /\ targets = Empty
  BY DEF NotedInv, ThreadInv, CourseInv, Decide, Granted
<1>2. /\ outcome' = IF ~Granted THEN "denied"
                    ELSE IF req.tool = "download_attachment" THEN Gate(CHOOSE f \in file : TRUE)
                    ELSE "none"
      /\ stage' = IF outcome' # "none" THEN "done"
                  ELSE IF req.tool = "download_attachment" THEN "data" ELSE "fetch"
      /\ cell' = OutcomeNoted(AssessmentNoted, outcome')
      /\ UNCHANGED <<policy, caller, now, req, bug, object, blob, shown, omitted, targets>>
  BY DEF Decide
<1>3. Granted' <=> Granted
  BY <1>2 DEF Granted, Judge
<1>4. outcome' \in {"denied", "size", "none"}
  BY <1>2 DEF Gate
<1>5. CASE outcome' = "none"
  <2>1. cell' = AssessmentNoted /\ Granted /\ stage' \in {"data", "fetch"}
    BY <1>2, <1>5 DEF OutcomeNoted
  <2>2. cell' = Cell({"Served"}, bug', {}, 0, {})
    BY <1>1, <1>2, <2>1, AssessmentNotes
  <2>. QED
    BY <2>1, <2>2 DEF EndInv
<1>6. CASE outcome' # "none"
  <2>1. /\ cell'.ids = {} /\ cell'.extra = 0
        /\ cell'.rule = IF Granted THEN {} ELSE bug
    <3>1. CASE Granted
      <4>1. AssessmentNoted = Cell({"Served"}, bug, {}, 0, {})
        BY <1>1, <3>1, AssessmentNotes
      <4>2. cell' = NoteVerdict(AssessmentNoted, "Denied")
        BY <1>2, <1>4, <1>6 DEF OutcomeNoted
      <4>3. cell' = Cell({"Denied"}, {}, {}, 0, {})
        BY <4>1, <4>2, RefusalNotes
      <4>. QED
        BY <3>1, <4>3, OnlyDecided
    <3>2. CASE ~Granted
      <4>1. AssessmentNoted = Cell({"Denied"}, bug, {}, 0, {})
        BY <1>1, <3>2, AssessmentNotes
      <4>2. cell' = NoteVerdict(AssessmentNoted, "Denied")
        BY <1>2, <3>2 DEF OutcomeNoted
      <4>3. cell' = Cell({"Denied"}, bug, {}, 0, {})
        BY <4>1, <4>2, RefusalNotes
      <4>. QED
        BY <3>2, <4>3, OnlyDecided
    <3>. QED
      BY <3>1, <3>2
  <2>2. stage' = "done" /\ outcome' \in {"denied", "size"} /\ (~Granted => outcome' = "denied")
    BY <1>2, <1>4, <1>6
  <2>3. OtherEnd'
    BY <1>1, <1>2, <1>3, <2>1, <2>2 DEF OtherEnd
  <2>. QED
    BY <2>2, <2>3 DEF EndInv
<1>. QED
  BY <1>5, <1>6

LEMMA EndData ==
  ASSUME CourseInv, ThreadInv, EndInv, NEW found \in Option(Files), FetchData(found)
  PROVE  EndInv'
<1>1. cell = Cell({"Served"}, bug, {}, 0, {}) /\ Granted
      /\ shown = <<>> /\ omitted = 0 /\ targets = Empty
  BY DEF EndInv, ThreadInv, CourseInv, FetchData
<1>2. /\ blob' = found /\ stage' = "done"
      /\ outcome' = IF found = {} THEN "denied" ELSE DataVerdict(CHOOSE f \in found : TRUE)
      /\ UNCHANGED <<policy, caller, now, req, bug, object, shown, omitted, targets>>
  BY DEF FetchData
<1>3. outcome' \in {"denied", "size", "no data", "served"}
  BY <1>2 DEF DataVerdict, Gate
<1>4. outcome' = "served" => found # {}
  BY <1>2
<1>5. \/ outcome' = "served" /\ cell' = NoteClientWindow(cell, "attachment_window")
      \/ cell' = OutcomeNoted(cell, outcome')
  BY DEF FetchData
<1>6. /\ cell'.ids = {} /\ cell'.extra = 0
      /\ cell'.rule = IF outcome' = "served" THEN bug ELSE {}
  <2>1. CASE cell' = OutcomeNoted(cell, outcome')
    <3>1. cell' = IF outcome' \in {"denied", "size"} THEN NoteVerdict(cell, "Denied")
                  ELSE IF outcome' = "no data" THEN NoteVerdict(cell, "Refused") ELSE cell
      BY <1>3, <2>1 DEF OutcomeNoted
    <3>2. cell' = IF outcome' \in {"denied", "size"} THEN Cell({"Denied"}, {}, {}, 0, {})
                  ELSE IF outcome' = "no data" THEN Cell({"Refused"}, {}, {}, 0, {}) ELSE cell
      BY <1>1, <3>1, RefusalNotes
    <3>3. outcome' = "served" => cell' = Cell({"Served"}, bug, {}, 0, {})
      BY <1>1, <3>2
    <3>4. outcome' # "served" => \E v : cell' = Cell(v, {}, {}, 0, {})
      BY <1>3, <3>2
    <3>. QED
      BY <3>3, <3>4, OnlyDecided
  <2>2. CASE outcome' = "served" /\ cell' = NoteClientWindow(cell, "attachment_window")
    <3>1. MergeKeepingRule(cell, "ServedFiltered") = Cell({"ServedFiltered"}, bug, {}, 0, {})
      BY <1>1, FilteredOnce
    <3>2. cell' = [Cell({"ServedFiltered"}, bug, {}, 0, {})
                     EXCEPT !.fields = @ \cup {"attachment_window"}]
      BY <2>2, <3>1 DEF NoteClientWindow
    <3>. QED
      BY <2>2, <3>2 DEF Cell
  <2>. QED
    BY <1>5, <2>1, <2>2
<1>7. Granted'
  BY <1>1, <1>2 DEF Granted, Judge
<1>8. OtherEnd'
  BY <1>1, <1>2, <1>3, <1>6, <1>7 DEF OtherEnd
<1>. QED
  BY <1>2, <1>4, <1>8 DEF EndInv

\* The places of a list.
LEMMA Places ==
  ASSUME NEW S, NEW list \in Seq(S)
  PROVE  /\ DOMAIN list \in SUBSET Nat /\ Len(list) \in Nat /\ DOMAIN list = 1 .. Len(list)
         /\ IsFiniteSet(DOMAIN list) /\ Cardinality(DOMAIN list) = Len(list)
<1>1. Len(list) \in Nat /\ DOMAIN list = 1 .. Len(list)
  OBVIOUS
<1>2. IsFiniteSet(1 .. Len(list)) /\ Cardinality(1 .. Len(list)) = Len(list)
  <2>1. 1 \in Int /\ Len(list) \in Int
    BY <1>1
  <2>2. Cardinality(1 .. Len(list)) = IF 1 > Len(list) THEN 0 ELSE Len(list) - 1 + 1
    BY <2>1, FS_Interval
  <2>. QED
    BY <1>1, <2>1, <2>2, FS_Interval, SMTT(30)
<1>. QED
  BY <1>1, <1>2

\* Some of them, and the others.
LEMMA SomePlaces ==
  ASSUME NEW S, NEW list \in Seq(S), NEW some \in SUBSET DOMAIN list
  PROVE  /\ some \in SUBSET Nat /\ IsFiniteSet(some) /\ Cardinality(some) \in Nat
         /\ Cardinality(DOMAIN list \ some) \in Nat
         /\ Len(list) - Cardinality(some) = Cardinality(DOMAIN list \ some)
         /\ some = {} <=> Cardinality(some) = 0
<1>1. /\ DOMAIN list \in SUBSET Nat /\ Len(list) \in Nat
      /\ IsFiniteSet(DOMAIN list) /\ Cardinality(DOMAIN list) = Len(list)
  BY Places
<1>2. /\ IsFiniteSet(some) /\ Cardinality(some) \in Nat
      /\ IsFiniteSet(DOMAIN list \ some) /\ Cardinality(DOMAIN list \ some) \in Nat
  BY <1>1, FS_Subset, FS_CardinalityType
<1>3. Cardinality(DOMAIN list \ some)
        = Cardinality(DOMAIN list) - Cardinality(DOMAIN list \cap some)
  BY <1>1, FS_Difference, <1>2
<1>4. DOMAIN list \cap some = some
  OBVIOUS
<1>5. some = {} <=> Cardinality(some) = 0
  BY <1>2, FS_EmptySet
<1>. QED
  BY <1>1, <1>2, <1>3, <1>4, <1>5

\* A thread is a list of items.
LEMMA ThreadsAreLists ==
  ASSUME NEW tool \in ViewTools \ {"download_attachment"}, NEW arrived \in Threads[tool]
  PROVE  /\ arrived \in Seq(Item)
         /\ \A i \in DOMAIN arrived :
              /\ arrived[i] \in Item
              /\ tool = "bug_history" => arrived[i].private = {}
              /\ \A part \in arrived[i].parts :
                   (part.field = "marker") <=> (tool \in {"bug_comments", "summarize_bug"})
<1>1. tool \in DOMAIN Threads /\ arrived \in Seq(Item)
  BY ThreadsAssumption
<1>2. \A i \in DOMAIN arrived :
        /\ tool = "bug_history" => arrived[i].private = {}
        /\ \A part \in arrived[i].parts :
             (part.field = "marker") <=> (tool \in {"bug_comments", "summarize_bug"})
  BY <1>1, ThreadsAssumption
<1>. QED
  BY <1>1, <1>2

LEMMA EndList ==
  ASSUME ThreadInv, EndInv, stage = "fetch", blob = {}, NEW arrived \in Threads["list_attachments"],
         req.tool = "list_attachments", thread' = arrived, ServeList(arrived),
         UNCHANGED <<policy, clock, caller, global, req, bug, targets, omitted, blob>>
  PROVE  EndInv'
<1>. DEFINE open == {i \in DOMAIN arrived : ~Hidden(arrived[i])}
            closed == {i \in DOMAIN arrived : Hidden(arrived[i])}
<1>1. arrived \in Seq(Item)
  BY ThreadsAreLists DEF ViewTools, NeedsView
<1>2. /\ Cardinality(open) \in Nat /\ Cardinality(closed) \in Nat
      /\ Len(arrived) - Cardinality(open) = Cardinality(closed)
  <2>1. closed = DOMAIN arrived \ open /\ open \in SUBSET DOMAIN arrived
    OBVIOUS
  <2>. HIDE DEF open, closed
  <2>. QED
    BY <1>1, <2>1, SomePlaces
<1>3. /\ open' = open /\ closed' = closed
      /\ open' = {i \in DOMAIN thread : ~Hidden(thread[i])}'
      /\ Unopened' = Cardinality(closed)
  BY DEF Hidden, PrivateAllowed, Unopened
<1>4. shown' = [n \in 1 .. Cardinality(open) |-> [at |-> InOrder(open)[n], parts |-> {}]]
  BY DEF ServeList, InOrder
<1>5. Scrubbed(Nameable)' = shown'
  BY <1>3, <1>4 DEF Scrubbed
<1>6. Len(shown') = Cardinality(open)
  BY <1>2, <1>4
<1>7. omitted = 0 /\ targets = Empty
  BY DEF ThreadInv
<1>8. ReplyIs'
  <2>1. DOMAIN targets = {}
    BY <1>7 DEF Empty
  <2>. QED
    BY <1>2, <1>5, <1>6, <1>7, <2>1 DEF ReplyIs
<1>9. NotedIs'
  <2>1. cell = Cell({"Served"}, bug, {}, 0, {})
    BY DEF EndInv
  <2>2. cell' = NoteSuppressedCount(cell, Cardinality(closed))
    BY <1>2, <1>6 DEF ServeList
  <2>3. cell' = NotesMade(Cardinality(closed), {}, 0)
    BY <2>2 DEF NotesMade, NoteSuppressed
  <2>4. /\ cell'.extra = Cardinality(closed) /\ cell'.ids = {}
        /\ cell'.rule = IF Cardinality(closed) = 0 THEN bug ELSE {}
        /\ cell'.verdict = IF Cardinality(closed) = 0 THEN {"Served"} ELSE {"ServedFiltered"}
    <3>. HIDE DEF closed
    <3>. QED
      BY <1>2, <2>1, <2>3, NotesOfReply
  <2>5. Unnamed' = {}
    BY DEF Unnamed
  <2>. QED
    BY <1>3, <1>7, <2>4, <2>5 DEF NotedIs
<1>10. stage' = "done" /\ outcome' = "served" /\ blob' = blob
  BY DEF ServeList
<1>. QED
  BY <1>8, <1>9, <1>10 DEF EndInv

-----------------------------------------------------------------------------
(* The items of a reply                                                    *)

\* What a window lets through: all of a list, or its first h and last t.
Ends(w, items, h, t) ==
  /\ h \in Nat /\ t \in Nat
  /\ Len(w) \in Nat /\ Len(w) <= Len(items)
  /\ Len(w) = Len(items) => w = items
  /\ \A n \in 1 .. Len(w) : \E k \in 1 .. Len(items) :
       w[n] = items[k] /\ (Len(w) < Len(items) => k <= h \/ k > Len(items) - t)
  /\ \A k \in 1 .. Len(items) :
       k <= h \/ k > Len(items) - t => \E n \in 1 .. Len(w) : w[n] = items[k]

LEMMA WindowIs ==
  ASSUME NEW S, NEW items \in Seq(S), NEW head \in Option(Lengths), NEW tail \in Option(Lengths)
  PROVE  /\ Window(items, head, tail) \in Seq(S)
         /\ Ends(Window(items, head, tail), items, Side(head), Side(tail))
<1>. PICK w : w = Window(items, head, tail)
  OBVIOUS
<1>1. ASSUME NEW o \in Option(Lengths) PROVE Side(o) \in Nat
  <2>1. CASE o = {}
    BY <2>1 DEF Side
  <2>2. CASE o # {}
    <3>1. PICK l \in Lengths : o = {l}
      BY <2>2 DEF Option
    <3>. QED
      BY <2>2, <3>1, LengthsAssumption DEF Side
  <2>. QED
    BY <2>1, <2>2
<1>. DEFINE h == Side(head)
            t == Side(tail)
            len == Len(items)
<1>2. h \in Nat /\ t \in Nat /\ len \in Nat
  BY <1>1
<1>3. w = IF (head = {} /\ tail = {}) \/ h + t >= len THEN items
          ELSE SubSeq(items, 1, h) \o SubSeq(items, len - t + 1, len)
  BY DEF Window
<1>. HIDE DEF h, t
<1>4. CASE w = items
  <2>1. \A n \in 1 .. Len(w) : w[n] = items[n]
    BY <1>4
  <2>. QED
    BY <1>2, <1>4, <2>1 DEF h, t, Ends
<1>5. CASE w # items
  <2>1. h + t < len /\ w = SubSeq(items, 1, h) \o SubSeq(items, len - t + 1, len)
    BY <1>2, <1>3, <1>5
  <2>2. /\ w \in Seq(S) /\ Len(w) = h + t
        /\ \A n \in 1 .. h + t : w[n] = IF n <= h THEN items[n] ELSE items[len - t + (n - h)]
    BY <1>2, <2>1, SMTT(30)
  <2>3. \A n \in 1 .. h + t : \E k \in 1 .. len : w[n] = items[k] /\ (k <= h \/ k > len - t)
    <3>. TAKE n \in 1 .. h + t
    <3>1. CASE n <= h
      <4>1. n \in 1 .. len
        BY <1>2, <2>1
      <4>. QED
        BY <2>2, <3>1, <4>1
    <3>2. CASE ~(n <= h)
      <4>1. (len - t + (n - h)) \in 1 .. len /\ (len - t + (n - h)) > len - t
        BY <1>2, <2>1, <3>2
      <4>. QED
        BY <2>2, <3>2, <4>1
    <3>. QED
      BY <3>1, <3>2
  <2>4. \A k \in 1 .. len : k <= h \/ k > len - t => \E n \in 1 .. h + t : w[n] = items[k]
    <3>. TAKE k \in 1 .. len
    <3>1. CASE k <= h
      <4>1. k \in 1 .. h + t
        BY <1>2, <3>1
      <4>. QED
        BY <2>2, <3>1, <4>1
    <3>2. CASE k > len - t /\ ~(k <= h)
      <4>1. /\ (k - (len - t) + h) \in 1 .. h + t /\ ~((k - (len - t) + h) <= h)
            /\ len - t + ((k - (len - t) + h) - h) = k
        BY <1>2, <2>1, <3>2
      <4>. QED
        BY <2>2, <4>1
    <3>. QED
      BY <3>1, <3>2
  <2>5. Len(w) = h + t /\ 1 .. Len(w) = 1 .. h + t /\ Len(w) < len
    BY <1>2, <2>1, <2>2
  <2>6. /\ \A n \in 1 .. Len(w) : \E k \in 1 .. len :
             w[n] = items[k] /\ (k <= h \/ k > len - t)
        /\ \A k \in 1 .. len : k <= h \/ k > len - t => \E n \in 1 .. Len(w) : w[n] = items[k]
    BY <2>3, <2>4, <2>5
  <2>7. w \in Seq(S) /\ Len(w) \in Nat /\ Len(w) <= len /\ Len(w) # len
    BY <1>2, <2>2, <2>5
  <2>. QED
    BY <1>2, <2>6, <2>7 DEF h, t, Ends
<1>. QED
  BY <1>4, <1>5

\* The items of the thread that may be told of when only the bugs in N may be
\* named, and what is left of each.
LeftOf(N, i) ==
  CASE req.tool = "bug_history" -> HistoryLeft(thread[i].parts, kinds, N)
    [] req.tool = "list_attachments" -> {}
    [] OTHER -> thread[i].parts

Told(N) ==
  {i \in DOMAIN thread :
     /\ ~Hidden(thread[i])
     /\ CASE req.tool = "bug_history" -> HistoryLeft(thread[i].parts, kinds, N) # {}
          [] req.tool = "list_attachments" -> TRUE
          [] OTHER -> CommentKept(thread[i].parts, N)}

Items(N) == {[at |-> i, parts |-> LeftOf(N, i)] : i \in Told(N)}

LEMMA ScrubbedIs ==
  ASSUME thread \in Seq(Item), NEW N
  PROVE  /\ Told(N) \in SUBSET Nat /\ IsFiniteSet(Told(N)) /\ Cardinality(Told(N)) \in Nat
         /\ Scrubbed(N) \in Seq(Items(N)) /\ Len(Scrubbed(N)) = Cardinality(Told(N))
         /\ \A n \in 1 .. Cardinality(Told(N)) :
              /\ Scrubbed(N)[n].at = InOrder(Told(N))[n]
              /\ Scrubbed(N)[n].parts = LeftOf(N, InOrder(Told(N))[n])
<1>1. Told(N) \in SUBSET DOMAIN thread
  BY DEF Told
<1>2. Told(N) \in SUBSET Nat /\ IsFiniteSet(Told(N)) /\ Cardinality(Told(N)) \in Nat
  BY <1>1, SomePlaces
<1>3. Scrubbed(N) = [n \in 1 .. Cardinality(Told(N)) |->
                       [at |-> InOrder(Told(N))[n], parts |-> LeftOf(N, InOrder(Told(N))[n])]]
  <2>1. CASE req.tool = "bug_history"
    <3>1. Told(N) = {i \in {i \in DOMAIN thread : ~Hidden(thread[i])} :
                       HistoryLeft(thread[i].parts, kinds, N) # {}}
      BY <2>1 DEF Told
    <3>. QED
      BY <2>1, <3>1 DEF Scrubbed, LeftOf
  <2>2. CASE req.tool = "list_attachments"
    <3>1. Told(N) = {i \in DOMAIN thread : ~Hidden(thread[i])}
      BY <2>2 DEF Told
    <3>. QED
      BY <2>2, <3>1 DEF Scrubbed, LeftOf
  <2>3. CASE req.tool \notin {"bug_history", "list_attachments"}
    <3>1. Told(N) = {i \in {i \in DOMAIN thread : ~Hidden(thread[i])} :
                       CommentKept(thread[i].parts, N)}
      BY <2>3 DEF Told
    <3>. QED
      BY <2>3, <3>1 DEF Scrubbed, LeftOf
  <2>. QED
    BY <2>1, <2>2, <2>3
<1>4. \A n \in 1 .. Cardinality(Told(N)) : InOrder(Told(N))[n] \in Told(N)
  BY <1>2, InOrderIsTheOrder
<1>5. \A n \in 1 .. Cardinality(Told(N)) :
        [at |-> InOrder(Told(N))[n], parts |-> LeftOf(N, InOrder(Told(N))[n])] \in Items(N)
  BY <1>4 DEF Items
<1>6. Scrubbed(N) \in [1 .. Cardinality(Told(N)) -> Items(N)]
  BY <1>3, <1>5
<1>7. ASSUME NEW S, NEW m \in Nat, NEW f \in [1 .. m -> S] PROVE f \in Seq(S) /\ Len(f) = m
  OBVIOUS
<1>8. \A n \in 1 .. Cardinality(Told(N)) :
        /\ Scrubbed(N)[n].at = InOrder(Told(N))[n]
        /\ Scrubbed(N)[n].parts = LeftOf(N, InOrder(Told(N))[n])
  BY <1>3
<1>. QED
  BY <1>2, <1>6, <1>7, <1>8

\* What Reply makes of the scrubbed list.
LEMMA ReplyItems ==
  ASSUME thread \in Seq(Item), NEW N, NEW w, NEW cut,
         w = Scrubbed(N) \/
           \E head, tail \in Option(Lengths) : w = Window(Scrubbed(N), head, tail),
         cut = Len(Scrubbed(N)) - Len(w)
  PROVE  /\ w \in Seq(Items(N)) /\ Len(w) \in Nat /\ cut \in Nat
         /\ Len(w) + cut = Cardinality(Told(N))
         /\ cut = 0 => w = Scrubbed(N)
<1>1. Scrubbed(N) \in Seq(Items(N)) /\ Len(Scrubbed(N)) = Cardinality(Told(N))
      /\ Cardinality(Told(N)) \in Nat
  BY ScrubbedIs
<1>2. /\ w \in Seq(Items(N)) /\ Len(w) \in Nat /\ Len(w) <= Len(Scrubbed(N))
      /\ Len(w) = Len(Scrubbed(N)) => w = Scrubbed(N)
  <2>1. CASE w = Scrubbed(N)
    BY <1>1, <2>1
  <2>2. CASE \E head, tail \in Option(Lengths) : w = Window(Scrubbed(N), head, tail)
    BY <1>1, <2>2, WindowIs DEF Ends
  <2>. QED
    BY <2>1, <2>2
<1>. QED
  BY <1>1, <1>2

LEMMA VisibleIsTold == Visible = Told(Nameable)
BY DEF Visible, Told

\* What the windows of a request are.
LEMMA WindowsOfRequest ==
  ASSUME req \in ViewRequests
  PROVE  req.head \in Option(Lengths) /\ req.tail \in Option(Lengths) /\ req.tool \in ViewTools
         /\ req.bug \in Bugs
BY ViewRequestsAssumption DEF ViewRequest

\* The items of a reply are those that may be told, each as the scrub left
\* it; a window keeps the first and the last of them.
LEMMA ReplyMembers ==
  ASSUME req \in ViewRequests, ReplyIs
  PROVE  /\ shown \in Seq(Items(Nameable)) /\ Len(shown) \in Nat /\ omitted \in Nat
         /\ Len(shown) + omitted = Cardinality(Visible)
         /\ \A n \in DOMAIN shown : /\ shown[n].at \in Visible
                                    /\ shown[n].parts = LeftOf(Nameable, shown[n].at)
         /\ omitted = 0 => \A i \in Visible : \E n \in DOMAIN shown : shown[n].at = i
         /\ omitted > 0 => \A i \in Visible :
              (\E n \in DOMAIN shown : shown[n].at = i) <=>
                \/ Cardinality({j \in Visible : j < i}) < Side(req.head)
                \/ Cardinality({j \in Visible : j > i}) < Side(req.tail)
<1>. DEFINE N == Nameable
            V == Visible
            all == Scrubbed(N)
            c == Cardinality(V)
<1>1. thread \in Seq(Item)
  BY WindowsOfRequest, ThreadsAreLists DEF ReplyIs
<1>2. /\ V = Told(N) /\ V \in SUBSET Nat /\ IsFiniteSet(V) /\ c \in Nat
      /\ all \in Seq(Items(N)) /\ Len(all) = c
      /\ \A n \in 1 .. c : all[n].at = InOrder(V)[n] /\ all[n].parts = LeftOf(N, InOrder(V)[n])
  BY <1>1, VisibleIsTold, ScrubbedIs
<1>3. /\ shown = IF req.tool \in {"summarize_bug", "list_attachments"} THEN all
                 ELSE Window(all, req.head, req.tail)
      /\ omitted = Len(all) - Len(shown)
  BY DEF ReplyIs
<1>. HIDE DEF N, V, all, c
<1>4. /\ shown \in Seq(Items(N)) /\ Len(shown) \in Nat /\ omitted \in Nat
      /\ Len(shown) + omitted = c /\ (omitted = 0 => shown = all)
  <2>1. shown = Scrubbed(N) \/
           \E head, tail \in Option(Lengths) : shown = Window(Scrubbed(N), head, tail)
    BY <1>3, WindowsOfRequest DEF all
  <2>2. omitted = Len(Scrubbed(N)) - Len(shown)
    BY <1>3 DEF all
  <2>. QED
    BY <1>1, <1>2, <2>1, <2>2, ReplyItems DEF all, c
<1>9. ASSUME shown = Window(all, req.head, req.tail)
      PROVE  Ends(shown, all, Side(req.head), Side(req.tail))
  <2>1. all \in Seq(Items(N))
    BY <1>2
  <2>2. req.head \in Option(Lengths) /\ req.tail \in Option(Lengths)
    BY WindowsOfRequest
  <2>. QED
    BY <1>9, <2>1, <2>2, WindowIs
<1>5. /\ \A n \in 1 .. c : InOrder(V)[n] \in V /\ Before(V, InOrder(V)[n]) = n - 1
      /\ \A i \in V : Before(V, i) + 1 \in 1 .. c /\ InOrder(V)[Before(V, i) + 1] = i
  BY <1>2, InOrderIsTheOrder DEF c
<1>6. ASSUME NEW n \in DOMAIN shown
      PROVE  /\ shown[n].at \in V /\ shown[n].parts = LeftOf(N, shown[n].at)
             /\ \E k \in 1 .. c : shown[n] = all[k]
  <2>1. \E k \in 1 .. c : shown[n] = all[k]
    <3>1. n \in 1 .. Len(shown)
      BY <1>4
    <3>2. CASE shown = all
      BY <1>2, <3>1, <3>2
    <3>3. CASE shown = Window(all, req.head, req.tail)
      BY <1>2, <1>9, <3>1, <3>3 DEF Ends
    <3>. QED
      BY <1>3, <3>2, <3>3
  <2>. QED
    BY <1>2, <1>5, <2>1
<1>7. ASSUME omitted = 0, NEW i \in V
      PROVE  \E n \in DOMAIN shown : shown[n].at = i
  <2>1. shown = all /\ DOMAIN shown = 1 .. c
    BY <1>2, <1>4, <1>7
  <2>. QED
    BY <1>2, <1>5, <2>1
<1>8. ASSUME omitted > 0, NEW i \in V
      PROVE  (\E n \in DOMAIN shown : shown[n].at = i) <=>
                \/ Cardinality({j \in V : j < i}) < Side(req.head)
                \/ Cardinality({j \in V : j > i}) < Side(req.tail)
  <2>. DEFINE m == Before(V, i)
              h == Side(req.head)
              t == Side(req.tail)
  <2>1. /\ m \in Nat /\ m < c
        /\ Cardinality({j \in V : j < i}) = m /\ Cardinality({j \in V : j > i}) = c - 1 - m
    BY <1>2, BeforeBounds DEF c, Before
  <2>2. shown = Window(all, req.head, req.tail)
    BY <1>3, <1>4, <1>8
  <2>3. /\ h \in Nat /\ t \in Nat
        /\ \A n \in 1 .. Len(shown) : \E k \in 1 .. c :
              shown[n] = all[k] /\ (k <= h \/ k > c - t)
        /\ \A k \in 1 .. c : k <= h \/ k > c - t => \E n \in 1 .. Len(shown) : shown[n] = all[k]
    <3>1. Len(shown) < Len(all)
      BY <1>2, <1>3, <1>4, <1>8
    <3>. QED
      BY <1>2, <1>9, <2>2, <3>1 DEF Ends
  <2>4. \A k \in 1 .. c : all[k].at = i => k = m + 1
    <3>. TAKE k \in 1 .. c
    <3>1. all[k].at = i => Before(V, i) = k - 1
      BY <1>2, <1>5
    <3>. QED
      BY <2>1, <3>1
  <2>5. m + 1 \in 1 .. c /\ all[m + 1].at = i
    BY <1>2, <1>5
  <2>. HIDE DEF m, h, t
  <2>6. (\E n \in DOMAIN shown : shown[n].at = i) <=> m + 1 <= h \/ m + 1 > c - t
    <3>1. DOMAIN shown = 1 .. Len(shown)
      BY <1>4
    <3>. QED
      BY <2>3, <2>4, <2>5, <3>1
  <2>7. (m + 1 <= h \/ m + 1 > c - t) <=> (m < h \/ c - 1 - m < t)
    BY <1>2, <2>1, <2>3
  <2>. QED
    BY <2>1, <2>6, <2>7 DEF h, t
<1>. QED
  BY <1>4, <1>6, <1>7, <1>8 DEF N, V, c

\* What the bugs that may be named are after disclosable() answered.
LEMMA EndDisclose ==
  ASSUME TypeOK, CourseInv, ThreadInv, EndInv, NEW got \in SUBSET Bugs, DiscloseThread(got)
  PROVE  EndInv'
<1>1. PICK blind \in Blinds :
        LET objects == [b \in got |-> Fetched(b, blind)]
            nameable == {b \in got : Allows(Judge(objects[b], clock), "summary")}
        IN  /\ targets' = objects
            /\ Reply(nameable)
            /\ cell' = ReplyNoted(ThreadIds \ nameable, omitted')
  BY DEF DiscloseThread
<1>. DEFINE objects == [b \in got |-> Fetched(b, blind)]
            N == {b \in got : Allows(Judge(objects[b], clock), "summary")}
<1>2. /\ stage = "disclose" /\ stage' = "done" /\ outcome' = "served"
      /\ got \subseteq Live
      /\ UNCHANGED <<policy, clock, caller, global, req, bug, thread, kinds, blob>>
  BY DEF DiscloseThread
<1>3. /\ req.tool \in ViewTools \ {"download_attachment", "list_attachments"}
      /\ thread \in Threads[req.tool] /\ blob = {} /\ cell = Cell({"Served"}, bug, {}, 0, {})
  BY <1>2, ViewRequestsAssumption DEF ThreadInv, EndInv, CourseInv, ViewRequest
<1>4. targets' = objects /\ \A b \in got : objects[b] \in Object
  BY <1>1, <1>2, FetchedIsObject DEF TypeOK
<1>5. Nameable' = N
  BY <1>2, <1>4 DEF Nameable, Judge
<1>6. Reply(N) /\ cell' = ReplyNoted(ThreadIds \ N, omitted')
  BY <1>1
<1>. HIDE DEF N, objects
<1>7. Scrubbed(Nameable)' = Scrubbed(N)
  BY <1>2, <1>5 DEF Scrubbed, Hidden, PrivateAllowed
<1>8. ReplyIs'
  <2>1. DOMAIN targets' \subseteq Bugs /\ \A b \in DOMAIN targets' : targets'[b] \in Object
    BY <1>4 DEF objects
  <2>2. /\ shown' = IF req.tool = "summarize_bug" THEN Scrubbed(N)
                    ELSE Window(Scrubbed(N), req.head, req.tail)
        /\ omitted' = Len(Scrubbed(N)) - Len(shown')
    BY <1>6 DEF Reply
  <2>. QED
    BY <1>2, <1>3, <1>7, <2>1, <2>2 DEF ReplyIs
<1>9. Unopened' = Unopened /\ ThreadIds' = ThreadIds
  BY <1>2 DEF Unopened, ThreadIds, NamesOf, Hidden, PrivateAllowed
<1>10. omitted' \in Nat
  <2>1. /\ shown' = IF req.tool = "summarize_bug" THEN Scrubbed(N)
                    ELSE Window(Scrubbed(N), req.head, req.tail)
        /\ omitted' = Len(Scrubbed(N)) - Len(shown')
    BY <1>6 DEF Reply
  <2>2. thread \in Seq(Item)
    BY <1>3, ThreadsAreLists
  <2>3. req.head \in Option(Lengths) /\ req.tail \in Option(Lengths)
    BY <1>2, WindowsOfRequest DEF ThreadInv
  <2>4. shown' = Scrubbed(N) \/
          \E head, tail \in Option(Lengths) : shown' = Window(Scrubbed(N), head, tail)
    BY <2>1, <2>3
  <2>. QED
    BY <2>1, <2>2, <2>4, ReplyItems
<1>11. Unopened \in Nat
  <2>1. thread \in Seq(Item)
    BY <1>3, ThreadsAreLists
  <2>2. {i \in DOMAIN thread : Hidden(thread[i])} \in SUBSET DOMAIN thread
    OBVIOUS
  <2>. QED
    BY <2>1, <2>2, SomePlaces DEF Unopened
<1>12. NotedIs'
  <2>. DEFINE hidden == ThreadIds \ N
  <2>1. Unnamed' = hidden
    BY <1>2, <1>3, <1>5, <1>9 DEF Unnamed
  <2>2. cell' = NotesMade(Unopened, hidden, omitted')
    BY <1>6 DEF ReplyNoted, NotesMade, Unopened
  <2>. HIDE DEF hidden
  <2>3. /\ cell'.extra = Unopened /\ cell'.ids = hidden
        /\ cell'.rule = IF Unopened = 0 /\ hidden = {} THEN bug ELSE {}
        /\ cell'.verdict = IF Unopened = 0 /\ hidden = {} /\ omitted' = 0
                             THEN {"Served"} ELSE {"ServedFiltered"}
    BY <1>3, <1>10, <1>11, <2>2, NotesOfReply
  <2>. QED
    BY <1>2, <1>9, <2>1, <2>3 DEF NotedIs
<1>. QED
  BY <1>2, <1>3, <1>8, <1>12 DEF EndInv

LEMMA EndStep ==
  /\ TypeOK /\ CourseInv /\ NotedInv /\ ThreadInv /\ EndInv
  /\ [ToolNext]_<<vars, viewVars>>
  => EndInv'
<1>. SUFFICES ASSUME TypeOK, CourseInv, NotedInv, ThreadInv, EndInv,
                     [ToolNext]_<<vars, viewVars>>
              PROVE  EndInv'
  OBVIOUS
<1>1. CASE stage = "done"
  BY <1>1, DoneStays, EndStays
<1>2. CASE UNCHANGED <<stage, cell, bug>> /\ stage # "done"
  BY <1>2 DEF EndInv
<1>3. CASE stage' \in {"meta", "caller", "assess", "decide", "idle"}
  BY <1>3 DEF EndInv
<1>4. CASE Decide
  BY <1>4, EndDecide
<1>5. ASSUME NEW found \in Option(Files), FetchData(found) PROVE EndInv'
  BY <1>5, EndData
<1>6. ASSUME NEW arrived, FetchThread(arrived) PROVE EndInv'
  <2>1. /\ stage = "fetch" /\ arrived \in Threads[req.tool] /\ thread' = arrived
        /\ UNCHANGED <<policy, clock, caller, global, req, bug, targets, omitted, blob>>
    BY <1>6 DEF FetchThread
  <2>2. blob = {}
    BY <2>1 DEF CourseInv
  <2>3. CASE req.tool = "list_attachments"
    <3>1. ServeList(arrived)
      BY <1>6, <2>3 DEF FetchThread
    <3>2. arrived \in Threads["list_attachments"]
      BY <2>1, <2>3
    <3>. QED
      BY <2>1, <2>2, <2>3, <3>1, <3>2, EndList
  <2>4. CASE req.tool # "list_attachments"
    <3>1. stage' \in {"kinds", "disclose"} /\ UNCHANGED cell
      BY <1>6, <2>4 DEF FetchThread
    <3>. QED
      BY <2>1, <3>1 DEF EndInv
  <2>. QED
    BY <2>3, <2>4
<1>7. CASE FetchFails
  <2>1. /\ stage = "fetch" /\ stage' = "done" /\ outcome' = "failed"
        /\ UNCHANGED <<shown, omitted, targets, cell, bug>>
    BY <1>7 DEF FetchFails
  <2>2. shown = <<>> /\ omitted = 0 /\ targets = Empty /\ cell = Cell({"Served"}, bug, {}, 0, {})
    BY <2>1 DEF ThreadInv, EndInv
  <2>3. cell.ids = {} /\ cell.extra = 0 /\ cell.rule = bug
    BY <2>2, OnlyDecided
  <2>. QED
    BY <2>1, <2>2, <2>3 DEF EndInv, OtherEnd
<1>8. ASSUME NEW learnt, LearnKinds(learnt) PROVE EndInv'
  BY <1>8 DEF LearnKinds, EndInv
<1>9. ASSUME NEW got \in SUBSET Bugs, DiscloseThread(got) PROVE EndInv'
  BY <1>9, EndDisclose
<1>. QED
  BY <1>1, <1>2, <1>3, <1>4, <1>5, <1>6, <1>7, <1>8, <1>9
     DEF ToolNext, ViewNext, ViewEdit, ViewTick, ViewBegin, FetchMeta, ViewCaller, ViewAssess,
         BugInfo, viewVars

LEMMA EndCorrect == ToolSpec => [](TypeOK /\ CourseInv /\ NotedInv /\ ThreadInv /\ EndInv)
<1>1. ViewInit => EndInv
  BY DEF ViewInit, EndInv
<1>. QED
  BY <1>1, EndStep, ThreadsArrive, PTL DEF ToolSpec

\* What a request and its reply are once a thread was served.
LEMMA ServedReply ==
  ASSUME TypeOK, CourseInv, NotedInv, ThreadInv, EndInv, outcome = "served", blob = {}
  PROVE  stage = "done" /\ req \in ViewRequests /\ ReplyIs /\ NotedIs
<1>1. stage = "done"
  BY DEF CourseInv
<1>. QED
  BY <1>1 DEF ThreadInv, EndInv

\* A window and its count range over the items the client may see, and it
\* omits only the middle (I14), for every thread and every window.
THEOREM WindowCorrect == ToolSpec => []ReplyTellsOnlyTheVisible
<1>1. TypeOK /\ CourseInv /\ NotedInv /\ ThreadInv /\ EndInv => ReplyTellsOnlyTheVisible
  BY ServedReply, ReplyMembers DEF ReplyTellsOnlyTheVisible
<1>. QED
  BY <1>1, EndCorrect, PTL

-----------------------------------------------------------------------------
(* What a reply shows                                                      *)

\* How a part names bugs, field by field.
LEMMA KindOfField ==
  ASSUME NEW k, NEW field
  PROVE  /\ field = "url" => LinkKind(field, k) = "url"
         /\ field = "list" => LinkKind(field, k) = "list"
         /\ field = "marker" => LinkKind(field, k) = "marker"
         /\ field = "plain" => LinkKind(field, k) = "none"
         /\ field \in CustomFields =>
              LinkKind(field, k) = CASE KindRead(field, k) = "BugId" -> "strict"
                                     [] KindRead(field, k) = "BugList" -> "list"
                                     [] KindRead(field, k) = "Unknown" -> "lenient"
                                     [] OTHER -> "none"
<1>1. field \in CustomFields => field \notin {"list", "url", "plain", "marker"}
  BY FieldsAssumption
<1>2. field = "plain" => field \notin CustomFields
  BY FieldsAssumption
<1>. QED
  BY <1>1, <1>2 DEF LinkKind

\* A part that names bugs in Bugzilla is read as one that does, but for the
\* limits of Misread.
LEMMA NamingIsSeen ==
  ASSUME KindsFit, NEW part, NamesBugs(part), ~Misread(part)
  PROVE  /\ LinkKind(part.field, kinds) # "none"
         /\ LinkKind(part.field, kinds) = "lenient" =>
              \E piece \in part.pieces : part.pieces = {piece}
<1>1. CASE part.field \in {"list", "url", "marker"}
  BY <1>1, KindOfField
<1>2. CASE part.field \in CustomFields
  <2>1. KindRead(part.field, kinds) \in Kinds \cup {"Unknown"}
    BY <1>2, FieldKindsAssumption DEF KindsFit, KindRead, Kinds
  <2>2. /\ KindRead(part.field, kinds) # "Other"
        /\ KindRead(part.field, kinds) = "Unknown" =>
             \E piece \in part.pieces : part.pieces = {piece}
    BY <1>2 DEF Misread
  <2>. QED
    BY <1>2, <2>1, <2>2, KindOfField DEF Kinds
<1>. QED
  BY <1>1, <1>2 DEF NamesBugs

\* What is left of it names only what may be named.
LEMMA LeftNamesTheNameable ==
  ASSUME NEW part, NEW k, NEW N, LinkKind(part.field, k) # "none",
         LinkKind(part.field, k) = "lenient" =>
           \E piece \in PiecesLeft(part, k, N) : PiecesLeft(part, k, N) = {piece}
  PROVE  PiecesLeft(part, k, N) \cap Bugs \subseteq N
<1>1. CASE LinkKind(part.field, k) = "lenient"
  <2>. SUFFICES ASSUME NEW b \in Bugs, PiecesLeft(part, k, N) = {b} PROVE b \in N
    BY <1>1
  <2>1. part.pieces = {b} /\ ScalarId(part) \subseteq N
    BY <1>1 DEF PiecesLeft
  <2>. QED
    BY <2>1 DEF ScalarId
<1>2. CASE LinkKind(part.field, k) = "strict"
  BY <1>2 DEF PiecesLeft, ScalarId
<1>3. CASE LinkKind(part.field, k) \notin {"lenient", "strict"}
  BY <1>3, ForeignAssumption DEF PiecesLeft
<1>. QED
  BY <1>1, <1>2, <1>3

\* A part of a history entry after the scrub is one of before it.
LEMMA HistoryLeftIs ==
  ASSUME NEW parts \in SUBSET Part, NEW k, NEW N, NEW part \in HistoryLeft(parts, k, N)
  PROVE  \E p \in parts : /\ part.field = p.field /\ part.pieces = PiecesLeft(p, k, N)
                          /\ LinkKind(p.field, k) = "none" \/ PiecesLeft(p, k, N) # {}
<1>1. PICK p \in parts : /\ part = [p EXCEPT !.pieces = PiecesLeft(p, k, N)]
                         /\ LinkKind(p.field, k) = "none" \/ PiecesLeft(p, k, N) # {}
  BY DEF HistoryLeft
<1>2. p \in Part
  BY <1>1
<1>. QED
  BY <1>1, <1>2 DEF Part

\* A bug the policy lets be named is one the client is entitled to.
LEMMA NameableIsEntitled ==
  ASSUME TypeOK, ReplyIs
  PROVE  Nameable \subseteq MayName
<1>1. /\ policy \in Policies /\ caller \in BOOLEAN /\ clock \in Int
      /\ \A b \in DOMAIN targets : targets[b] \in Object
  BY DEF TypeOK, ReplyIs
<1>. QED
  BY <1>1, JudgeWithinEntitled DEF Nameable, MayName

LEMMA ShownNamesTheNameable ==
  ASSUME KindsFit, req \in ViewRequests, ReplyIs, NEW part \in ShownParts, NamesBugs(part),
         ~Misread(part)
  PROVE  part.pieces \cap Bugs \subseteq Nameable
<1>1. PICK n \in DOMAIN shown : part \in shown[n].parts
  BY DEF ShownParts
<1>. DEFINE i == shown[n].at
            N == Nameable
<1>2. i \in Visible /\ part \in LeftOf(N, i)
  BY <1>1, ReplyMembers
<1>3. /\ req.tool \in ViewTools \ {"download_attachment"}
      /\ thread \in Seq(Item) /\ i \in DOMAIN thread /\ thread[i].parts \in SUBSET Part
  <2>1. req.tool \in ViewTools \ {"download_attachment"} /\ thread \in Threads[req.tool]
    BY WindowsOfRequest DEF ReplyIs
  <2>2. thread \in Seq(Item) /\ i \in DOMAIN thread
    BY <1>2, <2>1, ThreadsAreLists DEF Visible
  <2>3. thread[i] \in Item
    BY <2>2
  <2>. QED
    BY <2>1, <2>2, <2>3 DEF Item
<1>4. CASE req.tool = "bug_history"
  <2>1. part \in HistoryLeft(thread[i].parts, kinds, N)
    BY <1>2, <1>4 DEF LeftOf
  <2>2. PICK p \in thread[i].parts : part.field = p.field /\ part.pieces = PiecesLeft(p, kinds, N)
    BY <1>3, <2>1, HistoryLeftIs
  <2>3. /\ LinkKind(p.field, kinds) # "none"
        /\ LinkKind(p.field, kinds) = "lenient" =>
             \E piece \in PiecesLeft(p, kinds, N) : PiecesLeft(p, kinds, N) = {piece}
    BY <2>2, NamingIsSeen
  <2>. QED
    BY <2>2, <2>3, LeftNamesTheNameable
<1>5. CASE req.tool = "list_attachments"
  BY <1>2, <1>5 DEF LeftOf
<1>6. CASE req.tool \notin {"bug_history", "list_attachments"}
  <2>1. part \in thread[i].parts /\ CommentKept(thread[i].parts, N)
    BY <1>2, <1>6 DEF LeftOf, Visible
  <2>. QED
    BY <2>1 DEF CommentKept
<1>. QED
  BY <1>4, <1>5, <1>6

\* A call that serves no thread shows none.
LEMMA NothingElseShown ==
  ASSUME ThreadInv, EndInv, CourseInv, ~(outcome = "served" /\ blob = {})
  PROVE  shown = <<>> /\ DOMAIN shown = {} /\ ShownParts = {}
<1>1. shown = <<>>
  BY DEF ThreadInv, EndInv, OtherEnd
<1>. QED
  BY <1>1 DEF ShownParts

\* What is served of a thread is granted: the thread, the private in it (I5)
\* and, but for the two limits of Misread, every bug it names (I2), for every
\* policy, thread and answer of the field cache and of disclosable().
THEOREM EntitledCorrect == ToolSpec => []ViewIsEntitled
<1>1. ASSUME TypeOK, CourseInv, NotedInv, ThreadInv, EndInv PROVE ViewIsEntitled
  <2>1. ThreadIsGranted /\ FileIsAllowed
    BY <1>1, GrantedIsEntitled DEF CourseInv, ThreadIsGranted
  <2>2. CASE outcome = "served" /\ blob = {}
    <3>1. req \in ViewRequests /\ ReplyIs /\ KindsFit
      BY <1>1, <2>2, ServedReply DEF ThreadInv
    <3>2. \A n \in DOMAIN shown : ~Hidden(thread[shown[n].at])
      BY <3>1, ReplyMembers DEF Visible
    <3>3. PrivateIsTwiceOptedIn
      BY <2>1, <3>2 DEF PrivateIsTwiceOptedIn, Hidden
    <3>4. ThreadNamesTheNameable
      BY <1>1, <3>1, NameableIsEntitled, ShownNamesTheNameable DEF ThreadNamesTheNameable
    <3>. QED
      BY <2>1, <3>3, <3>4 DEF ViewIsEntitled
  <2>3. CASE ~(outcome = "served" /\ blob = {})
    <3>1. DOMAIN shown = {} /\ ShownParts = {}
      BY <1>1, <2>3, NothingElseShown
    <3>. QED
      BY <2>1, <3>1 DEF ViewIsEntitled, PrivateIsTwiceOptedIn, ThreadNamesTheNameable
  <2>. QED
    BY <2>2, <2>3
<1>. QED
  BY <1>1, EndCorrect, PTL

-----------------------------------------------------------------------------
(* What the audit record says                                              *)

LEMMA RuleDecides ==
  ASSUME CourseInv, NotedInv, ThreadInv, EndInv
  PROVE  RuleIsTheDecidingOne
<1>. SUFFICES ASSUME stage = "done"
              PROVE  (cell.rule # {}) <=> \/ outcome = "denied" /\ bug # {} /\ ~Granted
                                          \/ outcome = "failed"
                                          \/ outcome = "served" /\ cell.ids = {} /\ cell.extra = 0
  BY DEF RuleIsTheDecidingOne
<1>1. outcome # "denied" => bug # {}
  BY DEF CourseInv, NotedInv, Granted
<1>2. outcome \in {"denied", "size", "no data", "failed", "served"}
  BY DEF NotedInv
<1>3. CASE outcome = "served" /\ blob = {}
  BY <1>1, <1>3 DEF EndInv, NotedIs
<1>4. CASE ~(outcome = "served" /\ blob = {})
  <2>1. OtherEnd
    BY <1>4 DEF EndInv
  <2>. QED
    BY <1>1, <1>2, <2>1 DEF OtherEnd
<1>. QED
  BY <1>3, <1>4

LEMMA TalliesDiffer ==
  ASSUME TypeOK, CourseInv, NotedInv, ThreadInv, EndInv
  PROVE  TalliesAreDisjoint
<1>1. CASE outcome = "served" /\ blob = {}
  <2>1. req \in ViewRequests /\ ReplyIs /\ NotedIs /\ KindsFit
    BY <1>1, ServedReply DEF ThreadInv
  <2>2. cell.extra = Cardinality({i \in DOMAIN thread : thread[i].private = {TRUE}
                                                        /\ ~PrivateAllowed})
    BY <2>1 DEF NotedIs, Unopened, Hidden
  <2>3. ASSUME NEW b \in cell.ids
        PROVE  /\ \E i \in DOMAIN thread : /\ thread[i].private # {TRUE} \/ PrivateAllowed
                                           /\ \E part \in thread[i].parts : b \in part.pieces
               /\ \A part \in ShownParts : NamesBugs(part) /\ ~Misread(part) => b \notin part.pieces
    <3>1. b \in ThreadIds /\ b \notin Nameable
      BY <2>1, <2>3 DEF NotedIs, Unnamed
    <3>2. PICK i \in DOMAIN thread : ~Hidden(thread[i]) /\
                                     \E part \in thread[i].parts : b \in NamesOf(part, kinds)
      BY <3>1 DEF ThreadIds
    <3>3. b \in Bugs /\ \E part \in thread[i].parts : b \in part.pieces
      BY <3>2 DEF NamesOf, ScalarId
    <3>. QED
      BY <2>1, <3>1, <3>2, <3>3, ShownNamesTheNameable DEF Hidden
  <2>. QED
    BY <2>2, <2>3 DEF TalliesAreDisjoint
<1>2. CASE outcome = "served" /\ blob # {}
  <2>1. cell.ids = {}
    BY <1>2 DEF CourseInv, EndInv, OtherEnd
  <2>. QED
    BY <1>2, <2>1 DEF TalliesAreDisjoint
<1>3. CASE outcome # "served"
  BY <1>3 DEF TalliesAreDisjoint
<1>. QED
  BY <1>1, <1>2, <1>3

\* Where every bug a part names may be named, the scrub leaves it as it would
\* with no bug hidden.
LEMMA NamedIsLeft ==
  ASSUME NEW part, NEW k, NEW N \in SUBSET Bugs, NamesOf(part, k) \subseteq N
  PROVE  PiecesLeft(part, k, N) = PiecesLeft(part, k, Bugs)
<1>1. ScalarId(part) \subseteq Bugs
  BY DEF ScalarId
<1>. QED
  BY <1>1 DEF PiecesLeft, NamesOf

\* Where one does not, no part is left that reads as it would with none hidden.
LEMMA HiddenIsNotLeft ==
  ASSUME NEW p, NEW q, NEW k, NEW N \in SUBSET Bugs, p.field = q.field,
         PiecesLeft(p, k, Bugs) = PiecesLeft(q, k, N), NEW b \in NamesOf(p, k)
  PROVE  b \in N
<1>. DEFINE kind == LinkKind(p.field, k)
<1>1. kind = LinkKind(q.field, k)
  OBVIOUS
<1>2. CASE kind = "none"
  BY <1>2 DEF NamesOf
<1>3. CASE kind \in {"strict", "lenient"}
  <2>1. b \in Bugs /\ p.pieces = {b}
    BY <1>3 DEF NamesOf, ScalarId
  <2>2. ScalarId(p) = {b}
    BY <2>1 DEF ScalarId
  <2>3. PiecesLeft(p, k, Bugs) = {b}
    BY <1>3, <2>1, <2>2 DEF PiecesLeft
  <2>4. CASE kind = "strict"
    <3>1. q.pieces = {b} /\ ScalarId(q) \cap N # {}
      BY <1>1, <2>3, <2>4 DEF PiecesLeft
    <3>. QED
      BY <3>1 DEF ScalarId
  <2>5. CASE kind = "lenient"
    <3>1. q.pieces = {b} /\ ScalarId(q) \subseteq N
      BY <1>1, <2>3, <2>5 DEF PiecesLeft
    <3>. QED
      BY <2>1, <3>1 DEF ScalarId
  <2>. QED
    BY <1>3, <2>4, <2>5
<1>4. CASE kind \notin {"none", "strict", "lenient"}
  <2>1. b \in p.pieces /\ b \in Bugs
    BY <1>4 DEF NamesOf
  <2>2. b \in PiecesLeft(q, k, N)
    BY <1>4, <2>1 DEF PiecesLeft
  <2>. QED
    BY <1>1, <1>4, <2>1, <2>2, ForeignAssumption DEF PiecesLeft
<1>. QED
  BY <1>2, <1>3, <1>4

\* The scrub leaves an entry as it would with no bug hidden exactly when every
\* bug the entry names may be named.
LEMMA LeftAsTold ==
  ASSUME NEW parts \in SUBSET Part, NEW k, NEW N \in SUBSET Bugs
  PROVE  HistoryLeft(parts, k, N) = HistoryLeft(parts, k, Bugs)
           <=> \A part \in parts : NamesOf(part, k) \subseteq N
<1>1. ASSUME HistoryLeft(parts, k, N) = HistoryLeft(parts, k, Bugs),
             NEW p \in parts, NEW b \in NamesOf(p, k)
      PROVE  b \in N
  <2>. DEFINE whole == [p EXCEPT !.pieces = PiecesLeft(p, k, Bugs)]
  <2>1. b \in PiecesLeft(p, k, Bugs)
    BY <1>1, ForeignAssumption DEF PiecesLeft, NamesOf, ScalarId
  <2>2. whole \in HistoryLeft(parts, k, N)
    BY <1>1, <2>1 DEF HistoryLeft
  <2>3. p \in Part
    BY <1>1
  <2>4. whole.field = p.field /\ whole.pieces = PiecesLeft(p, k, Bugs)
    BY <2>3 DEF Part
  <2>. HIDE DEF whole
  <2>5. PICK q \in parts : whole.field = q.field /\ whole.pieces = PiecesLeft(q, k, N)
    BY <2>2, HistoryLeftIs
  <2>6. p.field = q.field /\ PiecesLeft(p, k, Bugs) = PiecesLeft(q, k, N)
    BY <2>4, <2>5
  <2>. QED
    BY <1>1, <2>6, HiddenIsNotLeft
<1>2. ASSUME \A part \in parts : NamesOf(part, k) \subseteq N
      PROVE  HistoryLeft(parts, k, N) = HistoryLeft(parts, k, Bugs)
  <2>1. \A part \in parts : PiecesLeft(part, k, N) = PiecesLeft(part, k, Bugs)
    BY <1>2, NamedIsLeft
  <2>. QED
    BY <2>1 DEF HistoryLeft
<1>. QED
  BY <1>1, <1>2

\* A bug a part names is left of it when no bug is hidden, and so is all that
\* is left when some are.
LEMMA LeftWithNoneHidden ==
  ASSUME NEW part, NEW k, NEW N \in SUBSET Bugs
  PROVE  /\ PiecesLeft(part, k, N) \subseteq PiecesLeft(part, k, Bugs)
         /\ NamesOf(part, k) \subseteq PiecesLeft(part, k, Bugs)
<1>1. PiecesLeft(part, k, N) \subseteq PiecesLeft(part, k, Bugs)
  BY DEF PiecesLeft, ScalarId
<1>2. NamesOf(part, k) \subseteq PiecesLeft(part, k, Bugs)
  BY ForeignAssumption DEF PiecesLeft, NamesOf, ScalarId
<1>. QED
  BY <1>1, <1>2

\* So an entry that says nothing to anyone names nothing and is not told of.
LEMMA NothingSaid ==
  ASSUME NEW parts, NEW k, HistoryLeft(parts, k, Bugs) = {}, NEW N \in SUBSET Bugs
  PROVE  HistoryLeft(parts, k, N) = {} /\ \A part \in parts : NamesOf(part, k) = {}
<1>1. \A part \in parts : LinkKind(part.field, k) # "none" /\ PiecesLeft(part, k, Bugs) = {}
  <2>. SUFFICES ASSUME NEW part \in parts,
                       LinkKind(part.field, k) = "none" \/ PiecesLeft(part, k, Bugs) # {}
                PROVE  FALSE
    OBVIOUS
  <2>1. [part EXCEPT !.pieces = PiecesLeft(part, k, Bugs)] \in HistoryLeft(parts, k, Bugs)
    BY DEF HistoryLeft
  <2>. QED
    BY <2>1
<1>2. \A part \in parts : PiecesLeft(part, k, N) = {} /\ NamesOf(part, k) = {}
  BY <1>1, LeftWithNoneHidden
<1>. QED
  BY <1>1, <1>2 DEF HistoryLeft

\* A reply shorter than what may be told of leaves some of that out.
LEMMA SomeUnshown ==
  ASSUME req \in ViewRequests, ReplyIs, omitted # 0
  PROVE  \E i \in Visible : \A n \in DOMAIN shown : shown[n].at # i
<1>. SUFFICES ASSUME \A i \in Visible : \E n \in DOMAIN shown : shown[n].at = i PROVE FALSE
  OBVIOUS
<1>. DEFINE at == [n \in 1 .. Len(shown) |-> shown[n].at]
<1>1. /\ shown \in Seq(Items(Nameable)) /\ Len(shown) \in Nat /\ omitted \in Nat
      /\ Len(shown) + omitted = Cardinality(Visible)
      /\ \A n \in DOMAIN shown : shown[n].at \in Visible
  BY ReplyMembers
<1>2. DOMAIN shown = 1 .. Len(shown)
  BY <1>1
<1>3. at \in Surjection(1 .. Len(shown), Visible)
  BY <1>1, <1>2 DEF Surjection
<1>4. ExistsSurjection(1 .. Len(shown), Visible)
  BY <1>3 DEF ExistsSurjection
<1>5. Cardinality(Visible) <= Len(shown)
  BY <1>1, <1>4, FS_SurjCardinalityBound
<1>. QED
  BY <1>1, <1>5

\* What is known of each item of a thread that was served.
LEMMA ItemsServed ==
  ASSUME req \in ViewRequests, ReplyIs
  PROVE  /\ req.tool \in ViewTools \ {"download_attachment"}
         /\ thread \in Seq(Item) /\ Nameable \in SUBSET Bugs
         /\ \A i \in DOMAIN thread :
              /\ thread[i].parts \in SUBSET Part
              /\ req.tool = "bug_history" => thread[i].private = {}
              /\ req.tool \notin {"bug_history", "list_attachments"} =>
                   \A part \in thread[i].parts : NamesOf(part, kinds) = part.pieces \cap Bugs
<1>1. req.tool \in ViewTools \ {"download_attachment"} /\ thread \in Threads[req.tool]
  BY WindowsOfRequest DEF ReplyIs
<1>2. /\ thread \in Seq(Item)
      /\ \A i \in DOMAIN thread :
           /\ thread[i] \in Item
           /\ req.tool = "bug_history" => thread[i].private = {}
           /\ \A part \in thread[i].parts :
                (part.field = "marker") <=> (req.tool \in {"bug_comments", "summarize_bug"})
  BY <1>1, ThreadsAreLists
<1>3. ViewTools = {"bug_comments", "summarize_bug", "bug_history", "list_attachments",
                   "download_attachment"}
  BY DEF ViewTools, NeedsView
<1>4. ASSUME req.tool \notin {"bug_history", "list_attachments"}, NEW i \in DOMAIN thread,
             NEW part \in thread[i].parts
      PROVE  NamesOf(part, kinds) = part.pieces \cap Bugs
  <2>1. part.field = "marker"
    BY <1>1, <1>2, <1>3, <1>4
  <2>. QED
    BY <2>1, KindOfField DEF NamesOf
<1>5. Nameable \in SUBSET Bugs
  BY DEF Nameable, ReplyIs
<1>. QED
  BY <1>1, <1>2, <1>4, <1>5 DEF Item

\* A reply from which nothing is missing was not touched.
LEMMA ServedIsUntouched ==
  ASSUME req \in ViewRequests, ReplyIs, Unopened = 0, Unnamed = {}, omitted = 0
  PROVE  Untouched
<1>. SUFFICES ASSUME NEW i \in DOMAIN thread, ~SaysNothing(i)
              PROVE  \E n \in DOMAIN shown :
                       /\ shown[n].at = i
                       /\ req.tool = "list_attachments" \/ shown[n].parts = ToldAll(i)
  BY DEF Untouched
<1>. DEFINE N == Nameable
            parts == thread[i].parts
<1>1. ~Hidden(thread[i])
  <2>1. {j \in DOMAIN thread : Hidden(thread[j])} \in SUBSET DOMAIN thread
    OBVIOUS
  <2>2. {j \in DOMAIN thread : Hidden(thread[j])} = {}
    BY <2>1, ItemsServed, SomePlaces DEF Unopened
  <2>. QED
    BY <2>2
<1>2. req.tool # "list_attachments" => \A part \in parts : NamesOf(part, kinds) \subseteq N
  <2>. SUFFICES ASSUME req.tool # "list_attachments", NEW part \in parts
                PROVE  NamesOf(part, kinds) \subseteq N
    OBVIOUS
  <2>1. ThreadIds \subseteq N
    BY DEF Unnamed
  <2>2. NamesOf(part, kinds) \subseteq ThreadIds
    BY <1>1 DEF ThreadIds
  <2>. QED
    BY <2>1, <2>2
<1>3. req.tool = "bug_history" => HistoryLeft(parts, kinds, N) # {}
  <2>. SUFFICES ASSUME req.tool = "bug_history" PROVE HistoryLeft(parts, kinds, N) # {}
    OBVIOUS
  <2>1. \A part \in parts : PiecesLeft(part, kinds, N) = PiecesLeft(part, kinds, Bugs)
    BY <1>2, ItemsServed, NamedIsLeft
  <2>2. HistoryLeft(parts, kinds, Bugs) # {}
    BY DEF SaysNothing, ToldAll
  <2>. QED
    BY <2>1, <2>2 DEF HistoryLeft
<1>4. req.tool \notin {"bug_history", "list_attachments"} => CommentKept(parts, N)
  BY <1>2, ItemsServed DEF CommentKept
<1>5. i \in Visible
  BY <1>1, <1>3, <1>4 DEF Visible
<1>6. PICK n \in DOMAIN shown : shown[n].at = i /\ shown[n].parts = LeftOf(N, i)
  BY <1>5, ReplyMembers
<1>7. CASE req.tool = "bug_history"
  <2>1. shown[n].parts = HistoryLeft(parts, kinds, N)
    BY <1>6, <1>7 DEF LeftOf
  <2>2. HistoryLeft(parts, kinds, N) = HistoryLeft(parts, kinds, Bugs)
    BY <1>2, <1>7, ItemsServed, LeftAsTold
  <2>. QED
    BY <1>6, <1>7, <2>1, <2>2 DEF ToldAll
<1>8. CASE req.tool # "bug_history"
  BY <1>6, <1>8 DEF LeftOf, ToldAll
<1>. QED
  BY <1>7, <1>8

\* And one that was not lacks nothing.
LEMMA UntouchedIsServed ==
  ASSUME req \in ViewRequests, ReplyIs, Untouched
  PROVE  Unopened = 0 /\ Unnamed = {} /\ omitted = 0
<1>. DEFINE N == Nameable
<1>1. ASSUME NEW i \in DOMAIN thread
      PROVE  \/ SaysNothing(i)
             \/ /\ i \in Visible
                /\ \E n \in DOMAIN shown :
                     /\ shown[n].at = i /\ shown[n].parts = LeftOf(N, i)
                     /\ req.tool = "list_attachments" \/ shown[n].parts = ToldAll(i)
  BY ReplyMembers DEF Untouched
<1>2. Unopened = 0
  <2>1. ASSUME NEW i \in DOMAIN thread PROVE ~Hidden(thread[i])
    <3>1. CASE SaysNothing(i)
      BY <3>1, ItemsServed DEF SaysNothing, Hidden
    <3>2. CASE i \in Visible
      BY <3>2 DEF Visible
    <3>. QED
      BY <1>1, <3>1, <3>2
  <2>2. {i \in DOMAIN thread : Hidden(thread[i])} = {}
    BY <2>1
  <2>. QED
    BY <2>2, FS_EmptySet DEF Unopened
<1>3. Unnamed = {}
  <2>. SUFFICES ASSUME req.tool # "list_attachments", NEW b \in ThreadIds PROVE b \in N
    BY DEF Unnamed
  <2>1. PICK i \in DOMAIN thread : \E part \in thread[i].parts : b \in NamesOf(part, kinds)
    BY DEF ThreadIds
  <2>2. PICK part \in thread[i].parts : b \in NamesOf(part, kinds)
    BY <2>1
  <2>3. CASE SaysNothing(i)
    BY <2>2, <2>3, ItemsServed, NothingSaid DEF SaysNothing, ToldAll
  <2>4. CASE ~SaysNothing(i)
    <3>1. i \in Visible /\ LeftOf(N, i) = ToldAll(i)
      BY <1>1, <2>4
    <3>2. CASE req.tool = "bug_history"
      <4>1. HistoryLeft(thread[i].parts, kinds, N)
              = HistoryLeft(thread[i].parts, kinds, Bugs)
        BY <3>1, <3>2 DEF LeftOf, ToldAll
      <4>2. NamesOf(part, kinds) \subseteq N
        BY <4>1, ItemsServed, LeftAsTold
      <4>. QED
        BY <2>2, <4>2
    <3>3. CASE req.tool # "bug_history"
      <4>1. CommentKept(thread[i].parts, N)
        BY <3>1, <3>3 DEF Visible
      <4>. QED
        BY <2>2, <3>3, <4>1, ItemsServed DEF CommentKept
    <3>. QED
      BY <3>2, <3>3
  <2>. QED
    BY <2>3, <2>4
<1>4. omitted = 0
  <2>. SUFFICES ASSUME omitted # 0 PROVE FALSE
    OBVIOUS
  <2>1. PICK i \in Visible : \A n \in DOMAIN shown : shown[n].at # i
    BY SomeUnshown
  <2>2. i \in DOMAIN thread /\ SaysNothing(i)
    BY <1>1, <2>1 DEF Visible
  <2>3. req.tool = "bug_history" /\ HistoryLeft(thread[i].parts, kinds, Bugs) = {}
    BY <2>2 DEF SaysNothing, ToldAll
  <2>4. HistoryLeft(thread[i].parts, kinds, N) # {}
    BY <2>1, <2>3 DEF Visible
  <2>. QED
    BY <2>3, <2>4, ItemsServed, NothingSaid
<1>. QED
  BY <1>2, <1>3, <1>4

\* Of everything noted of a call, the verdict left is what happened.
LEMMA VerdictIsSo ==
  ASSUME TypeOK, CourseInv, NotedInv, ThreadInv, EndInv, RefusalIsRecorded
  PROVE  VerdictIsWhatHappened
<1>. SUFFICES ASSUME outcome = "served", blob = {}
              PROVE  (cell.verdict = {"Served"}) <=> Untouched
  BY DEF VerdictIsWhatHappened
<1>1. req \in ViewRequests /\ ReplyIs /\ NotedIs
  BY ServedReply
<1>2. (cell.verdict = {"Served"}) <=> (Unopened = 0 /\ Unnamed = {} /\ omitted = 0)
  BY <1>1 DEF NotedIs
<1>. QED
  BY <1>1, <1>2, ServedIsUntouched, UntouchedIsServed


-----------------------------------------------------------------------------
(* Folding a set                                                           *)

\* The member of a set FoldSet takes first.
Pick(s) == CHOOSE x \in s : TRUE

\* A set that holds 0, and with every number the next, holds them all.
LEMMA SetInduction ==
  ASSUME NEW S, 0 \in S, \A n \in Nat : n \in S => n + 1 \in S
  PROVE  Nat \subseteq S
<1>. SUFFICES ASSUME Nat \ S # {} PROVE FALSE
  OBVIOUS
<1>1. PICK x \in Nat \ S : \A y \in Nat \ S : ~(<<y, x>> \in OpToRel(<, Nat))
  BY NatLessThanWellFounded, WFMin
<1>2. \A y \in Nat \ S : ~(y < x)
  BY <1>1 DEF OpToRel
<1>3. x # 0 /\ x - 1 \in Nat /\ x - 1 \in S
  BY <1>2
<1>. QED
  BY <1>3

\* The subsets of D no larger than n.
Layer(D, n) == {s \in SUBSET D : Cardinality(s) <= n}

LEMMA LayersOf ==
  ASSUME NEW D, IsFiniteSet(D)
  PROVE  /\ \A s \in SUBSET D : /\ IsFiniteSet(s) /\ Cardinality(s) \in Nat
                                /\ Cardinality(s) = 0 <=> s = {}
                                /\ s # {} => /\ Pick(s) \in s /\ s \ {Pick(s)} \in SUBSET D
                                             /\ Cardinality(s \ {Pick(s)}) = Cardinality(s) - 1
         /\ Layer(D, 0) = {{}}
         /\ SUBSET D = Layer(D, Cardinality(D)) /\ Cardinality(D) \in Nat
<1>1. ASSUME NEW s \in SUBSET D
      PROVE  /\ IsFiniteSet(s) /\ Cardinality(s) \in Nat /\ Cardinality(s) <= Cardinality(D)
             /\ Cardinality(s) = 0 <=> s = {}
             /\ s # {} => /\ Pick(s) \in s /\ s \ {Pick(s)} \in SUBSET D
                          /\ Cardinality(s \ {Pick(s)}) = Cardinality(s) - 1
  <2>1. IsFiniteSet(s) /\ Cardinality(s) <= Cardinality(D)
    BY FS_Subset
  <2>2. Cardinality(s) \in Nat /\ (Cardinality(s) = 0 <=> s = {})
    BY <2>1, FS_CardinalityType, FS_EmptySet
  <2>3. s # {} => Pick(s) \in s
    BY DEF Pick
  <2>. QED
    BY <2>1, <2>2, <2>3, FS_RemoveElement
<1>2. Cardinality(D) \in Nat
  BY FS_CardinalityType
<1>3. Layer(D, 0) = {{}}
  <2>1. ASSUME NEW s \in SUBSET D PROVE Cardinality(s) <= 0 <=> s = {}
    <3>1. Cardinality(s) \in Nat /\ (Cardinality(s) = 0 <=> s = {})
      BY <1>1
    <3>. HIDE <1>1
    <3>. QED
      BY <3>1
  <2>. QED
    BY <2>1 DEF Layer
<1>. QED
  BY <1>1, <1>2, <1>3 DEF Layer

\* What holds of the empty set, and of a set when it does of the set without
\* the member taken first, holds of every subset of a finite set.
LEMMA SubsetInduction ==
  ASSUME NEW D, IsFiniteSet(D), NEW Q, {} \in Q,
         \A s \in SUBSET D : s # {} /\ s \ {Pick(s)} \in Q => s \in Q
  PROVE  SUBSET D \subseteq Q
<1>. DEFINE S == {n \in Nat : Layer(D, n) \subseteq Q}
<1>1. 0 \in S
  <2>1. Layer(D, 0) = {{}}
    BY LayersOf
  <2>2. Layer(D, 0) \subseteq Q
    BY <2>1
  <2>. QED
    BY <2>2
<1>2. ASSUME NEW n \in Nat, n \in S PROVE n + 1 \in S
  <2>. SUFFICES ASSUME NEW s \in Layer(D, n + 1) PROVE s \in Q
    OBVIOUS
  <2>1. s \in SUBSET D /\ Cardinality(s) <= n + 1 /\ Cardinality(s) \in Nat
    BY LayersOf DEF Layer
  <2>2. CASE s # {}
    <3>1. Cardinality(s \ {Pick(s)}) <= n /\ s \ {Pick(s)} \in SUBSET D
      BY <2>1, <2>2, LayersOf
    <3>2. s \ {Pick(s)} \in Q
      BY <1>2, <3>1 DEF Layer
    <3>. QED
      BY <2>1, <2>2, <3>2
  <2>. QED
    BY <2>2
<1>3. Nat \subseteq S
  <2>. HIDE DEF S
  <2>. QED
    BY <1>1, <1>2, SetInduction
<1>4. Cardinality(D) \in S
  BY <1>3, LayersOf
<1>. QED
  BY <1>4, LayersOf

\* g folds h over the sets of a family.
Folds(g, family, h, base) ==
  g = [s \in family |-> IF s = {} THEN base ELSE h[Pick(s)][g[s \ {Pick(s)}]]]

\* Every fold of a function over a finite set has a value.
LEMMA FoldExists ==
  ASSUME NEW D, IsFiniteSet(D), NEW C, NEW h \in [D -> [C -> C]], NEW base \in C
  PROVE  \E g \in [SUBSET D -> C] : Folds(g, SUBSET D, h, base)
<1>. DEFINE S == {n \in Nat : \E g \in [Layer(D, n) -> C] : Folds(g, Layer(D, n), h, base)}
<1>1. 0 \in S
  <2>. DEFINE g == [s \in {{}} |-> base]
  <2>1. g \in [Layer(D, 0) -> C] /\ Folds(g, Layer(D, 0), h, base)
    BY LayersOf DEF Folds
  <2>. QED
    BY <2>1
<1>2. ASSUME NEW n \in Nat, n \in S PROVE n + 1 \in S
  <2>1. PICK f \in [Layer(D, n) -> C] : Folds(f, Layer(D, n), h, base)
    BY <1>2
  <2>. DEFINE g == [s \in Layer(D, n + 1) |->
                      IF s = {} THEN base ELSE h[Pick(s)][f[s \ {Pick(s)}]]]
  <2>2. \A s \in Layer(D, n + 1) : s # {} =>
          /\ Pick(s) \in D /\ s \ {Pick(s)} \in Layer(D, n)
          /\ s \ {Pick(s)} \in Layer(D, n + 1)
    <3>. SUFFICES ASSUME NEW s \in Layer(D, n + 1), s # {}
                  PROVE  /\ Pick(s) \in D /\ s \ {Pick(s)} \in Layer(D, n)
                         /\ s \ {Pick(s)} \in Layer(D, n + 1)
      OBVIOUS
    <3>1. s \in SUBSET D /\ Cardinality(s) <= n + 1
      BY DEF Layer
    <3>2. /\ Pick(s) \in s /\ s \ {Pick(s)} \in SUBSET D /\ Cardinality(s) \in Nat
          /\ Cardinality(s \ {Pick(s)}) = Cardinality(s) - 1
      BY <3>1, LayersOf
    <3>3. Cardinality(s \ {Pick(s)}) <= n /\ Cardinality(s \ {Pick(s)}) <= n + 1
      BY <3>1, <3>2
    <3>. QED
      BY <3>1, <3>2, <3>3 DEF Layer
  <2>3. ASSUME NEW s \in Layer(D, n) PROVE s \in Layer(D, n + 1) /\ g[s] = f[s]
    <3>1. s \in SUBSET D /\ Cardinality(s) <= n /\ Cardinality(s) \in Nat
      BY LayersOf DEF Layer
    <3>2. s \in Layer(D, n + 1)
      BY <3>1 DEF Layer
    <3>3. f[s] = IF s = {} THEN base ELSE h[Pick(s)][f[s \ {Pick(s)}]]
      BY <2>1 DEF Folds
    <3>. QED
      BY <3>2, <3>3
  <2>4. \A s \in Layer(D, n + 1) : g[s] \in C
    BY <2>1, <2>2
  <2>5. \A s \in Layer(D, n + 1) :
          g[s] = IF s = {} THEN base ELSE h[Pick(s)][g[s \ {Pick(s)}]]
    BY <2>2, <2>3
  <2>6. g \in [Layer(D, n + 1) -> C] /\ Folds(g, Layer(D, n + 1), h, base)
    <3>1. g \in [Layer(D, n + 1) -> C]
      BY <2>4
    <3>2. g = [s \in Layer(D, n + 1) |-> IF s = {} THEN base ELSE h[Pick(s)][g[s \ {Pick(s)}]]]
      BY <2>5
    <3>. HIDE DEF g
    <3>. QED
      BY <3>1, <3>2 DEF Folds
  <2>. HIDE DEF g
  <2>. QED
    BY <2>6
<1>3. Nat \subseteq S
  <2>. HIDE DEF S
  <2>. QED
    BY <1>1, <1>2, SetInduction
<1>4. PICK g \in [Layer(D, Cardinality(D)) -> C] : Folds(g, Layer(D, Cardinality(D)), h, base)
  BY <1>3, LayersOf
<1>5. SUBSET D = Layer(D, Cardinality(D))
  BY LayersOf
<1>. QED
  BY <1>4, <1>5


-----------------------------------------------------------------------------
(* The record of a bug_info call                                           *)

\* The cells the notes of bug_info pass through.
InfoCells ==
  [verdict : SUBSET Verdicts, rule : SUBSET Bugs, ids : {{}}, extra : {0},
   fields : SUBSET {"summary_view"}, scan : {{}}]

LEMMA InfoMerge ==
  ASSUME NEW c \in InfoCells, NEW verdict \in Verdicts, NEW rule \in SUBSET Bugs
  PROVE  /\ Merge(c, verdict, rule) \in InfoCells
         /\ Merge(c, verdict, rule).rule \in {c.rule, rule}
         /\ Merge(c, verdict, rule).verdict
              = IF Decides(c, verdict) THEN {verdict} ELSE c.verdict
         /\ Decides(c, verdict) => Merge(c, verdict, rule).rule = rule
         /\ [c EXCEPT !.fields = @ \cup {"summary_view"}] \in InfoCells
         /\ [c EXCEPT !.fields = @ \cup {"summary_view"}].verdict = c.verdict
         /\ [c EXCEPT !.fields = @ \cup {"summary_view"}].rule = c.rule
BY DEF Merge, InfoCells

\* What a verdict noted over those before it decides.
LEMMA WhatDecides ==
  ASSUME NEW c, NEW verdict \in Verdicts
  PROVE  /\ c.verdict = {} => Decides(c, verdict)
         /\ c.verdict = {verdict} => ~Decides(c, verdict)
         /\ c.verdict = {"ServedFiltered"} => ~Decides(c, "Served")
         /\ c.verdict = {"Served"} => Decides(c, "ServedFiltered")
         /\ c.verdict \in {{"Served"}, {"ServedFiltered"}} => Decides(c, "Denied")
         /\ c.verdict = {"Denied"} => ~Decides(c, "ServedFiltered")
<1>1. \A v \in Verdicts : Rank(v) \in Nat
  BY DEF Rank, Verdicts
<1>2. /\ ~(Rank(verdict) > Rank(verdict)) /\ ~(Rank("Served") > Rank("ServedFiltered"))
      /\ ~(Rank("ServedFiltered") > Rank("Denied"))
      /\ Rank("ServedFiltered") > Rank("Served")
      /\ Rank("Denied") > Rank("Served") /\ Rank("Denied") > Rank("ServedFiltered")
  <2>1. \A n \in Nat : ~(n > n)
    OBVIOUS
  <2>2. ~(Rank(verdict) > Rank(verdict))
    BY <1>1, <2>1
  <2>3. /\ ~(Rank("Served") > Rank("ServedFiltered"))
        /\ ~(Rank("ServedFiltered") > Rank("Denied"))
        /\ Rank("ServedFiltered") > Rank("Served")
        /\ Rank("Denied") > Rank("Served") /\ Rank("Denied") > Rank("ServedFiltered")
    BY DEF Rank
  <2>. QED
    BY <2>2, <2>3
<1>. QED
  BY <1>2 DEF Decides

\* What the notes of the bugs in s leave, when those served short are some.
ServedSoFar(s, c) ==
  /\ c \in InfoCells /\ c.rule \subseteq s
  /\ c.verdict = IF s = {} THEN {}
                 ELSE IF \E b \in s : served'[b].view = "summary" THEN {"ServedFiltered"}
                 ELSE {"Served"}

LEMMA ServedStepNoted ==
  ASSUME NEW s \in SUBSET Bugs, NEW b \in s, NEW c, ServedSoFar(s \ {b}, c)
  PROVE  ServedNoted(b, c) \in InfoCells /\ ServedSoFar(s, ServedNoted(b, c))
<1>. DEFINE rule == IF Assessed(b) # {} THEN {b} ELSE {}
<1>0. /\ c \in InfoCells /\ c.rule \subseteq s /\ rule \in SUBSET Bugs /\ rule \subseteq s
      /\ "Served" \in Verdicts /\ "ServedFiltered" \in Verdicts
  BY DEF ServedSoFar, Verdicts
<1>1. CASE served'[b].view = "summary"
  <2>. DEFINE merged == Merge(c, "ServedFiltered", rule)
              noted == Merge(merged, "ServedFiltered", {})
  <2>1. ServedNoted(b, c) = [noted EXCEPT !.fields = @ \cup {"summary_view"}]
    BY <1>1 DEF ServedNoted, NoteRedacted, NoteVerdict
  <2>2. c.verdict \in {{}, {"Served"}, {"ServedFiltered"}}
    BY DEF ServedSoFar
  <2>3. merged \in InfoCells /\ merged.rule \subseteq s /\ merged.verdict = {"ServedFiltered"}
    <3>. HIDE DEF rule
    <3>1. /\ merged \in InfoCells /\ merged.rule \in {c.rule, rule}
          /\ merged.verdict = IF Decides(c, "ServedFiltered") THEN {"ServedFiltered"} ELSE c.verdict
      BY <1>0, InfoMerge, ZenonT(30)
    <3>2. Decides(c, "ServedFiltered") <=> c.verdict # {"ServedFiltered"}
      BY <1>0, <2>2, WhatDecides
    <3>. HIDE DEF merged
    <3>. QED
      BY <1>0, <3>1, <3>2
  <2>. HIDE DEF merged
  <2>4. noted \in InfoCells /\ noted.rule \subseteq s /\ noted.verdict = {"ServedFiltered"}
    BY <1>0, <2>3, InfoMerge, WhatDecides, ZenonT(30)
  <2>. HIDE DEF noted
  <2>5. /\ ServedNoted(b, c) \in InfoCells /\ ServedNoted(b, c).rule \subseteq s
        /\ ServedNoted(b, c).verdict = {"ServedFiltered"}
    BY <1>0, <2>1, <2>4, InfoMerge
  <2>. QED
    BY <1>1, <2>5 DEF ServedSoFar
<1>2. CASE served'[b].view # "summary"
  <2>1. ServedNoted(b, c) = Merge(c, "Served", rule)
    BY <1>2 DEF ServedNoted
  <2>. HIDE DEF rule
  <2>2. /\ Merge(c, "Served", rule) \in InfoCells
        /\ Merge(c, "Served", rule).rule \in {c.rule, rule}
        /\ Merge(c, "Served", rule).verdict = IF Decides(c, "Served") THEN {"Served"} ELSE c.verdict
    BY <1>0, InfoMerge, ZenonT(30)
  <2>3. Decides(c, "Served") <=> c.verdict = {}
    BY <1>0, WhatDecides DEF ServedSoFar
  <2>4. ServedNoted(b, c) \in InfoCells /\ ServedNoted(b, c).rule \subseteq s
    BY <1>0, <2>1, <2>2
  <2>5. ServedNoted(b, c).verdict = IF c.verdict = {} THEN {"Served"} ELSE c.verdict
    BY <2>1, <2>2, <2>3
  <2>6. ServedNoted(b, c).verdict = IF \E x \in s : served'[x].view = "summary"
                                      THEN {"ServedFiltered"} ELSE {"Served"}
    BY <1>2, <2>5 DEF ServedSoFar
  <2>. QED
    BY <2>4, <2>6 DEF ServedSoFar
<1>. QED
  BY <1>1, <1>2


LEMMA NotedTypes ==
  ASSUME NEW b \in Bugs, NEW c \in InfoCells
  PROVE  ServedNoted(b, c) \in InfoCells /\ RestrictedNoted(b, c) \in InfoCells
<1>. DEFINE rule == IF Assessed(b) # {} THEN {b} ELSE {}
            other == IF Assessed(b) = {} THEN {b} ELSE {}
            verdict == IF served'[b].view = "summary" THEN "ServedFiltered" ELSE "Served"
            merged == Merge(c, verdict, rule)
            again == Merge(merged, "ServedFiltered", {})
<1>1. /\ rule \in SUBSET Bugs /\ other \in SUBSET Bugs
      /\ verdict \in Verdicts /\ "ServedFiltered" \in Verdicts /\ "Denied" \in Verdicts
  BY DEF Verdicts
<1>2. /\ ServedNoted(b, c) = IF served'[b].view = "summary"
                               THEN [again EXCEPT !.fields = @ \cup {"summary_view"}] ELSE merged
      /\ RestrictedNoted(b, c) = Merge(c, "Denied", other)
  BY DEF ServedNoted, RestrictedNoted, NoteRedacted, NoteVerdict
<1>. HIDE DEF rule, other, verdict
<1>3. merged \in InfoCells /\ Merge(c, "Denied", other) \in InfoCells
  BY <1>1, InfoMerge
<1>. HIDE DEF merged
<1>4. again \in InfoCells
  BY <1>1, <1>3, InfoMerge
<1>. HIDE DEF again
<1>5. [again EXCEPT !.fields = @ \cup {"summary_view"}] \in InfoCells
  BY <1>1, <1>4, InfoMerge
<1>. QED
  BY <1>2, <1>3, <1>5

\* What is left once the bugs in s are noted as withheld.
DeniedSoFar(s, base, c) ==
  /\ c \in InfoCells
  /\ s = {} => c = base
  /\ s # {} => c.verdict = {"Denied"} /\ c.rule \subseteq s

LEMMA DeniedStepNoted ==
  ASSUME NEW s \in SUBSET Bugs, NEW b \in s, NEW base, NEW c,
         base.verdict \in {{}, {"Served"}, {"ServedFiltered"}}, DeniedSoFar(s \ {b}, base, c)
  PROVE  DeniedSoFar(s, base, RestrictedNoted(b, c))
<1>. DEFINE rule == IF Assessed(b) = {} THEN {b} ELSE {}
<1>1. c \in InfoCells /\ rule \in SUBSET Bugs /\ rule \subseteq s /\ "Denied" \in Verdicts
  BY DEF DeniedSoFar, Verdicts
<1>2. RestrictedNoted(b, c) = Merge(c, "Denied", rule)
  BY DEF RestrictedNoted
<1>. HIDE DEF rule
<1>3. /\ Merge(c, "Denied", rule) \in InfoCells
      /\ Merge(c, "Denied", rule).rule \in {c.rule, rule}
      /\ Merge(c, "Denied", rule).verdict = IF Decides(c, "Denied") THEN {"Denied"} ELSE c.verdict
      /\ Decides(c, "Denied") => Merge(c, "Denied", rule).rule = rule
  BY <1>1, InfoMerge, ZenonT(30)
<1>4. CASE s \ {b} = {}
  <2>1. c.verdict \in {{}, {"Served"}, {"ServedFiltered"}}
    BY <1>4 DEF DeniedSoFar
  <2>2. Decides(c, "Denied")
    BY <1>1, <2>1, WhatDecides
  <2>. QED
    BY <1>1, <1>2, <1>3, <2>2 DEF DeniedSoFar
<1>5. CASE s \ {b} # {}
  <2>1. c.verdict = {"Denied"} /\ c.rule \subseteq s
    BY <1>5 DEF DeniedSoFar
  <2>. QED
    BY <1>1, <1>2, <1>3, <2>1 DEF DeniedSoFar
<1>. QED
  BY <1>4, <1>5

\* The notes of the served bugs, in whatever order they are made.
LEMMA ServedFold ==
  ASSUME NEW D \in SUBSET Bugs, cell \in InfoCells, cell.verdict = {}, cell.rule = {}
  PROVE  ServedSoFar(D, FoldSet(ServedNoted, cell, D))
<1>1. IsFiniteSet(D)
  BY BugsAssumption, FS_Subset
<1>. DEFINE Is(g) == g = [s \in SUBSET D |-> IF s = {} THEN cell
                                             ELSE ServedNoted(Pick(s), g[s \ {Pick(s)}])]
            h == [b \in D |-> [c \in InfoCells |-> ServedNoted(b, c)]]
<1>2. FoldSet(ServedNoted, cell, D) = (CHOOSE g : Is(g))[D]
  BY DEF FoldSet, MapThenFoldSet, Pick
<1>3. h \in [D -> [InfoCells -> InfoCells]]
  BY NotedTypes
<1>4. PICK g \in [SUBSET D -> InfoCells] : Folds(g, SUBSET D, h, cell)
  <2>. HIDE DEF h
  <2>. QED
    BY <1>1, <1>3, FoldExists
<1>5. \A s \in SUBSET D : s # {} => Pick(s) \in s /\ s \ {Pick(s)} \in SUBSET D
  BY <1>1, LayersOf
<1>6. Is(g)
  <2>1. g = [s \in SUBSET D |-> IF s = {} THEN cell ELSE h[Pick(s)][g[s \ {Pick(s)}]]]
    BY <1>4 DEF Folds
  <2>2. \A s \in SUBSET D : s # {} =>
          h[Pick(s)][g[s \ {Pick(s)}]] = ServedNoted(Pick(s), g[s \ {Pick(s)}])
    BY <1>4, <1>5
  <2>. HIDE DEF h
  <2>. QED
    BY <2>1, <2>2
<1>7. PICK f : f = (CHOOSE z : Is(z))
  OBVIOUS
<1>8. Is(f)
  <2>. HIDE DEF Is
  <2>. QED
    BY <1>6, <1>7
<1>9. \A s \in SUBSET D : f[s] = IF s = {} THEN cell ELSE ServedNoted(Pick(s), f[s \ {Pick(s)}])
  BY <1>8
<1>. HIDE DEF Is
<1>. DEFINE Q == {s \in SUBSET D : ServedSoFar(s, f[s])}
<1>10. {} \in Q
  BY <1>9 DEF ServedSoFar
<1>11. ASSUME NEW s \in SUBSET D, s # {}, s \ {Pick(s)} \in Q PROVE s \in Q
  <2>1. ServedSoFar(s, ServedNoted(Pick(s), f[s \ {Pick(s)}]))
    BY <1>5, <1>11, ServedStepNoted
  <2>. QED
    BY <1>9, <1>11, <2>1
<1>12. D \in Q
  <2>. HIDE DEF Q
  <2>1. SUBSET D \subseteq Q
    BY <1>1, <1>10, <1>11, SubsetInduction
  <2>. QED
    BY <2>1
<1>. QED
  BY <1>2, <1>7, <1>12


\* The notes of the withheld bugs, in whatever order.
LEMMA DeniedFold ==
  ASSUME NEW D \in SUBSET Bugs, NEW base \in InfoCells,
         base.verdict \in {{}, {"Served"}, {"ServedFiltered"}}
  PROVE  DeniedSoFar(D, base, FoldSet(RestrictedNoted, base, D))
<1>1. IsFiniteSet(D)
  BY BugsAssumption, FS_Subset
<1>. DEFINE Is(g) == g = [s \in SUBSET D |-> IF s = {} THEN base
                                             ELSE RestrictedNoted(Pick(s), g[s \ {Pick(s)}])]
            h == [b \in D |-> [c \in InfoCells |-> RestrictedNoted(b, c)]]
<1>2. FoldSet(RestrictedNoted, base, D) = (CHOOSE g : Is(g))[D]
  BY DEF FoldSet, MapThenFoldSet, Pick
<1>3. h \in [D -> [InfoCells -> InfoCells]]
  BY NotedTypes
<1>4. PICK g \in [SUBSET D -> InfoCells] : Folds(g, SUBSET D, h, base)
  <2>. HIDE DEF h
  <2>. QED
    BY <1>1, <1>3, FoldExists
<1>5. \A s \in SUBSET D : s # {} => Pick(s) \in s /\ s \ {Pick(s)} \in SUBSET D
  BY <1>1, LayersOf
<1>6. Is(g)
  <2>1. g = [s \in SUBSET D |-> IF s = {} THEN base ELSE h[Pick(s)][g[s \ {Pick(s)}]]]
    BY <1>4 DEF Folds
  <2>2. \A s \in SUBSET D : s # {} =>
          h[Pick(s)][g[s \ {Pick(s)}]] = RestrictedNoted(Pick(s), g[s \ {Pick(s)}])
    BY <1>4, <1>5
  <2>. HIDE DEF h
  <2>. QED
    BY <2>1, <2>2
<1>7. PICK f : f = (CHOOSE z : Is(z))
  OBVIOUS
<1>8. Is(f)
  <2>. HIDE DEF Is
  <2>. QED
    BY <1>6, <1>7
<1>9. \A s \in SUBSET D : f[s] = IF s = {} THEN base
                               ELSE RestrictedNoted(Pick(s), f[s \ {Pick(s)}])
  BY <1>8
<1>. HIDE DEF Is
<1>. DEFINE Q == {s \in SUBSET D : DeniedSoFar(s, base, f[s])}
<1>10. {} \in Q
  BY <1>9 DEF DeniedSoFar
<1>11. ASSUME NEW s \in SUBSET D, s # {}, s \ {Pick(s)} \in Q PROVE s \in Q
  <2>1. DeniedSoFar(s, base, RestrictedNoted(Pick(s), f[s \ {Pick(s)}]))
    BY <1>5, <1>11, DeniedStepNoted
  <2>. QED
    BY <1>9, <1>11, <2>1
<1>12. D \in Q
  <2>. HIDE DEF Q
  <2>1. SUBSET D \subseteq Q
    BY <1>1, <1>10, <1>11, SubsetInduction
  <2>. QED
    BY <2>1
<1>. QED
  BY <1>2, <1>7, <1>12


\* What bug_info has noted: nothing until it assembles its answer, then what
\* became of each requested bug, and at the end the links it hides too.
AnswerNoted ==
  /\ ids # {} /\ cell \in InfoCells
  /\ cell.verdict = {IF ids # DOMAIN served THEN "Denied"
                     ELSE IF \E b \in ids : served[b].view = "summary" THEN "ServedFiltered"
                     ELSE "Served"}
  /\ cell.verdict = {"Denied"} => cell.rule \subseteq ids \ DOMAIN served

InfoInv ==
  /\ phase \in {"idle", "caller", "assess", "body", "assemble"} /\ stage = "idle" =>
       cell = NothingNoted
  /\ phase \in {"caller", "assess", "body", "assemble"} => ids # {}
  /\ phase = "refused" => cell = Cell({"Refused"}, {}, {}, 0, {})
  /\ phase = "disclose" => AnswerNoted
  /\ phase = "answered" => BugInfoRecordIsTrue /\ cell.extra = 0 /\ cell.ids \cup cell.rule \subseteq Bugs

LEMMA InfoAssemble ==
  ASSUME TypeOK, cell = NothingNoted, ids # {}, Assemble, cell' = BugInfoNoted
  PROVE  AnswerNoted'
<1>. DEFINE D == DOMAIN served'
            base == FoldSet(ServedNoted, cell, D)
            all == FoldSet(RestrictedNoted, base, ids \ D)
<1>1. phase = "assemble" /\ phase' = "disclose" /\ ids' = ids /\ D \subseteq ids /\ ids \subseteq Bugs
  BY DEF Assemble, TypeOK
<1>2. cell' = all
  BY <1>1 DEF BugInfoNoted
<1>3. cell \in InfoCells /\ cell.verdict = {} /\ cell.rule = {}
  BY DEF NothingNoted, InfoCells
<1>4. D \in SUBSET Bugs /\ ids \ D \in SUBSET Bugs
  BY <1>1
<1>. HIDE DEF D
<1>5. ServedSoFar(D, base)
  BY <1>3, <1>4, ServedFold
<1>. HIDE DEF base
<1>6. base \in InfoCells /\ base.verdict \in {{}, {"Served"}, {"ServedFiltered"}}
  BY <1>5 DEF ServedSoFar
<1>7. DeniedSoFar(ids \ D, base, all)
  BY <1>4, <1>6, DeniedFold
<1>. HIDE DEF all
<1>8. CASE ids = D
  <2>1. cell' = base
    BY <1>2, <1>7, <1>8 DEF DeniedSoFar
  <2>2. /\ base \in InfoCells
        /\ base.verdict = IF \E b \in D : served'[b].view = "summary" THEN {"ServedFiltered"}
                          ELSE {"Served"}
    BY <1>5, <1>8 DEF ServedSoFar
  <2>. QED
    BY <1>1, <1>8, <2>1, <2>2 DEF AnswerNoted, D
<1>9. CASE ids # D
  <2>1. cell' \in InfoCells /\ cell'.verdict = {"Denied"} /\ cell'.rule \subseteq ids \ D
    BY <1>1, <1>2, <1>7, <1>9 DEF DeniedSoFar
  <2>. QED
    BY <1>1, <1>9, <2>1 DEF AnswerNoted, D
<1>. QED
  BY <1>8, <1>9

LEMMA InfoDisclose ==
  ASSUME TypeOK, AnswerNoted, NEW got \in SUBSET Bugs, Disclose(got), cell' = BugInfoNoted
  PROVE  BugInfoRecordIsTrue' /\ cell'.extra = 0 /\ cell'.ids \cup cell'.rule \subseteq Bugs
<1>. DEFINE hidden == Candidates \ named'
<1>1. /\ phase = "disclose" /\ phase' = "answered" /\ UNCHANGED <<ids, served>>
      /\ DOMAIN served \subseteq named'
  BY DEF Disclose
<1>2. cell' = NoteSuppressed(cell, hidden)
  BY <1>1 DEF BugInfoNoted
<1>3. \A b \in DOMAIN served : Links(served[b]) \subseteq Bugs
  BY DEF TypeOK, Links, Object
<1>4. hidden \subseteq Bugs
  BY <1>3 DEF Candidates
<1>5. \A b : Links(served[b])' = Links(served[b])
  BY <1>1 DEF Links
<1>6. \A b : Shown(b)' = Links(served[b]) \cap named'
  BY <1>5 DEF Shown
<1>. DEFINE lost == UNION {Links(served[b]) \ (Links(served[b]) \cap named') : b \in DOMAIN served}
<1>7. lost = hidden
  BY <1>1 DEF Candidates
<1>8. hidden # {} <=> \E b \in DOMAIN served : Links(served[b]) \cap named' # Links(served[b])
  BY <1>7
<1>. DEFINE short(b) == \/ served[b].view = "summary"
                        \/ Links(served[b]) \cap named' # Links(served[b])
            verdict == IF ids # DOMAIN served THEN "Denied"
                       ELSE IF \E b \in ids : short(b) THEN "ServedFiltered" ELSE "Served"
<1>9. /\ cell'.verdict = {verdict} /\ cell'.ids = hidden /\ cell'.extra = 0
      /\ cell'.rule \in {{}, cell.rule}
  <2>. HIDE DEF hidden, lost
  <2>1. CASE hidden = {}
    <3>1. cell' = cell
      BY <1>2, <2>1 DEF NoteSuppressed
    <3>2. cell.ids = {} /\ cell.extra = 0
      BY DEF AnswerNoted, InfoCells
    <3>3. \A b \in DOMAIN served : short(b) <=> served[b].view = "summary"
      BY <1>8, <2>1
    <3>. HIDE DEF short
    <3>. QED
      BY <2>1, <3>1, <3>2, <3>3 DEF AnswerNoted
  <2>2. CASE hidden # {}
    <3>. DEFINE m == Merge(cell, "ServedFiltered", {})
    <3>1. cell' = [m EXCEPT !.ids = @ \cup hidden]
      BY <1>2, <2>2 DEF NoteSuppressed, NoteVerdict
    <3>2. /\ m \in InfoCells /\ m.rule \in {cell.rule, {}}
          /\ m.verdict = IF Decides(cell, "ServedFiltered") THEN {"ServedFiltered"} ELSE cell.verdict
      BY InfoMerge DEF AnswerNoted, Verdicts
    <3>. HIDE DEF m
    <3>3. /\ cell'.verdict = m.verdict /\ cell'.ids = hidden /\ cell'.extra = 0
          /\ cell'.rule = m.rule
      BY <3>1, <3>2 DEF InfoCells
    <3>4. /\ cell.verdict = {"Denied"} => ~Decides(cell, "ServedFiltered")
          /\ cell.verdict = {"Served"} => Decides(cell, "ServedFiltered")
      BY WhatDecides DEF Verdicts
    <3>5. \E b \in DOMAIN served : short(b)
      BY <1>8, <2>2
    <3>. HIDE DEF short
    <3>6. m.verdict = {verdict}
      <4>1. CASE ids # DOMAIN served
        BY <3>2, <3>4, <4>1 DEF AnswerNoted
      <4>2. CASE ids = DOMAIN served
        <5>1. verdict = "ServedFiltered" /\ cell.verdict \in {{"Served"}, {"ServedFiltered"}}
          BY <3>5, <4>2 DEF AnswerNoted
        <5>. QED
          BY <3>2, <3>4, <5>1
      <4>. QED
        BY <4>1, <4>2
    <3>. QED
      BY <3>2, <3>3, <3>6
  <2>. QED
    BY <2>1, <2>2
<1>10. cell'.verdict = {"Denied"} => cell'.rule \subseteq ids \ DOMAIN served
  <2>. HIDE DEF short, hidden
  <2>1. cell'.verdict = {"Denied"} => ids # DOMAIN served
    BY <1>9
  <2>. QED
    BY <1>9, <2>1 DEF AnswerNoted
<1>11. cell.rule \subseteq Bugs
  BY DEF AnswerNoted, InfoCells
<1>12. BugInfoRecordIsTrue'
  <2>1. (UNION {Links(served[b]) \ Shown(b) : b \in DOMAIN served})' = hidden
    BY <1>1, <1>5, <1>6, <1>7
  <2>2. \A b : (served[b].view = "summary" \/ Shown(b) # Links(served[b]))' <=> short(b)
    BY <1>1, <1>5, <1>6
  <2>. HIDE DEF short, hidden
  <2>. QED
    BY <1>1, <1>9, <1>10, <2>1, <2>2 DEF BugInfoRecordIsTrue
<1>. QED
  BY <1>4, <1>9, <1>11, <1>12

LEMMA InfoStep ==
  TypeOK /\ NotedInv /\ InfoInv /\ [ToolNext]_<<vars, viewVars>> => InfoInv'
<1>. SUFFICES ASSUME TypeOK, NotedInv, InfoInv, [ToolNext]_<<vars, viewVars>> PROVE InfoInv'
  OBVIOUS
<1>1. CASE ViewNext
  <2>1. UNCHANGED readVars
    BY <1>1, ViewLeavesRead
  <2>2. phase # "idle" => UNCHANGED <<stage, cell>>
    BY <1>1 DEF NotedInv, ViewNext, ViewEdit, ViewTick, Busy, ViewBegin, FetchMeta, FetchData,
       ViewCaller, ViewAssess, DiscloseThread, Decide, FetchThread, FetchFails, LearnKinds, viewVars
  <2>3. stage' # "idle"
    <3>1. (\E b \in Bugs : ViewEdit(b)) \/ ViewTick => stage' # "idle"
      BY DEF ViewEdit, ViewTick, Busy, viewVars
    <3>2. Decide => stage' # "idle"
      BY DEF Decide
    <3>3. ASSUME NEW arrived, FetchThread(arrived) PROVE stage' # "idle"
      BY <3>3 DEF FetchThread, ServeList
    <3>4. ASSUME NEW r, ViewBegin(r) PROVE stage' # "idle"
      BY <3>4 DEF ViewBegin
    <3>. QED
      BY <1>1, <3>1, <3>2, <3>3, <3>4 DEF ViewNext, FetchMeta, FetchData, ViewCaller, ViewAssess,
         DiscloseThread, FetchFails, LearnKinds
  <2>. QED
    BY <2>1, <2>2, <2>3 DEF InfoInv, readVars, AnswerNoted, BugInfoRecordIsTrue, Shown, Links
<1>2. CASE BugInfo
  <2>0. stage = "idle" /\ stage' = "idle" /\ cell' = BugInfoNoted
    BY <1>2 DEF BugInfo
  <2>1. CASE (\E b \in Bugs : Edit(b)) \/ Tick
    <3>1. UNCHANGED call /\ phase \notin {"idle", "answered", "refused"}
      BY <2>1 DEF Edit, Tick
    <3>2. cell' = cell
      BY <2>0, <3>1 DEF BugInfoNoted, call
    <3>. QED
      BY <2>0, <3>1, <3>2 DEF call, InfoInv, AnswerNoted
  <2>2. ASSUME NEW wanted \in SUBSET Bugs, Begin(wanted) PROVE InfoInv'
    <3>1. phase = "idle" /\ ids' = wanted /\ phase' \in {"refused", "caller"} /\ cell = NothingNoted
      BY <2>0, <2>2 DEF Begin, InfoInv
    <3>2. CASE phase' = "refused"
      <4>1. cell' = NoteVerdict(NothingNoted, "Refused")
        BY <2>0, <3>1, <3>2 DEF BugInfoNoted
      <4>2. cell' = Cell({"Refused"}, {}, {}, 0, {})
        BY <4>1, WhatDecides DEF NoteVerdict, Merge, NothingNoted, Cell, Verdicts, Decides
      <4>. QED
        BY <3>2, <4>2 DEF InfoInv
    <3>3. CASE phase' = "caller"
      <4>1. wanted # {} /\ cell' = NothingNoted
        BY <2>0, <2>2, <3>1, <3>3 DEF Begin, BugInfoNoted
      <4>. QED
        BY <3>1, <3>3, <4>1 DEF InfoInv
    <3>. QED
      BY <3>1, <3>2, <3>3
  <2>3. CASE /\ phase \in {"caller", "assess", "body"} /\ ids' = ids
             /\ phase' \in {"assess", "body", "assemble"}
    <3>1. cell = NothingNoted /\ cell' = NothingNoted /\ ids' # {}
      BY <2>0, <2>3 DEF InfoInv, BugInfoNoted
    <3>. QED
      BY <2>3, <3>1 DEF InfoInv
  <2>4. CASE Assemble
    <3>1. phase = "assemble" /\ phase' = "disclose" /\ cell = NothingNoted /\ ids # {}
      BY <2>0, <2>4 DEF Assemble, InfoInv
    <3>. QED
      BY <2>0, <2>4, <3>1, InfoAssemble DEF InfoInv
  <2>5. ASSUME NEW got \in SUBSET Bugs, Disclose(got) PROVE InfoInv'
    <3>1. phase = "disclose" /\ phase' = "answered" /\ AnswerNoted
      BY <2>5 DEF Disclose, InfoInv
    <3>. QED
      BY <2>0, <2>5, <3>1, InfoDisclose DEF InfoInv
  <2>. QED
    BY <1>2, <2>1, <2>2, <2>3, <2>4, <2>5 DEF BugInfo, Next, Edit, Tick, ResolveCaller,
       AssessMissing, AssessOne, AssessDone, FetchBodies
<1>3. CASE UNCHANGED <<vars, viewVars>>
  BY <1>3 DEF vars, viewVars, InfoInv, AnswerNoted, BugInfoRecordIsTrue, Shown, Links
<1>. QED
  BY <1>1, <1>2, <1>3 DEF ToolNext


-----------------------------------------------------------------------------
(* The books of a call                                                     *)

\* An object comes back only for the one bug asked about.
OneObject(objects, bugs) == objects # {} => \E b, o : bugs = {b} /\ objects = {o}

\* Every way to a reply is at most four requests long.
BooksInv ==
  /\ blob \in Option(Files) /\ outcome \in Outcomes
  /\ OneObject(object, bug)
  /\ sent \in 0 .. 4
  /\ stage = "fetch" => sent <= 2
  /\ stage \in {"data", "kinds", "disclose"} => sent <= 3

LEMMA BooksStep ==
  /\ TypeOK /\ CourseInv /\ NotedInv /\ ThreadInv /\ BooksInv
  /\ [ToolNext]_<<vars, viewVars>>
  => BooksInv'
<1>. SUFFICES ASSUME TypeOK, CourseInv, NotedInv, ThreadInv, BooksInv,
                     [ToolNext]_<<vars, viewVars>>
              PROVE  BooksInv'
  OBVIOUS
<1>1. CASE UNCHANGED <<blob, outcome, bug, object, sent, stage>>
  BY <1>1 DEF BooksInv
<1>2. ASSUME NEW r \in ViewRequests, ViewBegin(r) PROVE BooksInv'
  <2>1. object' = {} /\ sent' = 0 /\ stage' \in {"meta", "caller"} /\ UNCHANGED <<blob, outcome>>
    BY <1>2 DEF ViewBegin, CourseInv, NotedInv
  <2>. QED
    BY <2>1 DEF BooksInv, OneObject
<1>3. ASSUME NEW found \in Option(Files), FetchMeta(found) PROVE BooksInv'
  <2>1. object' = {} /\ sent = 0 /\ sent' = 1 /\ stage' = "caller" /\ UNCHANGED <<blob, outcome>>
    BY <1>3 DEF FetchMeta, CourseInv, NotedInv
  <2>. QED
    BY <2>1 DEF BooksInv, OneObject
<1>4. ASSUME NEW ok \in BOOLEAN, ViewCaller(ok) PROVE BooksInv'
  <2>1. /\ object' = {} /\ sent \in 0 .. 1 /\ stage' = "assess" /\ UNCHANGED <<blob, outcome>>
        /\ sent' = sent + (IF NeedsIdentity(policy) THEN 1 ELSE 0)
    BY <1>4 DEF ViewCaller, CourseInv, NotedInv, First
  <2>. QED
    BY <2>1 DEF BooksInv, OneObject
<1>5. ASSUME NEW got \in SUBSET Bugs, ViewAssess(got) PROVE BooksInv'
  <2>1. /\ sent \in 0 .. 2 /\ sent' = sent + 1 /\ stage' = "decide"
        /\ UNCHANGED <<blob, outcome, bug>>
    BY <1>5 DEF ViewAssess, CourseInv, First, Whoami
  <2>2. PICK blind \in Blinds : object' = {Fetched(b, blind) : b \in got}
    BY <1>5 DEF ViewAssess
  <2>3. got \subseteq bug /\ bug \in Option(Bugs)
    BY <1>5 DEF ViewAssess, ThreadInv
  <2>4. OneObject(object', bug)
    <3>. SUFFICES ASSUME object' # {} PROVE \E b, o : bug = {b} /\ object' = {o}
      BY DEF OneObject
    <3>1. PICK b \in got : TRUE
      BY <2>2
    <3>2. bug = {b} /\ got = {b}
      BY <2>3, <3>1 DEF Option
    <3>3. object' = {Fetched(b, blind)}
      BY <2>2, <3>2
    <3>. QED
      BY <3>2, <3>3
  <2>. QED
    BY <2>1, <2>4 DEF BooksInv
<1>6. CASE Decide
  <2>1. /\ stage' \in {"done", "data", "fetch"} /\ UNCHANGED <<blob, object, bug, sent>>
        /\ sent \in 0 .. 3
    BY <1>6 DEF Decide, CourseInv, First, Whoami
  <2>2. stage' = "fetch" => sent <= 2
    BY <1>6 DEF Decide, CourseInv, First, Whoami
  <2>3. outcome' \in Outcomes
    BY <1>6 DEF Decide, Gate, Outcomes
  <2>. QED
    BY <2>1, <2>2, <2>3 DEF BooksInv
<1>7. ASSUME NEW found \in Option(Files), FetchData(found) PROVE BooksInv'
  <2>1. /\ sent <= 3 /\ sent' = sent + 1 /\ stage' = "done" /\ blob' = found
        /\ UNCHANGED <<object, bug>> /\ sent \in 0 .. 4
    BY <1>7 DEF FetchData, BooksInv
  <2>2. outcome' \in Outcomes
    BY <1>7 DEF FetchData, DataVerdict, Gate, Outcomes
  <2>. QED
    BY <2>1, <2>2 DEF BooksInv
<1>8. ASSUME NEW arrived, FetchThread(arrived) PROVE BooksInv'
  <2>1. /\ sent <= 2 /\ sent' = sent + 1 /\ UNCHANGED <<object, bug, blob>> /\ sent \in 0 .. 4
        /\ stage' \in {"done", "kinds", "disclose"} /\ outcome' \in {"served", outcome}
    BY <1>8 DEF FetchThread, ServeList, BooksInv
  <2>2. outcome' \in Outcomes
    BY <2>1 DEF BooksInv, Outcomes
  <2>3. sent' \in 0 .. 4 /\ sent' <= 3
    BY <2>1
  <2>. QED
    BY <2>1, <2>2, <2>3 DEF BooksInv
<1>9. CASE FetchFails
  <2>1. /\ sent <= 2 /\ sent' = sent + 1 /\ UNCHANGED <<object, bug, blob>> /\ sent \in 0 .. 4
        /\ stage' = "done" /\ outcome' = "failed"
    BY <1>9 DEF FetchFails, BooksInv
  <2>2. outcome' \in Outcomes
    BY <2>1 DEF BooksInv, Outcomes
  <2>3. sent' \in 0 .. 4
    BY <2>1
  <2>. QED
    BY <2>1, <2>2, <2>3 DEF BooksInv
<1>10. ASSUME NEW learnt, LearnKinds(learnt) PROVE BooksInv'
  BY <1>10 DEF LearnKinds, BooksInv
<1>11. ASSUME NEW got \in SUBSET Bugs, DiscloseThread(got) PROVE BooksInv'
  <2>1. /\ sent <= 3 /\ sent' = sent + 1 /\ UNCHANGED <<object, bug, blob>> /\ sent \in 0 .. 4
        /\ stage' = "done" /\ outcome' = "served"
    BY <1>11 DEF DiscloseThread, BooksInv
  <2>2. outcome' \in Outcomes
    BY <2>1 DEF BooksInv, Outcomes
  <2>3. sent' \in 0 .. 4
    BY <2>1
  <2>. QED
    BY <2>1, <2>2, <2>3 DEF BooksInv
<1>. QED
  BY <1>1, <1>2, <1>3, <1>4, <1>5, <1>6, <1>7, <1>8, <1>9, <1>10, <1>11
     DEF ToolNext, ViewNext, ViewEdit, ViewTick, BugInfo, viewVars

\* What the cell holds at every point of a call, bug_info's or another's.
LEMMA CellTyped ==
  ASSUME TypeOK, CourseInv, NotedInv, ThreadInv, EndInv, InfoInv
  PROVE  cell.extra \in Nat /\ cell.ids \cup cell.rule \subseteq Bugs
<1>1. cell = NothingNoted => cell.extra = 0 /\ cell.ids = {} /\ cell.rule = {}
  BY DEF NothingNoted
<1>2. bug \subseteq Bugs
  BY DEF ThreadInv, Option
<1>3. CASE stage = "idle"
  <2>1. phase = "refused" => cell.extra = 0 /\ cell.ids = {} /\ cell.rule = {}
    BY CellFields DEF InfoInv
  <2>2. phase = "disclose" => cell.extra = 0 /\ cell.ids = {} /\ cell.rule \subseteq Bugs
    BY DEF InfoInv, AnswerNoted, InfoCells
  <2>. QED
    BY <1>1, <1>3, <2>1, <2>2 DEF InfoInv, TypeOK, Phases
<1>4. CASE stage \in {"meta", "caller", "assess", "decide"}
  <2>1. cell = NothingNoted
    BY <1>4 DEF NotedInv
  <2>. QED
    BY <1>1, <2>1
<1>5. CASE stage \in {"data", "fetch", "kinds", "disclose"}
  BY <1>2, <1>5, CellFields DEF EndInv
<1>6. CASE stage = "done" /\ outcome = "served" /\ blob = {}
  <2>1. req \in ViewRequests /\ ReplyIs /\ NotedIs
    BY <1>6 DEF EndInv, ThreadInv
  <2>2. thread \in Seq(Item)
    BY <2>1, ItemsServed
  <2>3. {i \in DOMAIN thread : Hidden(thread[i])} \in SUBSET DOMAIN thread
    OBVIOUS
  <2>4. Unopened \in Nat
    BY <2>2, <2>3, SomePlaces DEF Unopened
  <2>5. Unnamed \subseteq Bugs
    BY DEF Unnamed, ThreadIds, NamesOf, ScalarId
  <2>. QED
    BY <1>2, <2>1, <2>4, <2>5 DEF NotedIs
<1>7. CASE stage = "done" /\ ~(outcome = "served" /\ blob = {})
  BY <1>2, <1>7 DEF EndInv, OtherEnd
<1>. QED
  BY <1>3, <1>4, <1>5, <1>6, <1>7 DEF NotedInv

LEMMA ViewTyped ==
  ASSUME TypeOK, CourseInv, NotedInv, ThreadInv, EndInv, InfoInv, BooksInv
  PROVE  ViewTypeOK
<1>1. bug \subseteq Bugs /\ Cardinality(bug) <= 1 /\ Cardinality(object) <= Cardinality(bug)
  <2>1. bug = {} \/ \E b \in Bugs : bug = {b}
    BY DEF ThreadInv, Option
  <2>2. Cardinality(bug) \in {0, 1}
    BY <2>1, FS_EmptySet, FS_Singleton
  <2>3. CASE object = {}
    BY <2>1, <2>2, <2>3, FS_EmptySet
  <2>4. CASE object # {}
    <3>1. Cardinality(object) = 1 /\ Cardinality(bug) = 1
      BY <2>4, FS_Singleton DEF BooksInv, OneObject
    <3>. QED
      BY <2>1, <3>1
  <2>. QED
    BY <2>3, <2>4
<1>2. /\ DOMAIN kinds \subseteq CustomFields
      /\ \A f \in DOMAIN kinds : kinds[f] \in Kinds \cup {"Unknown"}
  BY FieldKindsAssumption DEF ThreadInv, KindsFit
<1>3. CASE outcome = "served" /\ blob = {}
  <2>1. req \in ViewRequests /\ ReplyIs
    BY <1>3, ServedReply
  <2>2. /\ DOMAIN targets \subseteq Bugs /\ \A b \in DOMAIN targets : targets[b] \in Object
        /\ omitted \in Nat /\ \A n \in DOMAIN shown : shown[n].at \in DOMAIN thread
    BY <2>1, ReplyMembers DEF ReplyIs, Visible
  <2>. QED
    BY <1>1, <1>2, <2>2, CellTyped DEF ViewTypeOK, CourseInv, NotedInv, ThreadInv, BooksInv
<1>4. CASE ~(outcome = "served" /\ blob = {})
  <2>1. shown = <<>> /\ omitted = 0 /\ targets = Empty
    BY <1>4 DEF ThreadInv, EndInv, OtherEnd
  <2>2. DOMAIN shown = {} /\ DOMAIN targets = {} /\ omitted \in Nat
    BY <2>1 DEF Empty
  <2>. QED
    BY <1>1, <1>2, <2>2, CellTyped DEF ViewTypeOK, CourseInv, NotedInv, ThreadInv, BooksInv
<1>. QED
  BY <1>3, <1>4


\* The call's own books, and what the audit is told of it: the verdict,
\* the rule and the tallies of the record are what happened, for every read
\* tool, every thread and every set of bugs.
THEOREM ViewCorrect == ToolSpec => []ViewInv
<1>1. ViewInit => InfoInv /\ BooksInv
  BY DEF ViewInit, Init, InfoInv, BooksInv, OneObject, Outcomes, Option
<1>2. ToolSpec => []InfoInv
  BY <1>1, InfoStep, EndCorrect, PTL DEF ToolSpec
<1>3. ToolSpec => []BooksInv
  BY <1>1, BooksStep, EndCorrect, PTL DEF ToolSpec
<1>4. ASSUME TypeOK, CourseInv, NotedInv, ThreadInv, EndInv, InfoInv, BooksInv PROVE ViewInv
  <2>1. phase = "answered" => BugInfoRecordIsTrue
    BY <1>4 DEF InfoInv
  <2>2. BugInfoRecordIsTrue
    BY <2>1 DEF BugInfoRecordIsTrue
  <2>3. RecordIsTrue
    BY <1>4, <2>2, TalliesDiffer, RefusalsTold, VerdictIsSo, RuleDecides DEF RecordIsTrue
  <2>. QED
    BY <1>4, <2>3, ViewTyped DEF ViewInv
<1>. QED
  BY <1>2, <1>3, <1>4, EndCorrect, PTL


-----------------------------------------------------------------------------
(* What an undisturbed view serves                                         *)

\* The objects Bugzilla holds for some bugs, with every field.
WholeObjects(S) == {Fetched(b, {}) : b \in S \cap Live}
WholeTargets(S) == [b \in S \cap Live |-> Fetched(b, {})]

\* The field cache answered for every custom field of the thread.
KindsKnown == \A f \in CustomNamed(thread) : f \in DOMAIN kinds /\ kinds[f] = FieldKinds[f]

\* While nothing disturbs the call, no time has passed, the caller is known
\* where the policy asks, every request was answered in full and every field
\* is known for what it is.
CalmFacts ==
  /\ clock = 0 /\ now = 0
  /\ stage \notin {"idle", "meta", "caller"} => (NeedsIdentity(policy) => caller)
  /\ stage \notin {"idle", "meta", "caller", "assess"} => object = WholeObjects(bug)
  /\ outcome # "failed"
  /\ req.tool = "bug_history" /\ (stage = "disclose" \/ outcome = "served") => KindsKnown
  /\ outcome = "served" /\ req.tool \notin {"list_attachments", "download_attachment"} =>
       targets = WholeTargets(ThreadIds)

ViewCalmInv ==
  /\ stage = "done" /\ req.tool # "download_attachment" =>
       blob = {} /\ ((outcome = "denied" /\ ~Granted) \/ outcome \in {"failed", "served"})
  /\ calm => CalmFacts

LEMMA CalmStays ==
  ASSUME ViewCalmInv, UNCHANGED <<vars, viewVars>> PROVE ViewCalmInv'
<1>. USE DEF vars, viewVars
<1>1. (Granted' <=> Granted) /\ WholeObjects(bug)' = WholeObjects(bug) /\ (KindsKnown' <=> KindsKnown)
  BY DEF Granted, Judge, WholeObjects, Fetched, Live, KindsKnown, CustomNamed
<1>2. ThreadIds' = ThreadIds
  BY DEF ThreadIds, NamesOf, Hidden, PrivateAllowed
<1>3. WholeTargets(ThreadIds)' = WholeTargets(ThreadIds)
  BY <1>2 DEF WholeTargets, Fetched, Live
<1>. QED
  BY <1>1, <1>3 DEF ViewCalmInv, CalmFacts

LEMMA CalmDisclose ==
  ASSUME ThreadInv, CourseInv, ViewCalmInv, NEW got \in SUBSET Bugs, DiscloseThread(got)
  PROVE  ViewCalmInv'
<1>1. /\ stage = "disclose" /\ stage' = "done" /\ outcome' = "served" /\ blob' = {}
      /\ UNCHANGED <<policy, world, clock, caller, now, global, req, bug, object, thread, kinds>>
  BY DEF DiscloseThread, CourseInv
<1>2. ASSUME calm' PROVE CalmFacts'
  <2>1. PICK blind \in Blinds :
          /\ targets' = [b \in got |-> Fetched(b, blind)]
          /\ calm' = (calm /\ got = ThreadIds \cap Live /\ blind = {})
    BY DEF DiscloseThread
  <2>2. calm /\ targets' = WholeTargets(ThreadIds)
    BY <1>2, <2>1 DEF WholeTargets
  <2>3. ThreadIds' = ThreadIds
    BY <1>1 DEF ThreadIds, NamesOf, Hidden, PrivateAllowed
  <2>4. targets' = WholeTargets(ThreadIds)'
    BY <1>1, <2>2, <2>3 DEF WholeTargets, Fetched, Live
  <2>5. CalmFacts /\ WholeObjects(bug)' = WholeObjects(bug) /\ (KindsKnown' <=> KindsKnown)
    BY <1>1, <2>2 DEF ViewCalmInv, WholeObjects, Fetched, Live, KindsKnown, CustomNamed
  <2>. QED
    BY <1>1, <2>4, <2>5 DEF CalmFacts
<1>. QED
  BY <1>1, <1>2 DEF ViewCalmInv

LEMMA ViewCalmStep ==
  TypeOK /\ CourseInv /\ ThreadInv /\ ViewCalmInv /\ [ToolNext]_<<vars, viewVars>> => ViewCalmInv'
<1>. SUFFICES ASSUME TypeOK, CourseInv, ThreadInv, ViewCalmInv, [ToolNext]_<<vars, viewVars>>
              PROVE  ViewCalmInv'
  OBVIOUS
<1>1. CASE UNCHANGED <<vars, viewVars>> \/ stage = "done"
  BY <1>1, DoneStays, CalmStays
<1>2. CASE (\E b \in Bugs : ViewEdit(b)) \/ ViewTick
  BY <1>2 DEF ViewEdit, ViewTick, Busy, viewVars, ViewCalmInv
<1>3. ASSUME NEW r \in ViewRequests, ViewBegin(r) PROVE ViewCalmInv'
  BY <1>3 DEF ViewBegin, ViewCalmInv, CalmFacts, CourseInv
<1>4. ASSUME NEW found \in Option(Files), FetchMeta(found) PROVE ViewCalmInv'
  BY <1>4 DEF FetchMeta, ViewCalmInv, CalmFacts, CourseInv
<1>5. ASSUME NEW ok \in BOOLEAN, ViewCaller(ok) PROVE ViewCalmInv'
  BY <1>5 DEF ViewCaller, ViewCalmInv, CalmFacts, CourseInv
<1>6. ASSUME NEW got \in SUBSET Bugs, ViewAssess(got) PROVE ViewCalmInv'
  <2>1. PICK blind \in Blinds : /\ object' = {Fetched(b, blind) : b \in got}
                                /\ calm' = (calm /\ got = bug \cap Live /\ blind = {})
    BY <1>6 DEF ViewAssess
  <2>2. /\ stage = "assess" /\ stage' = "decide" /\ outcome = "none"
        /\ UNCHANGED <<policy, world, clock, caller, now, bug, outcome>>
    BY <1>6 DEF ViewAssess, CourseInv
  <2>3. calm' => object' = WholeObjects(bug)'
    BY <2>1, <2>2 DEF WholeObjects, Fetched, Live
  <2>. QED
    BY <2>1, <2>2, <2>3 DEF ViewCalmInv, CalmFacts
<1>7. CASE Decide
  <2>1. /\ stage = "decide" /\ stage' \in {"done", "data", "fetch"}
        /\ outcome' \in {"none", "denied", "size"} /\ blob = {}
        /\ UNCHANGED <<policy, world, clock, caller, now, calm, req, bug, object, blob>>
    BY <1>7 DEF Decide, CourseInv, Gate
  <2>2. stage' = "done" /\ req.tool # "download_attachment" => outcome' = "denied" /\ ~Granted
    BY <1>7 DEF Decide
  <2>3. (Granted' <=> Granted) /\ WholeObjects(bug)' = WholeObjects(bug)
    BY <2>1 DEF Granted, Judge, WholeObjects, Fetched, Live
  <2>. QED
    BY <2>1, <2>2, <2>3 DEF ViewCalmInv, CalmFacts
<1>8. ASSUME NEW found \in Option(Files), FetchData(found) PROVE ViewCalmInv'
  <2>1. /\ stage = "data" /\ stage' = "done" /\ req.tool = "download_attachment"
        /\ UNCHANGED <<policy, world, clock, caller, now, req, bug, object>>
        /\ calm' => calm
    BY <1>8 DEF FetchData, ThreadInv
  <2>2. outcome' # "failed"
    BY <1>8 DEF FetchData, DataVerdict, Gate
  <2>3. WholeObjects(bug)' = WholeObjects(bug)
    BY <2>1 DEF WholeObjects, Fetched, Live
  <2>. QED
    BY <2>1, <2>2, <2>3 DEF ViewCalmInv, CalmFacts
<1>9. ASSUME NEW arrived, FetchThread(arrived) PROVE ViewCalmInv'
  <2>1. /\ stage = "fetch" /\ thread' = arrived /\ blob = {} /\ outcome = "none"
        /\ UNCHANGED <<policy, world, clock, caller, now, calm, req, bug, object, blob>>
    BY <1>9 DEF FetchThread, CourseInv
  <2>2. WholeObjects(bug)' = WholeObjects(bug)
    BY <2>1 DEF WholeObjects, Fetched, Live
  <2>3. CASE req.tool = "list_attachments"
    <3>1. stage' = "done" /\ outcome' = "served"
      BY <1>9, <2>3 DEF FetchThread, ServeList
    <3>. QED
      BY <2>1, <2>2, <2>3, <3>1 DEF ViewCalmInv, CalmFacts
  <2>4. CASE req.tool # "list_attachments"
    <3>1. /\ stage' = IF req.tool = "bug_history" /\ CustomNamed(arrived) # {}
                        THEN "kinds" ELSE "disclose"
          /\ outcome' = "none"
      BY <1>9, <2>1, <2>4 DEF FetchThread
    <3>2. stage' = "disclose" /\ req.tool = "bug_history" => KindsKnown'
      BY <2>1, <3>1 DEF KindsKnown, CustomNamed
    <3>. QED
      BY <2>1, <2>2, <3>1, <3>2 DEF ViewCalmInv, CalmFacts
  <2>. QED
    BY <2>3, <2>4
<1>10. CASE FetchFails
  BY <1>10 DEF FetchFails, ViewCalmInv, CourseInv
<1>11. ASSUME NEW learnt, LearnKinds(learnt) PROVE ViewCalmInv'
  <2>1. /\ stage = "kinds" /\ stage' = "disclose" /\ outcome = "none"
        /\ kinds' = [f \in CustomNamed(thread) |-> learnt[f]]
        /\ calm' = (calm /\ \A f \in CustomNamed(thread) : learnt[f] = FieldKinds[f])
        /\ UNCHANGED <<policy, world, clock, caller, now, req, bug, object, thread, outcome>>
    BY <1>11 DEF LearnKinds, CourseInv
  <2>2. WholeObjects(bug)' = WholeObjects(bug)
    BY <2>1 DEF WholeObjects, Fetched, Live
  <2>3. calm' => KindsKnown'
    <3>1. CustomNamed(thread)' = CustomNamed(thread)
      BY <2>1 DEF CustomNamed
    <3>2. calm' => \A f \in CustomNamed(thread) : learnt[f] = FieldKinds[f]
      BY <2>1
    <3>. QED
      BY <2>1, <3>1, <3>2 DEF KindsKnown
  <2>. QED
    BY <2>1, <2>2, <2>3 DEF ViewCalmInv, CalmFacts
<1>12. ASSUME NEW got \in SUBSET Bugs, DiscloseThread(got) PROVE ViewCalmInv'
  BY <1>12, CalmDisclose
<1>13. CASE BugInfo
  <2>1. stage = "idle" /\ outcome = "none" /\ UNCHANGED <<stage, outcome>>
    BY <1>13 DEF BugInfo, CourseInv
  <2>2. calm' => calm /\ clock' = clock /\ now' \in {now, clock}
    BY <1>13 DEF BugInfo, Next, call, Edit, Tick, Begin, ResolveCaller, AssessMissing, AssessOne,
       AssessDone, FetchBodies, Assemble, Disclose, TypeOK
  <2>. QED
    BY <2>1, <2>2 DEF ViewCalmInv, CalmFacts
<1>. QED
  BY <1>1, <1>2, <1>3, <1>4, <1>5, <1>6, <1>7, <1>8, <1>9, <1>10, <1>11, <1>12, <1>13
     DEF ToolNext, ViewNext


\* The bugs of Bugzilla the client may learn of, at the end of the call.
May == {b \in Live : Allows(Entitled(world[b], clock), "summary")}

\* An undisturbed disclosable() lets every one of them be named that the
\* thread names.
LEMMA CalmNameable ==
  ASSUME TypeOK, CalmFacts, stage = "done", outcome = "served",
         req.tool \notin {"list_attachments", "download_attachment"},
         NEW b \in ThreadIds, b \in May
  PROVE  b \in Nameable
<1>1. targets = WholeTargets(ThreadIds) /\ (NeedsIdentity(policy) => caller)
  BY DEF CalmFacts
<1>2. b \in ThreadIds \cap Live /\ Allows(Entitled(world[b], clock), "summary")
  BY DEF May
<1>3. b \in DOMAIN targets /\ targets[b] = Fetched(b, {})
  BY <1>1, <1>2 DEF WholeTargets
<1>4. Judge(targets[b], clock) = Entitled(world[b], clock)
  BY <1>1, <1>2, <1>3, WholeObjectIsExact
<1>. QED
  BY <1>2, <1>3, <1>4 DEF Nameable

\* With every field known, a part is read as naming bugs just when it does,
\* and as one bug just when its field holds one.
LEMMA KnownKinds ==
  ASSUME KindsKnown, thread \in Seq(Item), NEW i \in DOMAIN thread, NEW part \in thread[i].parts,
         part \in Part, part.field # "marker"
  PROVE  /\ (LinkKind(part.field, kinds) # "none") <=> NamesBugs(part)
         /\ LinkKind(part.field, kinds) # "lenient"
         /\ LinkKind(part.field, kinds) = "strict" =>
              part.field \in CustomFields /\ FieldKinds[part.field] = "BugId"
<1>1. part.field \in {"list", "url", "plain"} \/ part.field \in CustomFields
  BY DEF Part
<1>2. CASE part.field \in {"list", "url", "plain"}
  <2>1. part.field \notin CustomFields
    BY <1>2, FieldsAssumption
  <2>. QED
    BY <1>2, <2>1, KindOfField DEF NamesBugs
<1>3. CASE part.field \in CustomFields
  <2>1. part.field \in CustomNamed(thread)
    BY <1>3 DEF CustomNamed
  <2>2. /\ part.field \in DOMAIN kinds /\ kinds[part.field] = FieldKinds[part.field]
        /\ FieldKinds[part.field] \in Kinds
    BY <2>1, <1>3, FieldKindsAssumption DEF KindsKnown
  <2>3. part.field \notin {"list", "url", "plain", "marker"}
    BY <1>3, FieldsAssumption
  <2>4. KindRead(part.field, kinds) = FieldKinds[part.field]
    BY <2>2 DEF KindRead
  <2>. QED
    BY <1>3, <2>2, <2>3, <2>4, KindOfField DEF NamesBugs, Kinds
<1>. QED
  BY <1>1, <1>2, <1>3

\* An entry that names only what may be named is left as it came.
LEMMA WholeIsLeft ==
  ASSUME NEW parts \in SUBSET Part, NEW k, NEW N \in SUBSET Bugs,
         \A part \in parts : LinkKind(part.field, k) # "none" =>
           part.pieces # {} /\ part.pieces \subseteq N,
         \A part \in parts : LinkKind(part.field, k) = "strict" => ScalarId(part) # {}
  PROVE  HistoryLeft(parts, k, N) = parts
<1>1. ASSUME NEW part \in parts
      PROVE  /\ PiecesLeft(part, k, N) = part.pieces
             /\ LinkKind(part.field, k) = "none" \/ PiecesLeft(part, k, N) # {}
             /\ [part EXCEPT !.pieces = PiecesLeft(part, k, N)] = part
  <2>1. PiecesLeft(part, k, N) = part.pieces
    <3>1. CASE LinkKind(part.field, k) = "none"
      BY <3>1 DEF PiecesLeft
    <3>2. CASE LinkKind(part.field, k) # "none"
      <4>1. part.pieces \subseteq N /\ Foreign \notin N
        BY <3>2, ForeignAssumption
      <4>2. ScalarId(part) \subseteq N
        BY <4>1 DEF ScalarId
      <4>3. LinkKind(part.field, k) = "strict" => ScalarId(part) \cap N # {}
        BY <4>2
      <4>. QED
        BY <4>1, <4>2, <4>3 DEF PiecesLeft
    <3>. QED
      BY <3>1, <3>2
  <2>2. part \in Part
    OBVIOUS
  <2>3. [part EXCEPT !.pieces = part.pieces] = part
    BY <2>2 DEF Part
  <2>. QED
    BY <2>1, <2>3
<1>2. \A part \in parts : part \in HistoryLeft(parts, k, N)
  <2>. TAKE part \in parts
  <2>1. [part EXCEPT !.pieces = PiecesLeft(part, k, N)] \in HistoryLeft(parts, k, N)
    BY <1>1 DEF HistoryLeft
  <2>. QED
    BY <1>1, <2>1
<1>3. \A left \in HistoryLeft(parts, k, N) : left \in parts
  <2>. TAKE left \in HistoryLeft(parts, k, N)
  <2>1. PICK part \in parts : left = [part EXCEPT !.pieces = PiecesLeft(part, k, N)]
    BY DEF HistoryLeft
  <2>. QED
    BY <1>1, <2>1
<1>. QED
  BY <1>2, <1>3

\* An item that names only bugs the client may be told of is told, whole.
LEMMA WholeIsShown ==
  ASSUME TypeOK, CalmFacts, stage = "done", outcome = "served", req \in ViewRequests, ReplyIs,
         omitted = 0, NEW i \in DOMAIN thread,
         thread[i].private # {TRUE} \/ PrivateAllowed,
         req.tool = "bug_history" => thread[i].parts # {},
         \A part \in thread[i].parts :
           /\ NamesBugs(part) => part.pieces # {} /\ part.pieces \subseteq May
           /\ part.field \in CustomFields /\ FieldKinds[part.field] = "BugId" =>
                ScalarId(part) # {}
  PROVE  \E n \in DOMAIN shown :
           /\ shown[n].at = i
           /\ req.tool # "list_attachments" => shown[n].parts = thread[i].parts
<1>. DEFINE parts == thread[i].parts
            N == Nameable
<1>1. /\ req.tool \in ViewTools \ {"download_attachment"} /\ thread \in Seq(Item)
      /\ N \in SUBSET Bugs /\ parts \in SUBSET Part /\ thread \in Threads[req.tool]
  BY ItemsServed DEF ReplyIs
<1>2. ~Hidden(thread[i])
  BY DEF Hidden
<1>3. \A part \in parts :
        (part.field = "marker") <=> (req.tool \in {"bug_comments", "summarize_bug"})
  BY <1>1, ThreadsAreLists
<1>4. ViewTools = {"bug_comments", "summarize_bug", "bug_history", "list_attachments",
                   "download_attachment"}
  BY DEF ViewTools, NeedsView
<1>5. May \subseteq Bugs
  BY DEF May, Live
<1>6. ASSUME NEW part \in parts, NamesBugs(part), req.tool # "list_attachments",
             part.pieces \cap Bugs = NamesOf(part, kinds)
      PROVE  part.pieces # {} /\ part.pieces \subseteq N
  <2>1. part.pieces # {} /\ part.pieces \subseteq May
    BY <1>6
  <2>2. part.pieces \subseteq ThreadIds
    <3>1. NamesOf(part, kinds) = part.pieces
      BY <1>5, <1>6, <2>1
    <3>. QED
      BY <1>2, <3>1 DEF ThreadIds
  <2>. QED
    BY <1>1, <1>6, <2>1, <2>2, CalmNameable
<1>7. req.tool = "bug_history" => HistoryLeft(parts, kinds, N) = parts
  <2>. SUFFICES ASSUME req.tool = "bug_history" PROVE HistoryLeft(parts, kinds, N) = parts
    OBVIOUS
  <2>1. KindsKnown
    BY DEF CalmFacts
  <2>2. \A part \in parts :
          /\ LinkKind(part.field, kinds) # "none" => part.pieces # {} /\ part.pieces \subseteq N
          /\ LinkKind(part.field, kinds) = "strict" => ScalarId(part) # {}
    <3>. TAKE part \in parts
    <3>1. part \in Part /\ part.field # "marker"
      BY <1>1, <1>3
    <3>2. /\ (LinkKind(part.field, kinds) # "none") <=> NamesBugs(part)
          /\ LinkKind(part.field, kinds) # "lenient"
          /\ LinkKind(part.field, kinds) = "strict" =>
               part.field \in CustomFields /\ FieldKinds[part.field] = "BugId"
      BY <1>1, <2>1, <3>1, KnownKinds
    <3>3. LinkKind(part.field, kinds) = "strict" => ScalarId(part) # {}
      BY <3>2
    <3>4. ASSUME LinkKind(part.field, kinds) # "none"
          PROVE  part.pieces \cap Bugs = NamesOf(part, kinds)
      <4>1. CASE LinkKind(part.field, kinds) = "strict"
        BY <3>3, <4>1 DEF NamesOf, ScalarId
      <4>2. CASE LinkKind(part.field, kinds) # "strict"
        BY <3>2, <3>4, <4>2 DEF NamesOf
      <4>. QED
        BY <4>1, <4>2
    <3>. QED
      BY <1>6, <3>2, <3>3, <3>4
  <2>. QED
    BY <1>1, <2>2, WholeIsLeft
<1>8. req.tool \notin {"bug_history", "list_attachments"} => CommentKept(parts, N)
  <2>. SUFFICES ASSUME req.tool \notin {"bug_history", "list_attachments"}, NEW part \in parts
                PROVE  part.pieces \cap Bugs \subseteq N
    BY DEF CommentKept
  <2>1. part.field = "marker"
    BY <1>1, <1>3, <1>4
  <2>2. NamesBugs(part) /\ LinkKind(part.field, kinds) = "marker"
    BY <2>1, KindOfField DEF NamesBugs
  <2>3. part.pieces \cap Bugs = NamesOf(part, kinds)
    BY <2>2 DEF NamesOf
  <2>. QED
    BY <1>6, <2>2, <2>3
<1>9. i \in Visible
  BY <1>2, <1>7, <1>8 DEF Visible
<1>10. PICK n \in DOMAIN shown : shown[n].at = i /\ shown[n].parts = LeftOf(N, i)
  BY <1>9, ReplyMembers
<1>11. req.tool # "list_attachments" => LeftOf(N, i) = parts
  BY <1>7 DEF LeftOf
<1>. QED
  BY <1>10, <1>11

LEMMA CalmIsServed ==
  ASSUME TypeOK, CourseInv, NotedInv, ThreadInv, ViewCalmInv, stage = "done", calm,
         req.tool # "download_attachment"
  PROVE  (outcome = "served") <=>
           (req.bug \in Live /\ Allows(Entitled(world[req.bug], clock), NeedsView[req.tool]))
<1>1. /\ clock = 0 /\ now = 0 /\ (NeedsIdentity(policy) => caller)
      /\ object = WholeObjects(bug) /\ outcome # "failed" /\ bug = {req.bug}
  BY DEF ViewCalmInv, CalmFacts, ThreadInv
<1>2. (outcome = "served") <=> Granted
  BY <1>1 DEF ViewCalmInv, CourseInv
<1>3. \A o : o \in object <=> req.bug \in Live /\ o = Fetched(req.bug, {})
  BY <1>1 DEF WholeObjects
<1>4. req.bug \in Live => Judge(Fetched(req.bug, {}), now) = Entitled(world[req.bug], now)
  BY <1>1, WholeObjectIsExact
<1>5. Granted <=>
        (req.bug \in Live /\ Allows(Entitled(world[req.bug], now), NeedsView[req.tool]))
  BY <1>3, <1>4 DEF Granted
<1>. QED
  BY <1>1, <1>2, <1>5

\* The guard fails closed on what it could not read, and on nothing else: a
\* view nothing disturbs serves an entitled client its thread, and every item
\* of it that names only bugs it may be told of, whole.
THEOREM UndisturbedViewCorrect == ToolSpec => []UndisturbedViewIsExact
<1>1. ViewInit => ViewCalmInv
  BY DEF ViewInit, Init, ViewCalmInv, CalmFacts
<1>2. ToolSpec => []ViewCalmInv
  BY <1>1, ViewCalmStep, EndCorrect, PTL DEF ToolSpec
<1>3. ASSUME TypeOK, CourseInv, NotedInv, ThreadInv, EndInv, ViewCalmInv
      PROVE  UndisturbedViewIsExact
  <2>. SUFFICES ASSUME stage = "done", calm, req.tool # "download_attachment"
                PROVE  UndisturbedViewIsExact
    BY DEF UndisturbedViewIsExact
  <2>1. (outcome = "served") <=>
          (req.bug \in Live /\ Allows(Entitled(world[req.bug], clock), NeedsView[req.tool]))
    BY <1>3, CalmIsServed
  <2>2. ASSUME outcome = "served", omitted = 0, NEW i \in DOMAIN thread,
               thread[i].private # {TRUE} \/ PrivateAllowed,
               req.tool = "bug_history" => thread[i].parts # {},
               \A part \in thread[i].parts :
                 /\ NamesBugs(part) => part.pieces # {} /\ part.pieces \subseteq May
                 /\ part.field \in CustomFields /\ FieldKinds[part.field] = "BugId" =>
                      ScalarId(part) # {}
        PROVE  \E n \in DOMAIN shown :
                 /\ shown[n].at = i
                 /\ req.tool # "list_attachments" => shown[n].parts = thread[i].parts
    <3>1. CalmFacts /\ blob = {}
      BY <1>3 DEF ViewCalmInv
    <3>2. req \in ViewRequests /\ ReplyIs
      BY <1>3, <2>2, <3>1, ServedReply
    <3>. QED
      BY <1>3, <2>2, <3>1, <3>2, WholeIsShown
  <2>. QED
    BY <2>1, <2>2 DEF UndisturbedViewIsExact, May
<1>. QED
  BY <1>2, <1>3, EndCorrect, PTL

=============================================================================
