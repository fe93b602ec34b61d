------------------------------- MODULE GuardRead -------------------------------
(***************************************************************************)
(* One bug_info call against a Bugzilla that changes while the call runs.  *)
(*                                                                         *)
(* The call fetches the classification fields of every requested bug, one  *)
(* request each (Guard::assess), then the bodies of those it may read in   *)
(* one batch, puts every body back through the policy (assemble_bug_info), *)
(* asks which linked bugs it may name (Guard::disclosable) and answers.    *)
(* Between any two of these requests a bug can be embargoed, published or  *)
(* deleted and time passes; each request may fail, and each object may     *)
(* come back with fields missing.                                          *)
(*                                                                         *)
(* A fetched object keeps, beside what could be read of it, the record it  *)
(* was fetched from: that part is what the properties judge by, and no     *)
(* action of the call looks at it.  Projection (include_fields, detail)    *)
(* only removes fields and is left out; the audit record is in GuardViews. *)
(***************************************************************************)
EXTENDS GuardPolicy, FiniteSets

CONSTANTS
  Bugs,          \* the bugs of the instance, and ids that name none
  Policies,      \* the policies the server may have been started with
  Worlds,        \* what Bugzilla may hold under an id: records, or Gone
  Blinds,        \* the sets of fields a response may fail to carry
  Gone,          \* no such bug
  MaxAssessIds,  \* Guard::MAX_ASSESS_IDS
  MaxEdits,      \* bound: edits other clients make during the call
  MaxClock       \* bound: instants that pass during the call

ASSUME BoundsAssumption == MaxEdits \in Nat /\ MaxClock \in Nat
ASSUME PoliciesAssumption == Policies \subseteq Policy
ASSUME WorldsAssumption ==
  Worlds \subseteq [meta : CompleteMeta, links : SUBSET Bugs] \cup {Gone}
ASSUME GoneAssumption == Gone \notin [meta : CompleteMeta, links : SUBSET Bugs]

VARIABLES
  policy,   \* Guard.policy, fixed at startup
  world,    \* what Bugzilla holds now
  clock,    \* Utc::now()
  edits,    \* counts the edits, for the bound
  phase,    \* where the call is
  ids,      \* the distinct bug_ids of the request
  caller,   \* whether resolve_caller learnt the login
  now,      \* the instant the classification under way is dated
  asked,    \* the ids assess() has sent a request for
  seen,     \* the classification objects that came back
  body,     \* the full objects that came back
  served,   \* what assemble_bug_info serves: id -> object, view, instant
  target,   \* the objects disclosable() got for the links
  named,    \* the linked ids that may be named
  calm      \* history: nothing changed, failed or went unread so far

vars == <<policy, world, clock, edits, phase, ids, caller, now, asked, seen, body,
          served, target, named, calm>>

call == <<phase, ids, caller, now, asked, seen, body, served, target, named>>

Live == {b \in Bugs : world[b] # Gone}

\* An object Bugzilla answers with for bug b.
Fetched(b, blind) == [record |-> world[b], blind |-> blind]

\* The policy's verdict on a fetched object.
Judge(object, at) ==
  Classify(policy, FromJson(object.record.meta, object.blind, caller), at, "access")

Empty == [b \in {} |-> {}]

Phases == {"idle", "caller", "assess", "body", "assemble", "disclose", "answered", "refused"}

Init ==
  /\ policy \in Policies
  /\ world \in [Bugs -> Worlds]
  /\ clock = 0 /\ edits = 0
  /\ phase = "idle" /\ ids = {} /\ caller = FALSE /\ now = 0
  /\ asked = {} /\ seen = Empty /\ body = Empty /\ served = Empty
  /\ target = Empty /\ named = {}
  /\ calm = TRUE

-----------------------------------------------------------------------------
(* The environment                                                         *)

\* Somebody else edits, restricts, publishes or deletes bug b.
Edit(b) ==
  /\ edits < MaxEdits /\ phase \notin {"idle", "answered", "refused"}
  /\ \E record \in Worlds \ {world[b]} : world' = [world EXCEPT ![b] = record]
  /\ edits' = edits + 1 /\ calm' = FALSE
  /\ UNCHANGED <<policy, clock, call>>

Tick ==
  /\ clock < MaxClock /\ phase \notin {"idle", "answered", "refused"}
  /\ clock' = clock + 1 /\ calm' = FALSE
  /\ UNCHANGED <<policy, world, edits, call>>

-----------------------------------------------------------------------------
(* The call                                                                *)

\* bug_info up to its first request: an empty list, and more distinct ids
\* than the bound, are refused off the request alone.
Begin(wanted) ==
  /\ phase = "idle"
  /\ ids' = wanted
  /\ phase' = IF wanted = {} \/ Cardinality(wanted) > MaxAssessIds
                THEN "refused" ELSE "caller"
  /\ UNCHANGED <<policy, world, clock, edits, caller, now, asked, seen, body, served,
                 target, named, calm>>

\* resolve_caller: no lookup for a policy that asks for no identity; a failed
\* whoami leaves the caller unknown.  assess() then dates its verdicts.
ResolveCaller(ok) ==
  /\ phase = "caller"
  /\ ok => NeedsIdentity(policy)
  /\ caller' = ok
  /\ calm' = (calm /\ (NeedsIdentity(policy) => ok))
  /\ now' = clock
  /\ phase' = "assess"
  /\ UNCHANGED <<policy, world, clock, edits, ids, asked, seen, body, served, target, named>>

\* One classification request of assess(); bug b comes back ...
AssessOne(b, blind) ==
  /\ phase = "assess" /\ b \in ids \ asked
  /\ b \in Live
  /\ asked' = asked \cup {b}
  /\ seen' = [x \in DOMAIN seen \cup {b} |-> IF x = b THEN Fetched(b, blind) ELSE seen[x]]
  /\ calm' = (calm /\ blind = {})
  /\ UNCHANGED <<policy, world, clock, edits, phase, ids, caller, now, body, served,
                 target, named>>

\* ... or does not: it is gone, or the request failed.
AssessMissing(b) ==
  /\ phase = "assess" /\ b \in ids \ asked
  /\ asked' = asked \cup {b}
  /\ calm' = (calm /\ b \notin Live)
  /\ UNCHANGED <<policy, world, clock, edits, phase, ids, caller, now, seen, body, served,
                 target, named>>

\* The assessment: an id nothing came back for is denied.
Assessed(b) == IF b \in DOMAIN seen THEN Judge(seen[b], now) ELSE {}

ReadIds == {b \in ids : Allows(Assessed(b), "read")}

AssessDone ==
  /\ phase = "assess" /\ asked = ids
  /\ phase' = IF ReadIds = {} THEN "assemble" ELSE "body"
  /\ UNCHANGED <<policy, world, clock, edits, ids, caller, now, asked, seen, body, served,
                 target, named, calm>>

\* The batch of bodies: whatever subset of the live ones Bugzilla returns,
\* none of them when the request fails.
FetchBodies(got) ==
  /\ phase = "body" /\ got \subseteq ReadIds \cap Live
  /\ \E blind \in [got -> Blinds] :
       /\ body' = [b \in got |-> Fetched(b, blind[b])]
       /\ calm' = (calm /\ got = ReadIds /\ \A b \in got : blind[b] = {})
  /\ phase' = "assemble"
  /\ UNCHANGED <<policy, world, clock, edits, ids, caller, now, asked, seen, served,
                 target, named>>

\* (mutant) the body is served on the verdict of the classification fetch.
RecheckStale(b) == "full"

\* (mutant) the re-check runs without the caller's identity.
RecheckAnonymous(b) ==
  LET caps == Classify(policy, FromJson(body[b].record.meta, body[b].blind, FALSE), clock,
                       "access")
  IN  IF Allows(caps, "read") THEN "full" ELSE IF Allows(caps, "summary") THEN "summary" ELSE "none"

\* filter_bug_list on one body: what view of it may be served.
Recheck(b) ==
  LET caps == Judge(body[b], clock)
  IN  IF Allows(caps, "read") THEN "full" ELSE IF Allows(caps, "summary") THEN "summary" ELSE "none"

\* assemble_bug_info on one id: a readable bug on its body's own verdict, a
\* summary from the object it was granted on, everything else restricted.
View(b) ==
  IF b \in ReadIds THEN IF b \in DOMAIN body THEN Recheck(b) ELSE "none"
  ELSE IF Allows(Assessed(b), "summary") THEN "summary" ELSE "none"

Source(b) == IF b \in ReadIds THEN body[b] ELSE seen[b]

\* linked_bug_ids: a summary view carries no link field.
Links(item) == IF item.view = "full" THEN item.object.record.links ELSE {}

Assemble ==
  /\ phase = "assemble"
  /\ served' = [b \in {x \in ids : View(x) # "none"} |->
                  [object |-> Source(b), view |-> View(b),
                   at |-> IF b \in ReadIds THEN clock ELSE now]]
  /\ now' = clock
  /\ phase' = "disclose"
  /\ UNCHANGED <<policy, world, clock, edits, ids, caller, asked, seen, body, target, named,
                 calm>>

\* The linked ids not already answered for.
Candidates == (UNION {Links(served[b]) : b \in DOMAIN served}) \ DOMAIN served

\* Guard::disclosable: one request, sent even when there is nothing to ask;
\* a failed one names nobody.
Disclose(got) ==
  /\ phase = "disclose" /\ got \subseteq Candidates \cap Live
  /\ \E blind \in [got -> Blinds] :
       /\ target' = [b \in got |-> Fetched(b, blind[b])]
       /\ calm' = (calm /\ got = Candidates \cap Live /\ \A b \in got : blind[b] = {})
       /\ named' = DOMAIN served \cup
                   {b \in got : Allows(Judge(Fetched(b, blind[b]), now), "summary")}
  /\ phase' = "answered"
  /\ UNCHANGED <<policy, world, clock, edits, ids, caller, now, asked, seen, body, served>>

\* scrub_bug_links: the links of bug b the answer still shows.
Shown(b) == Links(served[b]) \cap named

Next ==
  \/ \E b \in Bugs : Edit(b)
  \/ Tick
  \/ \E wanted \in SUBSET Bugs : Begin(wanted)
  \/ \E ok \in BOOLEAN : ResolveCaller(ok)
  \/ \E b \in Bugs : AssessMissing(b) \/ \E blind \in Blinds : AssessOne(b, blind)
  \/ AssessDone
  \/ \E got \in SUBSET Bugs : FetchBodies(got) \/ Disclose(got)
  \/ Assemble

Spec == Init /\ [][Next]_vars

-----------------------------------------------------------------------------
(* Properties                                                              *)

\* What the policy grants over a record all of whose fields are known.
Entitled(record, at) == Classify(policy, record.meta, at, "access")

Object == [record : Worlds \ {Gone}, blind : Blinds]

\* Every variable holds what its comment says.
TypeOK ==
  /\ policy \in Policies /\ world \in [Bugs -> Worlds]
  /\ clock \in 0 .. MaxClock /\ now \in 0 .. MaxClock /\ edits \in 0 .. MaxEdits
  /\ phase \in Phases /\ caller \in BOOLEAN /\ calm \in BOOLEAN
  /\ ids \subseteq Bugs /\ (phase = "idle" => ids = {}) /\ asked \subseteq ids /\ named \subseteq Bugs
  /\ DOMAIN seen \subseteq asked /\ DOMAIN body \subseteq ids /\ DOMAIN served \subseteq ids
  /\ \A b \in DOMAIN seen : seen[b] \in Object
  /\ \A b \in DOMAIN body : body[b] \in Object
  /\ DOMAIN target \subseteq Bugs /\ \A b \in DOMAIN target : target[b] \in Object
  /\ \A b \in DOMAIN served :
       served[b] \in [object : Object, view : {"full", "summary"}, at : 0 .. MaxClock]

\* The bodies and summaries an answer carries are ones the policy, knowing
\* every field of that very version of the bug, entitles the client to at the
\* instant it was judged: neither a missing field nor a change between the
\* two fetches widens what is served (I4, and the re-check of
\* assemble_bug_info).
ServedIsEntitled ==
  \A b \in DOMAIN served :
    Allows(Entitled(served[b].object.record, served[b].at),
           IF served[b].view = "full" THEN "read" ELSE "summary")

\* The links an answer shows name only bugs the same answer serves, or ones
\* the policy entitles the client to a summary of as they were when
\* disclosable() looked (I2): a requested bug that was refused is not named
\* through the links of one that was served.
NamedIsEntitled ==
  phase = "answered" =>
    \A b \in DOMAIN served : \A link \in Shown(b) :
      \/ link \in DOMAIN served
      \/ link \in DOMAIN target /\ Allows(Entitled(target[link].record, now), "summary")

\* A call nothing disturbs withholds nothing: every requested bug is served
\* in the view the policy entitles the client to, with exactly the links it
\* may see.  The guard fails closed on what it could not read, and only on
\* that.
UndisturbedCallIsExact ==
  phase = "answered" /\ calm =>
    /\ DOMAIN served = {b \in ids \cap Live : Allows(Entitled(world[b], clock), "summary")}
    /\ \A b \in DOMAIN served :
         /\ (served[b].view = "full") <=> Allows(Entitled(world[b], clock), "read")
         /\ Shown(b) = {link \in Links(served[b]) \cap Live :
                           Allows(Entitled(world[link], clock), "summary")}
=============================================================================
