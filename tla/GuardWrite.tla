------------------------------ MODULE GuardWrite ------------------------------
(***************************************************************************)
(* One call of a write tool against a Bugzilla that changes while it runs. *)
(*                                                                         *)
(* Eight of the nine tools share one course: what the request alone can    *)
(* refuse is refused, the kinds of its custom fields are looked up, the    *)
(* caller is resolved, every bug the payload names is assessed, and only   *)
(* then the write is sent and its answer scrubbed.  create_bug has no bug  *)
(* to assess yet: the policy judges the request as Bugzilla will file it,  *)
(* and every refusal costs the requests a filing would.                    *)
(*                                                                         *)
(* A custom field's value is abstracted to the pieces it could be read as  *)
(* (CustomLinkValue): a bug, Clear, or Odd, which Bugzilla would resolve   *)
(* in a way the guard cannot judge.  As in GuardRead a fetched object      *)
(* keeps the record it came from, for the properties only.                 *)
(***************************************************************************)
EXTENDS GuardPolicy, FiniteSets

CONSTANTS
  Bugs,          \* the bugs of the instance, and ids that name none
  Policies,      \* the policies the server may have been started with
  Worlds,        \* the metadata Bugzilla may hold under an id, or Gone
  Blinds,        \* the sets of fields a response may fail to carry
  Gone,          \* no such bug
  CustomFields,  \* the cf_ fields of the instance
  Schemas,       \* what the custom fields may hold, by name
  Clear, Odd,    \* readings of a custom value that name no bug
  Names,         \* what a create request may hold for a field
  OddName,       \* a keyword list the rewrite leaves as it came
  Trimmed,       \* normalize_create_request: what it makes of a spelling
  Collated,      \* what Bugzilla's database takes a trimmed name for
  Requests,      \* the calls a client may make
  MaxAssessIds,  \* Guard::MAX_ASSESS_IDS
  LookupChunk,   \* custom_fields::LOOKUP_CHUNK
  MaxEdits,      \* bound: edits other clients make during the call
  MaxClock       \* bound: instants that pass during the call

\* CustomFieldKind
Kinds == {"BugId", "BugList", "Other", "Unknown"}

Pieces == Bugs \cup {Clear, Odd}

\* A custom value: one piece, or several (an array, a string with commas).
CustomValue == [many : BOOLEAN, pieces : SUBSET Pieces]

\* The tools and the capability each needs on the bug it writes to.
Needs ==
  [add_comment |-> "comment", update_bug_status |-> "status", assign_bug |-> "assign",
   add_cc_to_bug |-> "cc", add_attachment |-> "attach", update_bug_fields |-> "fields",
   update_bug_dependencies |-> "deps", mark_as_duplicate |-> "status",
   create_bug |-> "create"]

\* A request, of which a tool reads what it has parameters for: "adds" and
\* "removes" are the bugs its link parameters name, "plain" says that it also
\* changes a field that links nothing, "alien" that some custom field is not
\* named cf_, "big" that the upload is over the size limit, "keyed" that the
\* caller's API key is there.
Request ==
  [tool : DOMAIN Needs, bug : Bugs, adds : SUBSET Bugs, removes : SUBSET Bugs,
   custom : UNION {[S -> CustomValue] : S \in SUBSET CustomFields},
   plain : BOOLEAN, alien : BOOLEAN, big : BOOLEAN, keyed : BOOLEAN,
   filing : [Fields -> Option(Names)]]

\* The parameters a tool does not have are left out.
Shaped(r) ==
  /\ r.tool \notin {"update_bug_fields", "update_bug_dependencies", "mark_as_duplicate"} =>
       r.adds = {} /\ r.removes = {}
  /\ r.tool \notin {"update_bug_fields", "create_bug"} => DOMAIN r.custom = {} /\ ~r.alien
  /\ r.big => r.tool = "add_attachment"
  /\ \A f \in Fields \ {"keywords"} : OddName \notin r.filing[f]

ASSUME WriteBounds ==
  MaxEdits \in Nat /\ MaxClock \in Nat /\ MaxAssessIds \in Nat /\ LookupChunk \in Nat
ASSUME WriteInstants == 0 .. MaxClock \subseteq Instants
ASSUME WritePolicies == Policies \subseteq Policy
ASSUME WriteWorlds == Worlds \subseteq CompleteMeta \cup {Gone} /\ Gone \notin CompleteMeta
ASSUME WriteSchemas == Schemas \subseteq [CustomFields -> {"BugId", "BugList", "Other"}]
ASSUME WritePieces == {Clear, Odd} \cap Bugs = {} /\ Clear # Odd
ASSUME WriteNames ==
  OddName \in Names /\ Trimmed \in [Names \ {OddName} -> Values]
    /\ Collated \in [Values -> SUBSET Values]
ASSUME WriteRequests == Requests \subseteq Request /\ \A r \in Requests : Shaped(r)

VARIABLES
  policy,    \* Guard.policy, fixed at startup
  schema,    \* the kinds of the custom fields in Bugzilla
  world,     \* what Bugzilla holds now
  clock,     \* Utc::now()
  edits,     \* counts the edits, for the bound
  phase,     \* where the call is
  req,       \* the request, once it has arrived
  judged,    \* may_create's verdict, and the instant it is of
  kinds,     \* what kinds_fresh answered
  caller,    \* whether resolve_caller learnt the login
  now,       \* the instant the assessment is dated
  asked,     \* the ids assess() has sent a request for
  seen,      \* the classification objects that came back
  sent,      \* upstream requests so far
  outcome,   \* what the client is told, once it is
  filed,     \* the metadata of the bug a create has filed
  named,     \* the bugs the answer to a write names
  calm       \* history: nothing changed, failed or went unread so far

vars == <<policy, schema, world, clock, edits, phase, req, judged, kinds, caller, now, asked,
          seen, sent, outcome, filed, named, calm>>

environment == <<policy, schema, world, clock, edits>>
call == <<phase, req, judged, kinds, caller, now, asked, seen, sent, outcome, filed, named>>

Live == {b \in Bugs : world[b] # Gone}

Fetched(b, blind) == [record |-> world[b], blind |-> blind]

Judge(object, at) ==
  Classify(policy, FromJson(object.record, object.blind, caller), at, "access")

Empty == [b \in {} |-> {}]

Phases == {"idle", "kinds", "caller", "assess", "decide", "pad", "write", "ended"}

Outcomes == {"none", "refused", "denied", "target denied", "odd", "self", "big", "written",
             "failed"}

Init ==
  /\ policy \in Policies /\ schema \in Schemas
  /\ world \in [Bugs -> Worlds]
  /\ clock = 0 /\ edits = 0
  /\ phase = "idle" /\ req \in Requests
  /\ judged = [ok |-> FALSE, at |-> 0] /\ kinds = Empty /\ caller = FALSE /\ now = 0
  /\ asked = {} /\ seen = Empty /\ sent = 0
  /\ outcome = "none" /\ filed = {} /\ named = {}
  /\ calm = TRUE

-----------------------------------------------------------------------------
(* The environment.  It moves while the call still looks: what changes     *)
(* between the last assessment and the write is seen by no later step, and *)
(* no property speaks of it.                                               *)

Looking == phase \in {"kinds", "caller", "assess"}

\* Somebody else edits, restricts, publishes or deletes bug b.
Edit(b) ==
  /\ edits < MaxEdits /\ Looking
  /\ \E record \in Worlds \ {world[b]} : world' = [world EXCEPT ![b] = record]
  /\ edits' = edits + 1 /\ calm' = FALSE
  /\ UNCHANGED <<policy, schema, clock, call>>

Tick ==
  /\ clock < MaxClock /\ Looking
  /\ clock' = clock + 1 /\ calm' = FALSE
  /\ UNCHANGED <<policy, schema, world, edits, call>>

-----------------------------------------------------------------------------
(* What the request says                                                   *)

Creating == req.tool = "create_bug"

\* Every bug the custom values could name, whatever the fields' kinds.
CandidateIds(r) == UNION {r.custom[f].pieces : f \in DOMAIN r.custom} \cap Bugs

\* The bugs a request names outside its custom fields.
Direct(r) == IF r.tool = "create_bug" THEN {} ELSE {r.bug} \cup r.adds \cup r.removes

TooManyIds(r) == Cardinality(Direct(r) \cup CandidateIds(r)) > MaxAssessIds
TooManyFields(r) == Cardinality(DOMAIN r.custom) > LookupChunk

\* The refusals that read the request alone and cost no upstream request.
CreateRefused(r) == TooManyFields(r) \/ r.alien \/ TooManyIds(r)

FieldsRefused(r) ==
  \/ TooManyFields(r) \/ r.alien
  \/ r.adds = {} /\ r.removes = {} /\ ~r.plain /\ DOMAIN r.custom = {}
  \/ TooManyIds(r)

DependenciesRefused(r) == (r.adds = {} /\ r.removes = {}) \/ TooManyIds(r)

RefusedOutright(r) ==
  \/ ~r.keyed
  \/ r.tool = "create_bug" /\ CreateRefused(r)
  \/ r.tool = "update_bug_fields" /\ FieldsRefused(r)
  \/ r.tool = "update_bug_dependencies" /\ DependenciesRefused(r)

\* normalize_create_request, and what of the result is evidence: a name as
\* spelled once trimmed, whatever the database will take it for, but never
\* the groups, nor a keyword list the rewrite could not put in its filed form.
Prospective(r) ==
  [text    |-> [f \in Fields |-> IF f = "groups" THEN {}
                                 ELSE {Trimmed[n] : n \in r.filing[f] \ {OddName}}],
   created |-> {clock}, mine |-> {TRUE}]

\* (mutant) the request is judged as it was spelt.
MayCreateRaw(r) ==
  Allows(Classify(policy, [Prospective(r) EXCEPT !.text = [f \in Fields |->
           IF f = "groups" THEN {} ELSE r.filing[f] \ {OddName}]], clock, "create"), "create")

\* Guard::may_create
MayCreate(r) == Allows(Classify(policy, Prospective(r), clock, "create"), "create")

\* How custom_links reads one field: a scalar field holds one piece, a list
\* field several, a field of any other kind no link.
Readings(value, kind) ==
  CASE kind = "Other" -> {}
    [] kind = "BugList" -> value.pieces
    [] OTHER -> IF value.many THEN {Odd} ELSE value.pieces

LinkReadings(r, k) ==
  UNION {Readings(r.custom[f], k[f]) : f \in DOMAIN r.custom \cap DOMAIN k}

\* The bugs the call assesses, and whether it holds a value it cannot judge.
Ids == Direct(req) \cup (LinkReadings(req, kinds) \cap Bugs)
Unassessable == Odd \in LinkReadings(req, kinds)

-----------------------------------------------------------------------------
(* The call                                                                *)


\* The handler up to its first request.  The create gate judges the request
\* here, before anything is looked up.
Begin ==
  /\ phase = "idle"
  /\ judged' = [ok |-> Creating /\ MayCreate(req), at |-> clock]
  /\ IF RefusedOutright(req)
       THEN phase' = "ended" /\ outcome' = "refused"
       ELSE /\ outcome' = "none"
            /\ phase' = IF DOMAIN req.custom # {} THEN "kinds"
                        ELSE IF Creating THEN "decide" ELSE "caller"
  /\ UNCHANGED <<environment, req, kinds, caller, now, asked, seen, sent, filed, named, calm>>

\* kinds_fresh: one lookup whatever the cache holds; a field the answer does
\* not settle is of unknown kind.
LookUp(known) ==
  /\ phase = "kinds" /\ known \subseteq DOMAIN req.custom
  /\ kinds' = [f \in DOMAIN req.custom |-> IF f \in known THEN schema[f] ELSE "Unknown"]
  /\ sent' = sent + 1
  /\ calm' = (calm /\ known = DOMAIN req.custom)
  /\ phase' = IF Direct(req) \cup (LinkReadings(req, kinds') \cap Bugs) = {}
                THEN "decide" ELSE "caller"
  /\ UNCHANGED <<environment, req, judged, caller, now, asked, seen, outcome, filed, named>>

\* resolve_caller: a request only where the policy asks for an identity.
ResolveCaller(ok) ==
  /\ phase = "caller"
  /\ ok => NeedsIdentity(policy)
  /\ caller' = ok
  /\ sent' = sent + (IF NeedsIdentity(policy) THEN 1 ELSE 0)
  /\ calm' = (calm /\ (NeedsIdentity(policy) => ok))
  /\ now' = clock
  /\ phase' = "assess"
  /\ UNCHANGED <<environment, req, judged, kinds, asked, seen, outcome, filed, named>>

\* One request of assess(); bug b comes back ...
AssessOne(b, blind) ==
  /\ phase = "assess" /\ b \in (Ids \ asked) \cap Live
  /\ asked' = asked \cup {b}
  /\ seen' = [x \in DOMAIN seen \cup {b} |-> IF x = b THEN Fetched(b, blind) ELSE seen[x]]
  /\ sent' = sent + 1
  /\ calm' = (calm /\ blind = {})
  /\ UNCHANGED <<environment, phase, req, judged, kinds, caller, now, outcome, filed, named>>

\* ... or does not: it is gone, or the request failed.
AssessMissing(b) ==
  /\ phase = "assess" /\ b \in Ids \ asked
  /\ asked' = asked \cup {b}
  /\ sent' = sent + 1
  /\ calm' = (calm /\ b \notin Live)
  /\ UNCHANGED <<environment, phase, req, judged, kinds, caller, now, seen, outcome, filed,
                 named>>

AssessDone ==
  /\ phase = "assess" /\ asked = Ids
  /\ phase' = "decide"
  /\ UNCHANGED <<environment, req, judged, kinds, caller, now, asked, seen, sent, outcome,
                 filed, named, calm>>

\* What the assessment grants; an id nothing came back for is denied.
Assessed(b) == IF b \in DOMAIN seen THEN Judge(seen[b], now) ELSE {}

\* (mutant) only the bugs a write adds are checked.
TargetsOkAdds ==
  \A b \in Ids \ (req.removes \cup {req.bug}) : Allows(Assessed(b), "summary")

\* (mutant) a link target has to be readable.
TargetsOkRead ==
  \A b \in Ids \ (IF Creating THEN {} ELSE {req.bug}) : Allows(Assessed(b), "read")

\* Every other bug the payload names may be named.  For a create the targets
\* are all of them.
TargetsOk ==
  \A b \in Ids \ (IF Creating THEN {} ELSE {req.bug}) : Allows(Assessed(b), "summary")

OwnOk == Allows(Assessed(req.bug), Needs[req.tool])

\* A bug that depends on itself, or duplicates itself.  Clearing such a link
\* is let through.
SelfLinked == req.bug \in req.adds

\* What each tool refuses its write with; "none" sends it.  deny_unless:
PlainVerdict == IF OwnOk THEN "none" ELSE "denied"

AttachVerdict == IF ~OwnOk THEN "denied" ELSE IF req.big THEN "big" ELSE "none"

\* (mutant) a value the guard cannot judge is refused before the denial.
FieldsVerdictEager ==
  IF Unassessable THEN "odd"
  ELSE IF ~OwnOk THEN "denied"
  ELSE IF ~TargetsOk THEN "target denied" ELSE "none"

FieldsVerdict ==
  IF ~OwnOk THEN "denied"
  ELSE IF Unassessable THEN "odd"
  ELSE IF ~TargetsOk THEN "target denied" ELSE "none"

LinkVerdict ==
  IF ~OwnOk THEN "denied"
  ELSE IF ~TargetsOk THEN "target denied"
  ELSE IF SelfLinked THEN "self" ELSE "none"

\* The duplicate has to be nameable even when it is the bug itself.
DuplicateVerdict ==
  IF OwnOk /\ SelfLinked /\ ~Allows(Assessed(req.bug), "summary") THEN "target denied"
  ELSE LinkVerdict

UpdateVerdict ==
  CASE req.tool = "add_attachment" -> AttachVerdict
    [] req.tool = "update_bug_fields" -> FieldsVerdict
    [] req.tool = "update_bug_dependencies" -> LinkVerdict
    [] req.tool = "mark_as_duplicate" -> DuplicateVerdict
    [] OTHER -> PlainVerdict

DecideUpdate ==
  /\ phase = "decide" /\ ~Creating
  /\ outcome' = UpdateVerdict
  /\ phase' = IF UpdateVerdict = "none" THEN "write" ELSE "ended"
  /\ UNCHANGED <<environment, req, judged, kinds, caller, now, asked, seen, sent, filed, named,
                 calm>>

\* (mutant) a create the policy refuses is refused at once.
DecideCreateAtOnce ==
  /\ phase = "decide" /\ Creating
  /\ IF Unassessable \/ ~TargetsOk \/ ~judged.ok
       THEN phase' = "ended" /\ outcome' = "denied"
       ELSE phase' = "write" /\ outcome' = "none"
  /\ UNCHANGED <<environment, req, judged, kinds, caller, now, asked, seen, sent, filed, named,
                 calm>>

\* A create the policy, a target or a value refuses goes to the padding.
DecideCreate ==
  /\ phase = "decide" /\ Creating
  /\ phase' = IF Unassessable \/ ~TargetsOk \/ ~judged.ok THEN "pad" ELSE "write"
  /\ UNCHANGED <<environment, req, judged, kinds, caller, now, asked, seen, sent, outcome,
                 filed, named, calm>>

\* assess(&[0]): a request in place of the filing that will not be.
Pad ==
  /\ phase = "pad"
  /\ sent' = sent + 1
  /\ outcome' = "denied" /\ phase' = "ended"
  /\ UNCHANGED <<environment, req, judged, kinds, caller, now, asked, seen, filed, named, calm>>

\* The write fails upstream.  A create says what a refused one says.
WriteFails ==
  /\ phase = "write"
  /\ sent' = sent + 1
  /\ outcome' = IF Creating THEN "denied" ELSE "failed"
  /\ phase' = "ended" /\ calm' = FALSE
  /\ UNCHANGED <<environment, req, judged, kinds, caller, now, asked, seen, filed, named>>

\* What Bugzilla may file: the name its database finds for one given, what it
\* pleases for the groups, the fields left out and the lists it resolves
\* itself, and its default in place of a priority the submitter may not choose.
Fileable(f) ==
  IF f \in {"groups", "priority"} \/ req.filing[f] \in {{}, {OddName}} THEN Values
  ELSE UNION {Collated[Trimmed[n]] : n \in req.filing[f]}

Create(text) ==
  /\ phase = "write" /\ Creating
  /\ \A f \in Fields : text[f] \in Fileable(f)
  /\ filed' = {[text |-> [f \in Fields |-> {text[f]}], created |-> {judged.at},
                mine |-> {TRUE}]}
  /\ sent' = sent + 1
  /\ outcome' = "written" /\ phase' = "ended"
  /\ UNCHANGED <<environment, req, judged, kinds, caller, now, asked, seen, named, calm>>

\* scrub_update_changes on one change: the ids it still names.  A field not
\* looked up is of unknown kind, and that is split like a list; "links" is
\* the core link fields.
Kept(f, ids) ==
  IF f \in DOMAIN kinds /\ kinds[f] = "Other" THEN ids ELSE ids \cap Ids

\* Bugzilla reports the change of field f of bug entry, naming ids: the entry
\* may be any bug, a field that holds no link names none.  add_attachment
\* passes on what Bugzilla answers, the other tools what update_response keeps.
Update(entry, f, ids) ==
  /\ phase = "write" /\ ~Creating
  /\ (f \in CustomFields /\ schema[f] = "Other") => ids = {}
  /\ named' = IF req.tool = "add_attachment" THEN {entry} \cup ids
              ELSE IF entry \in Ids THEN {entry} \cup Kept(f, ids) ELSE {}
  /\ sent' = sent + 1
  /\ outcome' = "written" /\ phase' = "ended"
  /\ UNCHANGED <<environment, req, judged, kinds, caller, now, asked, seen, filed, calm>>

Next ==
  \/ \E b \in Bugs : Edit(b)
  \/ Tick
  \/ Begin
  \/ \E known \in SUBSET CustomFields : LookUp(known)
  \/ \E ok \in BOOLEAN : ResolveCaller(ok)
  \/ \E b \in Bugs : AssessMissing(b) \/ \E blind \in Blinds : AssessOne(b, blind)
  \/ AssessDone
  \/ DecideUpdate
  \/ DecideCreate
  \/ Pad
  \/ WriteFails
  \/ \E text \in [Fields -> Values] : Create(text)
  \/ \E entry \in Bugs, f \in CustomFields \cup {"links"}, ids \in SUBSET Bugs :
       Update(entry, f, ids)

Spec == Init /\ [][Next]_vars

-----------------------------------------------------------------------------
(* Properties                                                              *)

Entitled(record, at) == Classify(policy, record, at, "access")

\* The write has gone out: it landed, or failed after it was sent.
Written == phase = "ended" /\ outcome \in {"written", "failed"}

\* Every variable holds what its comment says.
TypeOK ==
  /\ policy \in Policies /\ schema \in Schemas /\ world \in [Bugs -> Worlds]
  /\ clock \in 0 .. MaxClock /\ now \in 0 .. MaxClock /\ edits \in 0 .. MaxEdits
  /\ phase \in Phases /\ outcome \in Outcomes /\ req \in Requests
  /\ judged \in [ok : BOOLEAN, at : 0 .. MaxClock]
  /\ caller \in BOOLEAN /\ calm \in BOOLEAN
  /\ DOMAIN kinds \subseteq DOMAIN req.custom /\ \A f \in DOMAIN kinds : kinds[f] \in Kinds
  /\ asked \subseteq Ids /\ (phase \in {"idle", "kinds"} => asked = {}) /\ named \subseteq Bugs /\ sent \in Nat
  /\ DOMAIN seen \subseteq asked
  /\ \A b \in DOMAIN seen : seen[b] \in [record : Worlds \ {Gone}, blind : Blinds]
  /\ filed \subseteq CompleteMeta

\* The bugs the write links to as Bugzilla reads its custom fields, and
\* whether it resolves a value the guard never saw a bug in.
TrueReadings == LinkReadings(req, schema)

\* A write that goes out was granted: on the bug it changes the policy,
\* knowing all of the version assessed, grants the tool's capability, and it
\* grants a summary of every bug the payload links or unlinks, custom fields
\* included, whatever their lookup answered (I8, I11, I14).  No value that
\* Bugzilla resolves its own way is among them.
WriteIsEntitled ==
  Written \/ filed # {} =>
    /\ ~Creating => /\ req.bug \in DOMAIN seen
                    /\ Allows(Entitled(seen[req.bug].record, now), Needs[req.tool])
    /\ Odd \notin TrueReadings
    /\ \A b \in (Direct(req) \ {req.bug}) \cup (TrueReadings \cap Bugs) :
         \/ ~Creating /\ b = req.bug
         \/ b \in DOMAIN seen /\ Allows(Entitled(seen[b].record, now), "summary")

\* Every name the request gave is filed as it was rewritten: no collation of
\* Bugzilla's database took it for another, nor did a default replace it.
AsRewritten(meta) ==
  \A f \in Fields \ {"groups"} : \A n \in req.filing[f] \ {OddName} :
    meta.text[f] = {Trimmed[n]}

\* The create grants are on names the database takes for nothing but
\* themselves, ahead of a default deny ("an allowlist-shaped create grant").
Allowlist ==
  /\ policy.default_action = "deny"
  /\ \A i \in DOMAIN policy.rules : AppliesTo(policy.rules[i], "create") =>
       /\ \/ policy.rules[i].action = "allow"
          \/ policy.rules[i].action = "restrict" /\ "create" \in policy.rules[i].capabilities
       /\ \A c \in policy.rules[i].matcher.criteria :
            c.field # "priority" /\ \A v \in c.accepts : Collated[v] \subseteq {v}

\* A bug is filed only if the policy grants create on the bug that comes to
\* be, with the groups Bugzilla adds, the fields it fills in and the lists it
\* resolves, whatever the request claims of them and however it pads a name.
\* Known limits of may_create: Bugzilla may take a name for one its collation
\* calls equal, or replace a priority, and so file what a rule refuses; under
\* an allowlist of exact names "an equivalent spelling can then only be
\* refused, never admitted".
FiledIsJudged ==
  \A meta \in filed : AsRewritten(meta) \/ Allowlist =>
    Allows(Classify(policy, meta, judged.at, "create"), "create")

\* The requests the call costs, read off the request, the kinds of its
\* custom fields and the policy's need for an identity alone.
LookupCost == IF DOMAIN req.custom = {} THEN 0 ELSE 1
AssessCost == IF Ids = {} THEN 0 ELSE Cardinality(Ids) + (IF NeedsIdentity(policy) THEN 1 ELSE 0)

\* However a create ends it has cost the same requests, and what a denied
\* update has cost does not depend on which of its bugs was denied, hidden or
\* absent: a clock learns nothing from the count (I2).
CostTellsNothing ==
  phase = "ended" /\ outcome # "refused" =>
    sent = LookupCost + AssessCost + (IF Creating \/ Written THEN 1 ELSE 0)

\* A refusal that says what a value or the request is wrong about, or that a
\* write failed, is for a caller who may write to the bug: it tells a field's
\* kind, or that the bug is there, to nobody else.
RefusalIsForWriters ==
  outcome \in {"odd", "self", "big", "target denied", "failed"} =>
    /\ req.bug \in DOMAIN seen
    /\ Allows(Entitled(seen[req.bug].record, now), Needs[req.tool])

\* The answer to an update names only bugs the call has assessed and found
\* fit to be named, whatever Bugzilla reports and however the lookup of the
\* fields' kinds went (update_response).  What add_attachment answers is
\* Bugzilla's own, and left to what an upload's answer holds.
AnswerNamesAssessed ==
  req.tool # "add_attachment" =>
    \A b \in named :
      /\ b \in DOMAIN seen
      /\ Allows(Entitled(seen[b].record, now), "summary") \/ b = req.bug

\* A call nothing disturbs is let through exactly when the policy entitles
\* the caller to it and the request is one Bugzilla can carry out: the guard
\* refuses nothing without a cause.
MayWrite ==
  /\ ~Creating => /\ req.bug \in Live
                  /\ Allows(Entitled(world[req.bug], clock), Needs[req.tool])
                  /\ ~(req.tool # "update_bug_fields" /\ SelfLinked) /\ ~req.big
  /\ Creating => MayCreate(req)
  /\ Odd \notin TrueReadings
  /\ \A b \in (Direct(req) \cup (TrueReadings \cap Bugs)) \ (IF Creating THEN {} ELSE {req.bug}) :
       b \in Live /\ Allows(Entitled(world[b], clock), "summary")
UndisturbedWriteIsExact ==
  phase = "ended" /\ calm /\ outcome # "refused" => (outcome = "written" <=> MayWrite)

\* What the answer to a write says, it says only to who may know: the reason
\* of a refusal to a writer, and of an update no bug the call did not assess.
AnswerIsForWriters == RefusalIsForWriters /\ AnswerNamesAssessed
=============================================================================
