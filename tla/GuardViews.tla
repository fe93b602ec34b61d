------------------------------ MODULE GuardViews ------------------------------
(***************************************************************************)
(* The read tools that serve what hangs on one bug: bug_comments,          *)
(* summarize_bug, bug_history, list_attachments and download_attachment,   *)
(* beside bug_info of GuardRead, whose environment they share.             *)
(*                                                                         *)
(* Four of them take the same course: the bug is assessed, its thread is   *)
(* fetched in a second request and served on the verdict of the first,     *)
(* after private items, bugs that may not be named and what the client's   *)
(* window leaves out are removed, in that order.  A download assesses the  *)
(* bug its metadata names and checks again what then arrives.              *)
(*                                                                         *)
(* Thread items are abstracted to their privacy and to the bugs each part  *)
(* names: a comment's duplicate marker, a history entry's changes.         *)
(***************************************************************************)
EXTENDS GuardRead, AuditCell, SequencesExt

CONSTANTS
  ViewRequests,  \* the calls a client may make
  Globals,       \* what the [global] section may say
  Threads,       \* what Bugzilla may answer with, by tool
  Files,         \* the attachment records Bugzilla may answer with
  CustomFields,  \* the cf_ fields of the instance
  FieldKinds,    \* what each of them holds in Bugzilla
  Outdated,      \* what it held earlier in this process, and may be cached
  Foreign,       \* a piece of text that names no bug of this Bugzilla
  Lengths,       \* the sizes of windows and of files that occur
  MaxDisclose    \* the ids disclosable() asks about at most

\* What a tool needs on the bug: deny_unless, and the download's assessment.
NeedsView == [bug_comments |-> "comments", summarize_bug |-> "comments",
              bug_history |-> "history", list_attachments |-> "attachments",
              download_attachment |-> "attachments"]

ViewTools == DOMAIN NeedsView

ViewRequest == [tool : ViewTools, bug : Bugs, include_private : BOOLEAN,
                head : Option(Lengths), tail : Option(Lengths)]

\* A part of an item: one side of a change to a field, what it added or what
\* it removed, or the marker of a comment.
Part == [field : {"list", "url", "plain", "marker"} \cup CustomFields,
         pieces : SUBSET (Bugs \cup {Foreign})]

Item == [private : Option(BOOLEAN), parts : SUBSET Part]

\* The members of a set of places, in the order of the list they are of.
InOrder(S) ==
  [n \in 1 .. Cardinality(S) |-> CHOOSE i \in S : Cardinality({j \in S : j < i}) = n - 1]

\* An attachment: the bug it says it belongs to, the size it reports, the
\* decoded size of its data, and whether it has any.
File == [owner : Option(Bugs), private : Option(BOOLEAN), size : Option(Lengths), real : Lengths,
         data : BOOLEAN]

ASSUME LengthsAssumption == Lengths \subseteq Nat
ASSUME ViewRequestsAssumption == ViewRequests \subseteq ViewRequest
ASSUME GlobalsAssumption ==
  Globals \subseteq [allow_private_comments : BOOLEAN, max_attachment_bytes : Nat]

\* No custom field has the name of one of the fields every Bugzilla has: those
\* of the deployment are named cf_*.
ASSUME FieldsAssumption == CustomFields \cap {"list", "url", "plain", "marker"} = {}

\* An id of another tracker is no id of this one, and the bugs of a Bugzilla
\* are finitely many.
ASSUME ForeignAssumption == Foreign \notin Bugs
ASSUME BugsAssumption == IsFiniteSet(Bugs)

\* A thread is a list of items of its tool: an entry of a history carries no
\* is_private, and only the text of a comment can be a duplicate marker.
ASSUME ThreadsAssumption ==
  /\ DOMAIN Threads = ViewTools \ {"download_attachment"}
  /\ \A t \in DOMAIN Threads : Threads[t] \subseteq Seq(Item)
  /\ \A t \in DOMAIN Threads : \A arrived \in Threads[t] : \A i \in DOMAIN arrived :
       /\ t = "bug_history" => arrived[i].private = {}
       /\ \A part \in arrived[i].parts :
            (part.field = "marker") <=> (t \in {"bug_comments", "summarize_bug"})
ASSUME FilesAssumption == Files \subseteq File
\* CustomFieldKind, but for Unknown: one bug, a list of bugs, no link.
Kinds == {"BugId", "BugList", "Other"}

\* A field may be removed and made anew with another type while the process
\* runs; the history kept under its name is read with either.
ASSUME FieldKindsAssumption ==
  /\ FieldKinds \in [CustomFields -> Kinds]
  /\ Outdated \in [CustomFields -> SUBSET Kinds]
ASSUME MaxDiscloseAssumption == MaxDisclose \in Nat

VARIABLES
  global,    \* GlobalPolicy, fixed at startup
  stage,     \* where the call is
  req,       \* its request
  bug,       \* the bug it assesses: {} for the padding against bug 0
  object,    \* the classification object that came back, or {}
  file,      \* the metadata of the attachment, or {}
  blob,      \* the attachment fetched with its data, or {}
  thread,    \* the thread as it arrived
  kinds,     \* what the field cache said of its custom fields
  targets,   \* the objects disclosable() got
  shown,     \* the items of the reply: their place in the thread, their parts
  omitted,   \* truncation.omitted_*
  cell,      \* the audit cell of the call, bug_info's too
  sent,      \* upstream requests so far
  outcome    \* how the call ended

viewVars == <<global, stage, req, bug, object, file, blob, thread, kinds, targets, shown,
              omitted, cell, sent, outcome>>

readVars == <<phase, ids, asked, seen, body, served, target, named>>

Outcomes == {"none", "denied", "failed", "size", "no data", "served"}

ViewInit ==
  /\ Init
  /\ global \in Globals
  /\ stage = "idle" /\ req = {} /\ bug = {} /\ object = {} /\ file = {} /\ blob = {}
  /\ thread = <<>> /\ kinds = Empty /\ targets = Empty
  /\ shown = <<>> /\ omitted = 0 /\ cell = NothingNoted
  /\ sent = 0 /\ outcome = "none"

-----------------------------------------------------------------------------
(* The environment, while a view is under way                              *)

Busy == stage \notin {"idle", "done"}

ViewEdit(b) ==
  /\ edits < MaxEdits /\ Busy
  /\ \E record \in Worlds \ {world[b]} : world' = [world EXCEPT ![b] = record]
  /\ edits' = edits + 1 /\ calm' = FALSE
  /\ UNCHANGED <<policy, clock, caller, now, readVars, viewVars>>

ViewTick ==
  /\ clock < MaxClock /\ Busy
  /\ clock' = clock + 1 /\ calm' = FALSE
  /\ UNCHANGED <<policy, world, edits, caller, now, readVars, viewVars>>

-----------------------------------------------------------------------------
(* The assessment                                                          *)

ViewBegin(r) ==
  /\ phase = "idle" /\ stage = "idle"
  /\ req' = r
  /\ IF r.tool = "download_attachment"
       THEN stage' = "meta" /\ bug' = {}
       ELSE stage' = "caller" /\ bug' = {r.bug}
  /\ UNCHANGED <<policy, world, clock, edits, caller, now, calm, readVars, global, object, file,
                 blob, thread, kinds, targets, shown, omitted, cell, sent, outcome>>

\* (mutant) a download without metadata is refused at once.
FetchMetaEager(found) ==
  /\ stage = "meta"
  /\ file' = found
  /\ bug' = UNION {f.owner : f \in found}
  /\ sent' = sent + 1
  /\ IF bug' = {} THEN stage' = "done" /\ outcome' = "denied"
                  ELSE stage' = "caller" /\ outcome' = outcome
  /\ UNCHANGED <<policy, world, clock, edits, caller, now, calm, readVars, global, req, object,
                 blob, thread, kinds, targets, shown, omitted, cell>>

\* attachment_meta: a record, or nothing: no such attachment, or the request
\* failed.  A record that names no bug is assessed as bug 0.
FetchMeta(found) ==
  /\ stage = "meta"
  /\ file' = found
  /\ bug' = UNION {f.owner : f \in found}
  /\ sent' = sent + 1
  /\ stage' = "caller"
  /\ UNCHANGED <<policy, world, clock, edits, caller, now, calm, readVars, global, req, object,
                 blob, thread, kinds, targets, shown, omitted, cell, outcome>>

\* resolve_caller, as in GuardRead.
ViewCaller(ok) ==
  /\ stage = "caller"
  /\ ok => NeedsIdentity(policy)
  /\ caller' = ok
  /\ calm' = (calm /\ (NeedsIdentity(policy) => ok))
  /\ sent' = sent + (IF NeedsIdentity(policy) THEN 1 ELSE 0)
  /\ now' = clock
  /\ stage' = "assess"
  /\ UNCHANGED <<policy, world, clock, edits, readVars, global, req, bug, object, file, blob,
                 thread, kinds, targets, shown, omitted, cell, outcome>>

\* The one request of the assessment, sent for bug 0 too: the bug comes back
\* or, gone or the request having failed, does not.
ViewAssess(got) ==
  /\ stage = "assess" /\ got \subseteq bug \cap Live
  /\ \E blind \in Blinds :
       /\ object' = {Fetched(b, blind) : b \in got}
       /\ calm' = (calm /\ got = bug \cap Live /\ blind = {})
  /\ sent' = sent + 1
  /\ stage' = "decide"
  /\ UNCHANGED <<policy, world, clock, edits, caller, now, readVars, global, req, bug, file,
                 blob, thread, kinds, targets, shown, omitted, cell, outcome>>

Granted == \E o \in object : Allows(Judge(o, now), NeedsView[req.tool])

\* Both opt-ins a private item needs (I5).
PrivateAllowed == req.include_private /\ global.allow_private_comments

\* attachment_gate: a missing flag is private, a missing size too large.
Gate(f) ==
  IF f.private # {FALSE} /\ ~PrivateAllowed THEN "denied"
  ELSE IF /\ global.max_attachment_bytes > 0
          /\ ~ \E size \in f.size : size <= global.max_attachment_bytes THEN "size"
  ELSE "none"

\* What deny_unless and the download note of the assessment: the padding with
\* bug 0 is decided by no rule.
AssessmentNoted ==
  IF bug = {} THEN NoteVerdict(cell, "Denied")
  ELSE NoteVerdictRule(cell, IF Granted THEN "Served" ELSE "Denied", CHOOSE b \in bug : TRUE)

\* A refusal after the assessment is noted without a rule.
OutcomeNoted(noted, ended) ==
  CASE ended \in {"denied", "size"} -> NoteVerdict(noted, "Denied")
    [] ended = "no data" -> NoteVerdict(noted, "Refused")
    [] OTHER -> noted

\* The verdict, and for a download the gate on the metadata.
Decide ==
  /\ stage = "decide"
  /\ outcome' = IF ~Granted THEN "denied"
                ELSE IF req.tool = "download_attachment" THEN Gate(CHOOSE f \in file : TRUE)
                ELSE "none"
  /\ stage' = IF outcome' # "none" THEN "done"
              ELSE IF req.tool = "download_attachment" THEN "data" ELSE "fetch"
  /\ cell' = OutcomeNoted(AssessmentNoted, outcome')
  /\ UNCHANGED <<policy, world, clock, edits, caller, now, calm, readVars, global, req, bug,
                 object, file, blob, thread, kinds, targets, shown, omitted, sent>>

-----------------------------------------------------------------------------
(* A download                                                              *)

\* The checks on what arrived: the owner, the gate, the data and its size.
DataVerdict(f) ==
  IF f.owner # bug THEN "denied"
  ELSE IF Gate(f) # "none" THEN Gate(f)
  ELSE IF ~f.data THEN "no data"
  ELSE IF global.max_attachment_bytes > 0 /\ f.real > global.max_attachment_bytes THEN "size"
  ELSE "served"

Windowed == req.head # {} \/ req.tail # {}

\* attachment_data: whatever the attachment is by then, or nothing.  Whether a
\* window the client asked for cuts the text depends on the text.
FetchData(found) ==
  /\ stage = "data"
  /\ blob' = found
  /\ outcome' = IF found = {} THEN "denied" ELSE DataVerdict(CHOOSE f \in found : TRUE)
  /\ \E cut \in BOOLEAN :
       /\ cut => outcome' = "served" /\ Windowed
       /\ cell' = IF cut THEN NoteClientWindow(cell, "attachment_window")
                  ELSE OutcomeNoted(cell, outcome')
  /\ calm' = (calm /\ found = file)
  /\ sent' = sent + 1
  /\ stage' = "done"
  /\ UNCHANGED <<policy, world, clock, edits, caller, now, readVars, global, req, bug, object,
                 file, thread, kinds, targets, shown, omitted>>

-----------------------------------------------------------------------------
(* What a thread names                                                     *)

\* (mutant) a missing flag counts as private.
HiddenStrict(item) == item.private # {FALSE} /\ ~PrivateAllowed

\* filter_private: a missing flag means public.
Hidden(item) == item.private = {TRUE} /\ ~PrivateAllowed

\* The kind a field is judged by: one that was not learnt is unknown.
KindRead(field, k) == IF field \in DOMAIN k THEN k[field] ELSE "Unknown"

\* (mutant) a field whose kind is not known is taken to link nothing.
LinkKindTrusting(field, k) ==
  IF field = "url" THEN "url"
  ELSE IF field \in {"list", "marker"} THEN field
  ELSE IF field \notin CustomFields THEN "none"
  ELSE CASE KindRead(field, k) = "BugId" -> "strict"
         [] KindRead(field, k) = "BugList" -> "list"
         [] OTHER -> "none"

\* history_link_kind, and the marker of a comment: how a part names bugs.
LinkKind(field, k) ==
  IF field = "url" THEN "url"
  ELSE IF field \in {"list", "marker"} THEN field
  ELSE IF field \notin CustomFields THEN "none"
  ELSE CASE KindRead(field, k) = "BugId" -> "strict"
         [] KindRead(field, k) = "BugList" -> "list"
         [] KindRead(field, k) = "Unknown" -> "lenient"
         [] OTHER -> "none"

\* scalar_bug_id: a text names a bug as a scalar when it is its id and no more.
ScalarId(part) == {b \in Bugs : part.pieces = {b}}

\* walk_history and history_ids_in: the bugs a part names.
NamesOf(part, k) ==
  LET kind == LinkKind(part.field, k)
  IN  CASE kind = "none" -> {}
        [] kind \in {"strict", "lenient"} -> ScalarId(part)
        [] OTHER -> part.pieces \cap Bugs

\* (mutant) private comments are harvested too.
CandidatesRaw ==
  UNION {NamesOf(part, kinds) : part \in UNION {thread[i].parts : i \in DOMAIN thread}}

\* duplicate_marker_ids, on the filtered list, and history_bug_ids.
ThreadIds ==
  UNION {NamesOf(part, kinds) :
           part \in UNION {thread[i].parts : i \in {j \in DOMAIN thread : ~Hidden(thread[j])}}}

\* What is left of a part once only nameable bugs may stand in it: a url
\* stands or falls whole, a list is filtered, and a scalar (keep_custom_scalar)
\* is never split: a strict one holds nothing but a bug, and one of unknown
\* kind that is not a single id stays as it is.
PiecesLeft(part, k, nameable) ==
  LET kind == LinkKind(part.field, k)
  IN  CASE kind = "none" -> part.pieces
        [] kind = "url" -> IF part.pieces \cap Bugs \subseteq nameable THEN part.pieces ELSE {}
        [] kind = "strict" -> IF ScalarId(part) \cap nameable # {} THEN part.pieces ELSE {}
        [] kind = "lenient" -> IF ScalarId(part) \subseteq nameable THEN part.pieces ELSE {}
        [] OTHER -> part.pieces \cap (nameable \cup {Foreign})

\* scrub_history on one entry: a part left with nothing is dropped ...
HistoryLeft(parts, k, nameable) ==
  {[part EXCEPT !.pieces = PiecesLeft(part, k, nameable)] :
     part \in {p \in parts : LinkKind(p.field, k) = "none" \/ PiecesLeft(p, k, nameable) # {}}}

\* ... and scrub_duplicate_markers on a comment: kept whole or not at all.
CommentKept(parts, nameable) == \A part \in parts : part.pieces \cap Bugs \subseteq nameable

\* The reply's items before the window: the place of each in the thread and
\* what is left of its parts.
Scrubbed(nameable) ==
  LET open == {i \in DOMAIN thread : ~Hidden(thread[i])}
      left(i) == CASE req.tool = "bug_history" -> HistoryLeft(thread[i].parts, kinds, nameable)
                   [] req.tool = "list_attachments" -> {}
                   [] OTHER -> thread[i].parts
      kept == CASE req.tool = "bug_history" -> {i \in open : left(i) # {}}
                [] req.tool = "list_attachments" -> open
                [] OTHER -> {i \in open : CommentKept(thread[i].parts, nameable)}
  IN  [n \in 1 .. Cardinality(kept) |-> [at |-> InOrder(kept)[n], parts |-> left(InOrder(kept)[n])]]

Side(option) == IF option = {} THEN 0 ELSE CHOOSE n \in option : TRUE

\* window_list: the first head and the last tail items, everything when they
\* reach the length or none is asked for.
Window(items, head, tail) ==
  LET n == Len(items)
  IN  IF (head = {} /\ tail = {}) \/ Side(head) + Side(tail) >= n THEN items
      ELSE SubSeq(items, 1, Side(head)) \o SubSeq(items, n - Side(tail) + 1, n)

-----------------------------------------------------------------------------
(* A thread                                                                *)

\* list_attachments serves what its one fetch left.
ServeList(arrived) ==
  /\ shown' = LET kept == InOrder({i \in DOMAIN arrived : ~Hidden(arrived[i])})
              IN  [n \in DOMAIN kept |-> [at |-> kept[n], parts |-> {}]]
  /\ cell' = NoteSuppressedCount(cell, Len(arrived) - Len(shown'))
  /\ outcome' = "served" /\ stage' = "done"

CustomNamed(items) ==
  {part.field : part \in UNION {items[i].parts : i \in DOMAIN items}} \cap CustomFields

FetchThread(arrived) ==
  /\ stage = "fetch" /\ arrived \in Threads[req.tool]
  /\ thread' = arrived
  /\ sent' = sent + 1
  /\ CASE req.tool = "list_attachments" -> ServeList(arrived)
       [] OTHER ->
            /\ stage' = IF req.tool = "bug_history" /\ CustomNamed(arrived) # {}
                          THEN "kinds" ELSE "disclose"
            /\ UNCHANGED <<shown, cell, outcome>>
  /\ UNCHANGED <<policy, world, clock, edits, caller, now, calm, readVars, global, req, bug,
                 object, file, blob, kinds, targets, omitted>>

FetchFails ==
  /\ stage = "fetch"
  /\ sent' = sent + 1 /\ calm' = FALSE
  /\ outcome' = "failed" /\ stage' = "done"
  /\ UNCHANGED <<policy, world, clock, edits, caller, now, readVars, global, req, bug, object,
                 file, blob, thread, kinds, targets, shown, omitted, cell>>

\* FieldTypeCache::kinds: what an earlier lookup learnt of a field stays for
\* the life of the process; of the others Bugzilla is asked, and a field it
\* does not settle is of unknown kind.
LearnKinds(learnt) ==
  /\ stage = "kinds"
  /\ \A f \in CustomNamed(thread) : learnt[f] \in {FieldKinds[f], "Unknown"} \cup Outdated[f]
  /\ kinds' = [f \in CustomNamed(thread) |-> learnt[f]]
  /\ calm' = (calm /\ \A f \in CustomNamed(thread) : learnt[f] = FieldKinds[f])
  /\ stage' = "disclose"
  /\ UNCHANGED <<policy, world, clock, edits, caller, now, readVars, global, req, bug, object,
                 file, blob, thread, targets, shown, omitted, cell, sent, outcome>>

\* (mutant) the window opens on the thread as it came.
ReplyUnscrubbed(nameable) ==
  LET inside == Window([i \in DOMAIN thread |-> i], req.head, req.tail)
      kept == SelectSeq(Scrubbed(nameable), LAMBDA item : item.at \in Range(inside))
  IN  /\ shown' = kept
      /\ omitted' = Len(thread) - Len(inside)

\* The window closes over the scrubbed list.  summarize_bug opens none.
Reply(nameable) ==
  LET all == Scrubbed(nameable)
  IN  /\ shown' = IF req.tool = "summarize_bug" THEN all ELSE Window(all, req.head, req.tail)
      /\ omitted' = Len(all) - Len(shown')

\* The private items are counted, the hidden bugs named, and a window that
\* cut something is noted last.
ReplyNoted(hidden, cut) ==
  LET private == Cardinality({i \in DOMAIN thread : Hidden(thread[i])})
      noted == NoteSuppressed(NoteSuppressedCount(cell, private), hidden)
  IN  IF cut > 0 THEN NoteClientWindow(noted, "thread_window") ELSE noted

\* disclosable(), one request whatever it asks about, and the reply.  What it
\* does not ask about, and a failed request, it cannot name.
DiscloseThread(got) ==
  /\ stage = "disclose"
  /\ got \subseteq ThreadIds \cap Live /\ Cardinality(got) <= MaxDisclose
  /\ \E blind \in Blinds :
       LET objects == [b \in got |-> Fetched(b, blind)]
           nameable == {b \in got : Allows(Judge(objects[b], clock), "summary")}
       IN  /\ targets' = objects
           /\ Reply(nameable)
           /\ cell' = ReplyNoted(ThreadIds \ nameable, omitted')
           /\ calm' = (calm /\ got = ThreadIds \cap Live /\ blind = {})
  /\ sent' = sent + 1
  /\ outcome' = "served" /\ stage' = "done"
  /\ UNCHANGED <<policy, world, clock, edits, caller, now, readVars, global, req, bug, object, file,
                 blob, thread, kinds>>

ViewNext ==
  \/ \E b \in Bugs : ViewEdit(b)
  \/ ViewTick
  \/ \E r \in ViewRequests : ViewBegin(r)
  \/ \E found \in Option(Files) : FetchMeta(found) \/ FetchData(found)
  \/ \E ok \in BOOLEAN : ViewCaller(ok)
  \/ \E got \in SUBSET Bugs : ViewAssess(got) \/ DiscloseThread(got)
  \/ Decide
  \/ \E arrived \in UNION Range(Threads) : FetchThread(arrived)
  \/ FetchFails
  \/ \E learnt \in [CustomNamed(thread) -> Kinds \cup {"Unknown"}] : LearnKinds(learnt)

\* bug_info's note of one served bug, and of one it restricts.  The rule is
\* that of the assessment, where its verdict was the same.
ServedNoted(b, noted) ==
  LET summary == served'[b].view = "summary"
      verdict == IF summary THEN "ServedFiltered" ELSE "Served"
      merged == Merge(noted, verdict, IF Assessed(b) # {} THEN {b} ELSE {})
  IN  IF summary THEN NoteRedacted(merged, "summary_view") ELSE merged

RestrictedNoted(b, noted) == Merge(noted, "Denied", IF Assessed(b) = {} THEN {b} ELSE {})

\* The audit record of bug_info, which GuardRead leaves out: a refusal off the
\* request, a note for every requested bug, and the links no longer shown.
\* The handler makes the notes at the end, of what it has found by now.
BugInfoNoted ==
  CASE phase' = "refused" -> NoteVerdict(cell, "Refused")
    [] phase = "assemble" /\ phase' = "disclose" ->
         FoldSet(RestrictedNoted, FoldSet(ServedNoted, cell, DOMAIN served'), ids \ DOMAIN served')
    [] phase = "disclose" /\ phase' = "answered" -> NoteSuppressed(cell, Candidates \ named')
    [] OTHER -> cell

BugInfo ==
  /\ stage = "idle" /\ Next
  /\ cell' = BugInfoNoted
  /\ UNCHANGED <<global, stage, req, bug, object, file, blob, thread, kinds, targets, shown,
                 omitted, sent, outcome>>

\* One call of a read tool, whichever the client picks.
ToolNext == ViewNext \/ BugInfo

ToolSpec == ViewInit /\ [][ToolNext]_<<vars, viewVars>>

-----------------------------------------------------------------------------
(* Properties                                                              *)

\* Every variable holds what its comment says.
ViewTypeOK ==
  /\ global \in Globals /\ stage \in {"idle", "meta", "caller", "assess", "decide", "data",
                                      "fetch", "kinds", "disclose", "done"}
  /\ stage # "idle" => req \in ViewRequests
  /\ bug \subseteq Bugs /\ object \subseteq Object
  /\ Cardinality(object) <= Cardinality(bug) /\ Cardinality(bug) <= 1
  /\ file \in Option(Files) /\ blob \in Option(Files)
  /\ DOMAIN kinds \subseteq CustomFields
  /\ \A f \in DOMAIN kinds : kinds[f] \in Kinds \cup {"Unknown"}
  /\ DOMAIN targets \subseteq Bugs /\ \A b \in DOMAIN targets : targets[b] \in Object
  /\ omitted \in Nat /\ cell.extra \in Nat /\ cell.ids \cup cell.rule \subseteq Bugs
  /\ \A n \in DOMAIN shown : shown[n].at \in DOMAIN thread
  /\ sent \in 0 .. 4 /\ outcome \in Outcomes /\ (outcome # "none" => stage = "done")

\* What the thread of a bug is served on is a version of the bug the policy,
\* knowing every field of it, grants that thread of; a file is served on the
\* bug it says it hangs on when it arrives, even if it was moved meanwhile.
\* The version is the one assessed: a change between that fetch and the
\* thread's own is not looked at (bug_comments and the others, unlike
\* bug_info, ask once).
ThreadIsGranted ==
  outcome = "served" =>
    /\ \E o \in object : Allows(Entitled(o.record, now), NeedsView[req.tool])
    /\ \A f \in blob : f.owner = bug

\* A file is served only if it says it is public or both opted in, and is no
\* larger than the cap, whatever size its metadata reported (I5, I8).
FileIsAllowed ==
  outcome = "served" =>
    \A f \in blob :
      /\ f.private = {FALSE} \/ PrivateAllowed
      /\ global.max_attachment_bytes > 0 => f.real <= global.max_attachment_bytes

\* Nothing private is served unless the client asked for it and the operator
\* allowed it: no item of a thread and no file (I5).
PrivateIsTwiceOptedIn ==
  /\ outcome = "served" =>
       \A n \in DOMAIN shown : thread[shown[n].at].private = {TRUE} => PrivateAllowed
  /\ FileIsAllowed

\* A part that names bugs in Bugzilla, whatever the field cache said of it.
NamesBugs(part) ==
  \/ part.field \in {"list", "url", "marker"}
  \/ part.field \in CustomFields /\ FieldKinds[part.field] # "Other"

\* The server's two limits: a field it learnt as no link while it was none, and
\* a text of several pieces in a field it could not learn the kind of, which
\* keep_custom_scalar leaves alone.
Misread(part) ==
  /\ part.field \in CustomFields
  /\ \/ KindRead(part.field, kinds) = "Other"
     \/ /\ KindRead(part.field, kinds) = "Unknown"
        /\ \A piece \in part.pieces : part.pieces # {piece}

MayName == {b \in DOMAIN targets : Allows(Entitled(targets[b].record, clock), "summary")}

ShownParts == UNION {shown[n].parts : n \in DOMAIN shown}

\* No reply names a bug through a change or a marker unless the client is
\* entitled to a summary of it: not through a custom field whose kind the
\* server could not learn, and not because disclosable() got no answer (I2).
\* Two limits stand, those of Misread: the cached kinds are not asked for
\* again, and a comma list in a field of unknown kind is kept as it is.
ThreadNamesTheNameable ==
  \A part \in ShownParts :
    NamesBugs(part) /\ ~Misread(part) => part.pieces \cap Bugs \subseteq MayName

\* The items a client may be told of: not private to it, and something left.
Nameable == {b \in DOMAIN targets : Allows(Judge(targets[b], clock), "summary")}

Visible ==
  {i \in DOMAIN thread :
     /\ ~Hidden(thread[i])
     /\ CASE req.tool = "bug_history" -> HistoryLeft(thread[i].parts, kinds, Nameable) # {}
          [] req.tool = "list_attachments" -> TRUE
          [] OTHER -> CommentKept(thread[i].parts, Nameable)}

\* A window and its count of what it omits range over the items the client
\* may see and no others, so neither betrays that a private item, or one
\* about a hidden bug, stands in the thread; and it omits the middle only.
ReplyTellsOnlyTheVisible ==
  outcome = "served" /\ blob = {} =>
    /\ Len(shown) + omitted = Cardinality(Visible)
    /\ \A n \in DOMAIN shown : shown[n].at \in Visible
    /\ omitted > 0 =>
         \A i \in Visible :
           (\E n \in DOMAIN shown : shown[n].at = i) <=>
             \/ Cardinality({j \in Visible : j < i}) < Side(req.head)
             \/ Cardinality({j \in Visible : j > i}) < Side(req.tail)

\* The audit record's two tallies of what a reply withheld are disjoint: the
\* items dropped as private are counted and never name a bug, and a bug
\* tallied as hidden is one the rest of the thread named and the reply does
\* not.
TalliesAreDisjoint ==
  /\ outcome = "served" /\ blob = {} =>
       cell.extra = Cardinality({i \in DOMAIN thread : thread[i].private = {TRUE}
                                                        /\ ~PrivateAllowed})
  /\ outcome = "served" => \A b \in cell.ids :
       /\ \E i \in DOMAIN thread : /\ thread[i].private # {TRUE} \/ PrivateAllowed
                                   /\ \E part \in thread[i].parts : b \in part.pieces
       /\ \A part \in ShownParts : NamesBugs(part) /\ ~Misread(part) => b \notin part.pieces

\* How call_tool classes the call in its record: an error answer is a denial
\* when the guard denied, Bugzilla's failure when it was asked and nobody
\* refused, and a refusal otherwise.
OutcomeClass ==
  IF outcome = "served" \/ cell.verdict = {"Denied"} THEN "ok"
  ELSE IF sent > 0 /\ cell.verdict # {"Refused"} THEN "error" ELSE "refused"

\* What a client would read of an item that may be told of every bug: in a
\* history, not the changes that say nothing whoever reads them, which are
\* empty or hold text in a field for one bug (scrub_history drops the first,
\* keep_custom_scalar blanks the second).
ToldAll(i) ==
  IF req.tool = "bug_history" THEN HistoryLeft(thread[i].parts, kinds, Bugs)
                              ELSE thread[i].parts

SaysNothing(i) == req.tool = "bug_history" /\ ToldAll(i) = {}

Untouched ==
  \A i \in DOMAIN thread :
    \/ SaysNothing(i)
    \/ \E n \in DOMAIN shown :
         /\ shown[n].at = i
         /\ req.tool = "list_attachments" \/ shown[n].parts = ToldAll(i)

\* A refusal after a granted assessment is not left as Served, a reply is not
\* taken for a refusal, and a failure of Bugzilla's for neither.
RefusalIsRecorded ==
  stage = "done" =>
    /\ (cell.verdict = {"Denied"}) <=> outcome \in {"denied", "size"}
    /\ (cell.verdict = {"Refused"}) <=> outcome = "no data"
    /\ (OutcomeClass = "error") <=> outcome = "failed"

\* The one verdict left of all that was noted is what happened to the client:
\* a reply recorded as Served shows every item that arrived and said something,
\* as a client told of every bug would read it; one recorded as filtered lacks
\* an item or a part of one.
VerdictIsWhatHappened ==
  /\ RefusalIsRecorded
  /\ outcome = "served" /\ blob = {} => ((cell.verdict = {"Served"}) <=> Untouched)

\* A rule is recorded exactly when one rule decided: a client that asked for
\* less than it was granted does not make a call look undecided (#67), and a
\* rule that granted does not stand beside a refusal it did not make.
RuleIsTheDecidingOne ==
  stage = "done" =>
    ((cell.rule # {}) <=>
       \/ outcome = "denied" /\ bug # {} /\ ~Granted
       \/ outcome = "failed"
       \/ outcome = "served" /\ cell.ids = {} /\ cell.extra = 0)

\* The one record of a bug_info call over several bugs: Denied when any was
\* withheld, filtered when any came short or without a link, and the links
\* recorded as hidden are those no part of the answer names.
BugInfoRecordIsTrue ==
  phase = "answered" =>
    LET short(b) == served[b].view = "summary" \/ Shown(b) # Links(served[b])
        lost == UNION {Links(served[b]) \ Shown(b) : b \in DOMAIN served}
    IN  /\ cell.verdict = {IF ids # DOMAIN served THEN "Denied"
                           ELSE IF \E b \in ids : short(b) THEN "ServedFiltered" ELSE "Served"}
        /\ cell.ids = lost
        /\ cell.verdict = {"Denied"} => cell.rule \subseteq ids \ DOMAIN served

\* A client the policy grants nothing of the kind on the bug, or that names a
\* bug or an attachment there is none of, is denied, after as many requests
\* whichever of these it is (I3, and the assessment of bug 0).
DenialsCostTheSame ==
  stage = "done" /\ ~(\E o \in object : Allows(Entitled(o.record, now), NeedsView[req.tool])) =>
    /\ outcome = "denied"
    /\ sent = (IF req.tool = "download_attachment" THEN 2 ELSE 1)
              + (IF NeedsIdentity(policy) THEN 1 ELSE 0)

\* A call nothing disturbs withholds nothing: an entitled client gets its
\* thread, with every item that is not private to it and names only bugs it
\* may be told of, as Bugzilla sent it, but for the window's own gap.
UndisturbedViewIsExact ==
  stage = "done" /\ calm /\ req.tool # "download_attachment" =>
    LET may == {b \in Live : Allows(Entitled(world[b], clock), "summary")}
        whole == {i \in DOMAIN thread :
                    /\ thread[i].private # {TRUE} \/ PrivateAllowed
                    /\ req.tool = "bug_history" => thread[i].parts # {}
                    /\ \A part \in thread[i].parts :
                         /\ NamesBugs(part) => part.pieces # {} /\ part.pieces \subseteq may
                         /\ part.field \in CustomFields /\ FieldKinds[part.field] = "BugId" =>
                              ScalarId(part) # {}}
    IN  /\ (outcome = "served") <=>
              (req.bug \in Live /\ Allows(Entitled(world[req.bug], clock), NeedsView[req.tool]))
        /\ outcome = "served" /\ omitted = 0 =>
              \A i \in whole : \E n \in DOMAIN shown :
                 /\ shown[n].at = i
                 /\ req.tool # "list_attachments" => shown[n].parts = thread[i].parts

\* What is served of a thread is what the policy, the client and the operator
\* grant: the thread itself, the private in it and the bugs it names.
ViewIsEntitled == ThreadIsGranted /\ PrivateIsTwiceOptedIn /\ ThreadNamesTheNameable

\* What the audit record says of a read is so.
RecordIsTrue ==
  TalliesAreDisjoint /\ VerdictIsWhatHappened /\ RuleIsTheDecidingOne /\ BugInfoRecordIsTrue

\* The call's own books: its variables, and what the audit is told of it.
ViewInv == ViewTypeOK /\ RecordIsTrue
=============================================================================
