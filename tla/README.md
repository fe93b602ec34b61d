# A verification of bugwarden

bugwarden is an MCP server that puts a policy and an audit record between a
client and a Bugzilla. This directory holds TLA+ models of its core, the TLC
runs that check them on small instances, and TLAPS proofs of the results that
matter most for instances of any size.

Sources are named relative to the repository root; `crates/bugwarden` is the
server, `crates/bugwarden-core` the library with the policy.

## 1. The system

A client speaks MCP over stdio or HTTP. Each request becomes a tokio task that
runs `BugWarden::call_tool`: a fail-mode gate asks whether the audit sink is in
order, a slot is registered so that the call leaves a record even when its
future is dropped, the tool's handler runs against Bugzilla through the guard,
and the record is written on the blocking pool before the answer is given. The
record goes to a JSONL file, to an OTLP collector, or to both.

| Component | State it keeps | Operations | What is hard | What makes it correct |
|---|---|---|---|---|
| audit sink (`audit.rs`, `AuditSink`) | `seq`, `dropped` under a mutex; the lock-free mirror `failing_flag` | `record`, `absorb_export_losses`, `failing` | the gate reads three atomics without the lock while the holder and the drain task move losses between them | no record lost silently; the file has what the collector has; the gate does not pass over a loss |
| audit file (`audit.rs`, `write_event`, `rotate`) | live file, `size`, `torn`, rotated slots | open, write, fsync, rotate, heal | every system call may fail, the process may die between any two | history contiguous, every record parses, every acknowledged record has a name |
| OTLP exporter (`otel.rs`) | queue, batch, `lost`, `healthy` | accept, drain task, split, post, shutdown | failed posts after acceptance, a full queue, closing while calls record | export in order, losses counted, custody ends |
| tool call (`server.rs`, `call_tool`) | future, `AbandonedSlot`, blocking-pool job | gate, register, dispatch, claim, persist, answer | the future may be dropped at every await, its write goes on | one record at most, never none with nobody responsible, the fail mode holds |
| abandoned registry, shutdown flush (`server.rs`, `main.rs`) | weak slot list, deadline | register, drop guard, flush, exit | runs beside the calls it settles | what it reports is so; the process ends |
| audit cell (`audit.rs`) | verdict, rule, hidden ids and counts, scan | note, merge worst-wins | several notes of one call, made in an order the merge has to absorb | the one verdict, rule and tallies left are what happened |
| policy engine (`policy.rs`) | the policy, immutable | `evaluate`, `classify`, `grant` | metadata that cannot be read | fails closed; read-only grants no write |
| guard flows (`guard.rs`) | none across calls | `assess`, `filter_bug_list`, `disclosable`, search window, create gate, scrubbing | Bugzilla changes between two requests; what a denial costs | nothing served or named on a stale verdict; hidden bugs leave no hole in a page, no trace in a count |
| tool handlers (`server.rs`) | none across calls | the tools, read and write | check, then act, over several requests | every id of a write assessed first; the filters of a reply in the right order |
| custom-field cache (`custom_fields.rs`) | kinds by name under a mutex | `kinds`, `kinds_fresh` | answers out of order, in part, twice | a write judges the type a field has, unknown kinds open no link |
| startup (`main.rs`, `config.rs`) | none | some dozen checks, the preflight, the delivery probe, the audit file, the bind | one check in the wrong place has effects a refused start should not have | a start that is refused has touched nothing |
| stdio transport (`stdio.rs`) | bytes since the last newline, parked replies, two flags | bounded read, discover reply | chunk boundaries, cancelled receives | over-long frames refused, replies never lost, the exit code tells why |
| HTTP authentication and scopes (`http_auth.rs`, `server.rs`) | tokens, fixed at start | bearer gate, scope of a request | the scope rides on the request, the session on an earlier one | what is listed, dispatched and refused is what the one credential is for |
| HTTP sessions (`http_session.rs`) | rmcp's session table | mint, stamp, close | requests beside a close or a second initialize | a record names only a session and a client that are real |
| Bugzilla client, quoting, panic hook, logging caps, generator | none the rest depends on | | | |

How they meet: the guard's verdict reaches the record through the audit cell;
the record's fate reaches later calls through `failing`; the exporter's losses
reach the sink when the next record absorbs them; the field cache tells the
guard which custom fields of a payload or a history may link to bugs; the
transport hands each request the scope and the session it goes by; the end of
the process drops futures, whose guards hand their records to the blocking
pool.

## 2. The modules

| Module | Models | Kind |
|---|---|---|
| `AuditSink` | `AuditSink::record`, the gate, the exporter's drain task | state machine |
| `AuditFile` | the file under the sink, per system call | state machine |
| `CallRecord` | `call_tool`, slot, drop guard, flush, process end | state machine |
| `CallLedger` | one record per call at most | abstract specification |
| `GuardPolicy` | matching and classification | operators |
| `AuditCell` | the audit cell: the merge and the notes | operators |
| `GuardRead` | `bug_info` over a changing Bugzilla | state machine |
| `GuardViews` | comments, summary, history, attachments, download | state machine over `GuardRead` |
| `GuardWrite` | the nine write tools, `create_bug`'s gate among them | state machine |
| `GuardSearch` | `quicksearch_window`, two searches of one client | state machine |
| `FieldCache` | `kinds`, `kinds_fresh`, concurrent callers | state machine |
| `Startup` | `main` up to the transport | state machine |
| `Stdio` | the stdio transport and main's stdio arm | state machine |
| `HttpFront` | bearer gate, session manager, scope of a call | state machine |
| `Frontend` | the three above as one process | composition |
| `PolicySamples` | policies and bugs for the guard's instances | data |
| `MC*` | instances, and the statements the code does not keep | |
| `*Proofs` | theorems | |

`AuditFile` is the inside of what `AuditSink` treats as one outcome of a file
write. `AuditSink` is the inside of what `CallRecord` treats as "the record was
kept or lost, and the gate then reads `failing`". `CallRecord` is the inside of
what `HttpFront` and `Stdio` treat as a request that is dispatched or worked
on. `GuardRead`, `GuardViews` (which extends it) and `GuardWrite` extend
`GuardPolicy` and are the inside of a dispatch; `GuardViews` and `GuardSearch`
also extend `AuditCell`, and the verdict it ends with appears in `CallRecord`
as `withheld`. `FieldCache` is the inside of the lookup that
`GuardViews` and `GuardWrite` see as "some of the kinds, the others Unknown";
`FieldCache`'s promise about writes is what lets `GuardWrite` take a kind it is
told as one the field has.

### AuditSink

A step is one access to something another actor reads. The mutex holder goes
through `Begin` (peek and raise the mirror), `TakeLost` (swap the exporter's
counter), `MirrorLost`, `WriteGap` (a pending loss is reported first: written,
and offered to the drain task, which may post it at once), `ClearGap` (its count
and the mirror down), `WriteOwn`, `Refused` (a full queue closes the health
latch) and `Fail`. `dropped` is private to the holder and moves with the
neighbouring atomic. Two stretches of this course hide a loss from the gate, and
`GateSeesSettledLoss` speaks of the evaluations that meet neither: `AbsorbWindow`
(from the peek to the mirror) and `ClearWindow` (the gap record was handed over
and lost again before the mirror comes down for what it reported). The drain task receives, posts, learns the outcome, marks the health
latch and flushes diagnostics; `Shutdown` closes the channel. The gate's three
reads are three actions. A batch is bounded in number; the byte bound appears
as the free choice of a split (`SplitBatch`). A batch answered 413 counts as
delivered, which `docs/DESIGN.md` documents as an exception: the properties set
those records apart (`tooLarge`). Shutdown waits for the drain no longer than
`SHUTDOWN_FLUSH_TIMEOUT` (5 s), which is less than a request may take
(`EXPORT_TIMEOUT`, 10 s): a last batch that the wait or the exit cuts off is left
out, and `AcceptedSettles` is about a drain task that is let run. Serialization
failures and the contents of a record are left out.

### AuditFile

Names and files are apart: `dir` maps the live name and `Keep` rotated names to
files, and the open handle `fd` follows a file through renames. A file is a
sequence of tokens (whole record, fragment, newline). Actions are the system
calls: open, stat, remove the oldest, one rename, reopen, directory sync, write
with its partial outcomes, and a crash between or inside any of them. The
mutex makes the writer sequential, so the interleavings here are failures.

### CallRecord and CallLedger

`pc` is where a call's future is, `slot` the atomic of `AbandonedSlot`, `job`
the blocking-pool closure. `Drop` is the drop guard and may strike at every
await. `Signal` starts the flush, `ServingEnds` the end of stdin or of the
listener. `ProcessExit` is `process::exit` after the flush; `MainReturns`
followed by `RuntimeDropped` is a normal return. A handler is one step with any
result, a tool a member of four kinds: out of the lifecycle contract, not
reachable, reading, writing. `CallLedger` is the promise: a call begun is owed
a record, the sink is asked at most once, nothing after the end. `CallRecord`
implements it with `owed <- Owed` and `over <- ~Alive`.

### GuardPolicy and GuardRead

An optional field is a set of at most one element, so "absent or unreadable" is
`{}`. The textual criteria are abstracted to the values they accept. An access
decision is the set of capabilities granted; the name of the deciding rule is
left out. The loop of `classify` over the rules is stated as "the first rule
that is in scope and is not ruled out", which the code's loop computes.
`GuardRead` runs one `bug_info`: caller, one classification request per id, a
batch of bodies, the re-check, one disclosure request for the links. Between
any two of them another client edits a bug, or an instant passes; every request
may fail or omit bugs; every object may lack fields. A fetched object remembers
the record it came from, for the properties only. Projection removes fields
after the verdict and is left out.

### GuardViews

A call is chosen in `ViewBegin`; `GuardRead`'s own steps run when it is
`bug_info`. `FetchMeta` is a download's first request (the metadata of the
attachment), `ViewCaller` the whoami, `ViewAssess` the assessment of the one
bug, of a download that which the metadata names, `Decide` the verdict.
`FetchThread` brings the items, `LearnKinds` the kinds `FieldTypeCache::kinds`
gives for the custom fields a history names (a kind in the cache is never asked
for again, so it may be one the field had before: `Outdated`), `DiscloseThread`
is `disclosable` over the bugs they name, `Reply` the scrub and then the
client's window; `FetchData` is the second gate of a download. An item is its
privacy and its parts, a part one side of a change, or a marker: the field it
belongs to and the pieces of its text, each a bug it names or something foreign;
how the code reads a bug number out of a piece or a URL is thus an input. A
field for a list of bugs is split and filtered piece by piece, as the core link
fields are; the text of a field for one bug is never split (`ScalarId`), so one
of several pieces names no bug to the code: it is blanked where the kind is
known and kept as it came where it is not. `Misread` names what follows for a
client: such a text, and a field whose cached kind says it links nothing, may
name a bug it may not be told of. `ThreadNamesTheNameable` holds for every other
part. The zeros that clear a field name no bug and are not modelled, nor is
`max_comment_chars`, which cuts the text of comments already scrubbed and
counted. Time and edits pass between any two requests. The denial of an
attachment without a bug assesses bug 0, as the code does to keep its cost.

### AuditCell

A value of the cell is a record, a note an operator from one to the next. The
variable `cell` of `GuardViews` goes through the notes of the handlers in their
order: `AssessmentNoted`, then `OutcomeNoted` or `ReplyNoted`; `BugInfo` adds
to the steps of `GuardRead` the notes that `bug_info` makes at its end
(`ServedNoted`, `RestrictedNoted`, and the links it hid). `SearchNoted` is what
a search of `GuardSearch` leaves. A rule is named by the bug whose assessment
it decided, so that a rule recorded for the wrong bug shows. Which of several
equally grave rules of one `bug_info` is recorded goes by the order of the bugs
in the answer; the model takes some order. `RecordIsTrue` and
`SearchRecordIsTrue` compare the cell with the reply, which the code builds
apart from it; `OutcomeClass` is how `call_tool` then classes the call.

### GuardWrite

One call of a write tool: `Begin` is everything the request alone can be
refused for, `LookUp` the kinds of its custom fields, `ResolveCaller`,
`AssessOne` and `AssessMissing` the assessment of each id, `DecideUpdate` and
`DecideCreate` the verdict in the order the handler reaches it, `Pad` the
dummy request with which a refused create costs what a filing costs, `Update`,
`Create` and `WriteFails` the write itself with its answer scrubbed. The eight
updating tools share this course; they differ in `Needs`, in which parameters
they read and in `UpdateVerdict` (`DuplicateVerdict` assesses the bug itself as
the target too before it refuses a bug as its own duplicate). A custom value is
the set of pieces it can be read as, so splitting and number parsing are inputs.
A `create` request's values are names as a client spells them: `Trimmed` is what
`normalize_create_request` makes of one, `Collated` what Bugzilla's database may
take the result for, and `OddName` one in a list of keywords that the rewrite
leaves as it came, which makes the list unknown to the policy. Every other field
is evidence as rewritten. So a rule can be passed by a name the collation calls
equal to one it refuses, or by a priority that Bugzilla replaces, and the comment
on `may_create` (`guard.rs:1211-1227`) says so; `FiledIsJudged` states what is
left: it holds where each name is filed as it was rewritten, and for every name
under a policy that the comment calls an allowlist. The answer to an update is
scrubbed but for `add_attachment`'s, which is handed on as Bugzilla gave it, as
is that of `create_bug`, which holds the new bug's id: `AnswerIsForWriters`
excepts the former, since nothing in the code bounds what it names.

### FieldCache

A lookup enters (`ReadKinds` takes what is cached out of what it asks for,
`WriteKinds` asks for all), is answered chunk by chunk (`Respond`, at the
version of the schema the answer was made of; `Apply`, later, under the lock)
and may fail (`Fail`). The schema changes at any moment (`Change`). An answer
leaves names out or lists one twice. What a kind was settled by is remembered
for the properties only.

### GuardSearch

`Scan` is one request of the loop in `quicksearch_window`, the dedupe, the
filter and, after the last request, the cut of the window. The constants keep
the code's names and are scaled down. A row is the bug it shows; whether
`filter_bug_list` keeps it is membership in `open`, as `GuardRead` models that
verdict. The upstream imposes a page size below the limit or overruns the
limit; while a scan runs, rows move and bugs are hidden or published. An answer
without a bug list, which the code reads as an empty page, is not modelled, nor
is the relevance order itself. Two searches in a row let a property relate two
pages. An empty page does not mean that no visible bug is left: a bound may have
ended the scan, and `PagesAgree` then promises a
prefix only. The validation before the scan and the scrubbing of links after it are
left out; the latter is that of `bug_info`.

### Startup, Stdio, HttpFront and Frontend

`Startup` is `main` as a sequence of steps, each of which refuses or hands on:
`Check` for those that read the configuration only, then `Preflight`, `Export`
(the collector's probe), `Digest`, `Open` (the audit file) and `Serve`. A
deployment is what the operator configured, as far as a step decides by it.

`Stdio` is byte-exact in positions and abstract in content: a frame is a kind
and a length, a chunk any number of bytes up to `MaxChunk`, and `Trips` the
check of `BoundedLines` on each chunk. `receive()` is `Receive` or `Take`,
its suspension `await`, and `ReplyReady` is the other arm of rmcp's select,
which drops it. `Close`, `Signal` and `Exit` are main's arm with its exit code
(`Outcome`). A ping or a request without metadata is answered within the
handshake, and an answer that cannot be written ends it (`broken`); an initialize
is taken in `Hand` and answered in `Greeted`, with a session, with the refusal of
an audit sink that has lost its record under `closed_all` (`refused`), or not at
all. The exit code is 1 in the last two, whatever was probed before. A queued
reply is written or lost. Left out: a handler's answer that cannot be written
while serving, and a first request that declares a revision the
server does not serve. `EveryRequestIsAnswered` assumes a peer that reads what is
written to it.

In `HttpFront` a request's life is `Arrive` (the bearer gate, then rmcp's
routing), `Deliver` (minting and stamping of the session) and one handler
(`Initialize`, `CallTool`, `ListTools`), with `CloseSession` and the other
requests in between. rmcp's serve loop and routing are external and modelled
from how the code uses them. `Frontend` runs `Startup` and then one of the two
transports.

## 3. The runs

| Run | Instance | Properties | Shows |
|---|---|---|---|
| `sink_both` | 3 calls, file and collector, queue 2, batch 2 | `MirrorMatchesCount`, `GateSeesSettledLoss`, `NoSilentLoss`, `CollectorTrailsFile` | no loss without an account, file before collector, export in order, what the gate sees |
| `sink_otlp` | 2 calls, collector only, queue 1, fairness | `AcceptedSettles` | what the queue accepted leaves custody, through outages and shutdown |
| `file_rotation` | 2 slots, 4 records, 2 process lives, fsync | `FileInv`, `HistoryContiguous`, `RecordsParse`, `AckedRecordsHaveAName` | the file under failures of every call and a crash between any two |
| `call_record` | 2 calls, all kinds, `closed_writes_denials` | `ImplementsLedger`, `NoOrphan`, `FlushAccounts` | the ledger, an owner for every owed record, the flush's account |
| `call_record_live` | 2 calls, `closed_all`, fairness | `FailModeHolds`, `OutageHidesNoTool`, `Progress` | what is answered when records are lost; owed records are attempted and the process ends |
| `guard_search` | 6 rows, chunk 2, at most 5 rows and 3 requests, window 3, 2 disturbances | `SearchInv`, `PagesAgree`, `SameWorkInABlock` | pages are windows on the visible bugs, a short page is the last, limits of one block cost the same; the record tells what the page does not |
| `guard_read` | 2 bugs, 3 versions and absence, 4 policies, 3 custom fields, one edit, one instant | `ServedIsEntitled`, `UndisturbedCallIsExact`, `ViewIsEntitled`, `ViewInv`, `ReplyTellsOnlyTheVisible`, `DenialsCostTheSame`, `UndisturbedViewIsExact` | nothing served, named or countable beyond the policy, nothing withheld without cause; the record of the call is true of the reply |
| `guard_write` | 2 bugs, 2 custom fields, 4 records, 7 policies, one edit, one instant | `WriteIsEntitled`, `FiledIsJudged`, `CostTellsNothing`, `AnswerIsForWriters`, `UndisturbedWriteIsExact` | nothing written or linked beyond the policy; refusals and answers say nothing they should not |
| `field_cache` | 2 lookups, 2 names, chunk 1, 2 versions of the schema | `CacheInv`, `WriteJudgesTheFieldAsItIs`, `LookupCostIsFixed` | a late or partial answer does not mislead a write |
| `frontend` | cap 2, chunk 3, 3 frames; 3 requests, 2 at once, 2 sessions | `NothingIsTouchedInVain`, `BoundedFrames`, `ProbesAreAnsweredInPlace`, `ExitTellsTheRefusal`, `EveryRequestIsAnswered`, `SurfaceIsTheCredentials`, `CallersAreKnown` | start and both transports |
| `sink_gate_race` | 2 calls, collector only | `GateSeesEveryLoss` | fails, see below |
| `call_gap` | 2 calls, `closed_all` | `NoAuditGap` | fails, see below |

Each property of the passing runs has a mutant, a change of one mapped
definition of the sort a bug would make, that TLC finds violating it. They
stand before the definitions they change, marked "(mutant)".

**Bounds and why they are enough.** Three calls at the sink: one holds the
lock, one has a record on its way, one has been lost. A queue of one or two is
reached, overflows and drains within a run; a batch of two splits. In the file
two slots and four records let a rotation fail before, between and after its
renames, twice in a row, and a second process open what the first left. Two
calls are what the one-slot protocol and the flush's snapshot can tell apart:
one registered before the snapshot and one after. Two bugs are one that links
and one that is linked, both requested or not; the policies cover a deny
by field, identity on both sides, scoping to one operation under a denying
default, an age rule and the age gate. With two bugs and a bound of two ids
the refusal of too many ids does not occur in `guard_read`; that of an empty
list takes the same branch. The threads of `guard_read` have a private item
beside a public one, an item that names both bugs and one that names none, and
windows of one at either end, so that filtering, scrubbing and cutting in
another order shows. The requests of `guard_write` name the bug itself, the
other one, none, or an unreadable piece, in every kind of parameter, under
both assignments of kinds to the two custom fields. Two lookups are one that
is late and one it is late for; a chunk of one makes a lookup of two names two
requests; a second version of the schema is one change, at any time. In
`frontend` frames are shorter than the cap, at it and over it, and a chunk of
three bytes ends inside, at and past a frame; three frames are a probe with
something before and after it. Three requests, two at once, are an initialize,
a call beside a close or a second initialize, and one more. Deployments
differ from a sound one in one respect, since each check looks at one. In
`guard_search` the budget of rows is odd, so the last chunk is a short one; a
page size of one runs out of requests, of two out of rows, of three overruns;
the listing is longer than any scan reaches, and limits and offsets straddle
the largest window. Symmetry is over calls, files and bugs, which no action
compares, and not used where a temporal property with fairness is checked.

**Deadlock.** Every module but the sink's really stops: the last run's
attempts are used up, the process has exited, the call has answered, the
client has had its two pages, the lookups have ended, no request is left to
send. Their configurations say `CHECK_DEADLOCK FALSE`; the sink's do not.

**Fairness.** `AuditSink!FairSpec` has weak fairness of the drain task: the
runtime polls it while the process lives, a request ends within
`EXPORT_TIMEOUT`, a window within `BATCH_INTERVAL`. No call, gate or shutdown
is obliged to come. `CallRecord!FairSpec` has weak fairness of a call's own
steps (upstream requests carry a timeout), of the blocking pool running a
queued closure, of the flush (its wait has `FLUSH_DEADLINE`), of the end of
`main` (the exporter's shutdown is bounded) and of the runtime dropping its
tasks once it is being dropped. A drop while serving, a signal and a hangup
are not fair. `Frontend!Fairness` has weak fairness of rmcp polling
`receive()`, of a queued write, of a handler ending, of the drain and of
`main` returning; the peer need not write, no signal need come, and nothing is
obliged over HTTP.

### What the code does otherwise

Two statements of comments and documents do not hold. Each is a run that TLC
must find violated.

- `sink_gate_race`: "this order cannot miss a loss moved under us". The holder
  peeks and finds no loss, so it leaves the mirror down. A batch then fails and
  its loss is counted, but `note_delivery(false)` has not run and the health
  latch is still open. The holder takes the loss and has not yet raised the
  mirror: a gate that reads its three atomics now finds no loss, no mirror and
  healthy delivery, and passes with the loss pending. `GateSeesSettledLoss` is
  what does hold; the second stretch it excepts, `ClearWindow`, hides a gap
  record's loss in the same way when the mirror comes down between the gate's
  first read and its second.
- `call_gap`: "an audit gap is not [possible]". A call that registers after the
  flush's snapshot, a refusal on the blocking pool, and a write whose future
  was dropped are lost to `process::exit`.

Some properties carry an exception. Four, described in section 2, stop where the
code does: `GateSeesSettledLoss` (the two windows above),
`ThreadNamesTheNameable` within `ViewIsEntitled` (`Misread`; that kinds are
cached for the process and that a text in a field of unknown kind is left alone
is documented), `FiledIsJudged` (names the database takes for others, documented
too) and `AnswerIsForWriters` (`add_attachment`). Three carry one that failures
make necessary.
`AckedRecordsHaveAName` excepts more failed rotations in a row than there are
slots: the open file is then pushed out of the last slot while still written
to. `RecordsParse` excepts a later process's first record, which is appended
to the line a crash tore. `LookupOutdatesTheCache`, within `CacheInv`, excepts
a lookup that was under way at the same time: its older answer may be the one
that stays, for reads, which is why writes ask afresh.

## 4. The proofs

All theorems hold for every value of the constants that satisfies the named
assumptions of the modules.

- `AuditSinkProofs`: `TypeCorrect`, `MirrorCorrect`, `GateCorrect`,
  `LossCorrect`, `CollectorCorrect`. The inductive invariant `GInv` adds to the
  types that the lock is held exactly outside "free", that a count is above
  zero exactly when some loss is on it (`CountInv`), how the mirror relates to
  the counts at each step of the holder (`MirrorInv`: it may be up early and
  must not be down late), and that losses a settled gate watches sit in
  `dropped` with the mirror up or in the exporter's counter it has yet to read
  (`GateInv`). Without `MirrorInv` the gate's second read proves nothing about
  what its first one missed. `SInv` adds the fate of each record (`FateInv`):
  what is in flight, from the queue to the posting batch, is in the order of
  the numbers (`Rising`), and each call is settled at each of its destinations
  or still the holder's (`Settled`). The module opens with facts on the
  elements of sequences.
- `AuditFileProofs`: `NamesCorrect`, `FileCorrect`, `AckedCorrect`,
  `ParseCorrect`, `HistoryCorrect`. `PlaceInv` bounds where the open file can
  be: each failed rotation pushes it one slot further at most, and that is what
  an acknowledged record's name rests on. `LineInv` says of every file what its
  last token lets the next write do. The size rests on the length of a file and
  what is written behind it being the sum of both (`BytesConcat`).
  `HistoryInv` is `HistoryContiguous` in a form that outlives a rotation: not
  that neighbours follow each other, which says nothing of a record whose
  neighbour was removed, but that between any two records stands one the later
  may follow (`Chained`), and one the next write may (`Awaited`). It needs that
  every file with a name is older than the open one (`Youngest`), so that what
  is written comes last and what is rotated out comes first, also when failed
  rotations have pushed the open file past the empty slots or out of the
  directory.
- `CallRecordProofs`: `TypeCorrect`, `LedgerImplemented`, `NothingOrphaned`,
  `FailModeCorrect`, `HiddenCorrect`, `FlushCorrect`. The invariant `Slots`
  ties, per call, the future's position, the slot's atomic and the job: an
  attempt has been made exactly when the slot is past its one claim. It is
  what excludes a second attempt when two writers race, and each of the later
  theorems adds one per-call invariant to it (who owns the record; what an
  answer implies; what a name out of reach leads to; what the flush has done
  about each slot of its snapshot).
- `GuardPolicyProofs`: `FailsClosed`, for any policy, bug, operation and set of
  unreadable fields the grants are among those of full knowledge. A rule ruled
  out on part of the metadata is ruled out on all of it, so the rules consulted
  under full knowledge are among those consulted; the first of the latter
  either denies, or holds under full knowledge too and is the first there.
  `ReadOnlyGrantsNoWrite` says that no path of `classify` grants a write
  under `read_only`.
- `GuardReadProofs`: `TypeCorrect`, `ServedCorrect`, `NamedCorrect`, each
  inductive with the types; the re-check and the disclosure are where
  `FailsClosed` is used. `UndisturbedCorrect` is the other direction, that the
  guard withholds nothing it need not: `CalmInv` says phase by phase that what
  an undisturbed call has fetched is all that Bugzilla holds, and
  `FullReadingIsExact` that the verdict on it is then the entitlement, also for
  an unknown caller where no rule in scope asks for one. Of the tools of
  `GuardViews`: `DenialsCorrect`, `ThreadCorrect`, `FileCorrect`,
  `RefusalsCorrect`, `WindowCorrect`, `EntitledCorrect`, `ViewCorrect`,
  `UndisturbedViewCorrect`. `CourseInv` counts the requests up to the verdict,
  says that no later stage is reached but on a grant, and what was checked of a
  file that is served; `NotedInv` what the audit cell holds at each stage, of
  which the lemmas on `Merge` (the first verdict decides, a graver one replaces
  it, another leaves it) are the steps. What a reply shows rests on one fact
  about lists, that `InOrder` puts the places of a set in their order (by
  induction on the size of the set), and on the arithmetic of a head and a tail
  that meet or leave a gap. The invariants on the reply keep what the scrub
  left as a function of the thread, the kinds and the bugs that may be named;
  each verdict and tally is then compared with that function. For `bug_info`,
  whose record is folded over the bugs served and denied, `ServedFold` and
  `DeniedFold` say what a fold over any set of bugs leaves: by induction over
  sets, from the lemmas on one `Merge`.
- `GuardWriteProofs`: `TypeCorrect`, `WriteCorrect`, `FiledCorrect`,
  `RefusalCorrect`, `AnswerCorrect`, `ForWritersCorrect`, `CostCorrect`,
  `UndisturbedCorrect`.
  `WriteInv` keeps, from the lookup on,
  that the kinds known are right or Unknown, so that what the payload is read
  as naming contains what Bugzilla will read (`TrueReadings`); from the
  assessment on, that every bug seen was judged on metadata it had; from the
  verdict on, that the verdict follows from those. `FailsClosed` does the rest.
  `CostInv` says that each phase has cost what the requests before it cost, so
  that a refusal costs what its ids cost, whatever became of them. `CalmInv` is
  the counterpart of the one in `GuardReadProofs`, and `VerdictIsExact` brings
  the order in which each handler refuses to one formula.
- `UpstreamProofs`, of `FieldCache` and `GuardSearch`: `CacheCorrect`,
  `WriteCorrect`, `CostCorrect`, `SearchCorrect`, `PagesCorrect`, `WorkCorrect`.
  `CacheIInv` ties an answer under way to the version of the schema it was made
  of and gives, for each name a lookup has processed, what may have replaced
  its reading. For the cost, the names asked about so far and those left are
  counted against the requests: every chunk but the last is full.
  Of a search, `Accounted` says that every bug met is kept or dropped, once,
  and is one of the rows examined; it holds whatever the upstream does. `Alike`
  is about a list that keeps still: how far a number of requests reaches into
  it is one formula (`Pos`), which all scans share, so that what a scan holds is
  what the filter keeps of that much of the list, and two scans differ only in
  the request they stop after. That is why none past a short page finds
  anything (`NoneFindsMore`) and why equal targets cost the same
  (`SameTargetSameStop`). What a filter keeps of a list and of its parts is
  proved by induction over lists (`SeqInduction`).
- `FrontendProofs`: `StartCorrect`, `FramesCorrect`, `ProbesCorrect`,
  `ExitCorrect`,
  `SurfaceCorrect`, `CallersCorrect`. `StartInv` says what each step of `main`
  has found by the time it is left; `StdioInv` keeps the account of the frames
  taken (answered, queued, worked on, or lost), which lifecycle was committed
  to by which frame, and what the flags imply of an exit; `HttpInv` what a
  slot's scope, stamp and answer owe to the request in it and to the sessions.

The prover takes no induction principle with a predicate as its parameter, so
each induction here goes over the set of the numbers, of the subsets or of the
lists of which the claim holds (`SetInduction`, `SubsetInduction`,
`SeqInduction`), and a recursive
function is taken at its defining equation, which is proved first. That is how
the folds, the filtered lists and the positions of the newlines were reached.

The assumptions on constants that these proofs need are few and named: no
custom field has the name of a field every Bugzilla has (they are `cf_*`), an id
of another tracker is none of this one, the bugs are finitely many, a thread is
a list of items of its tool. A proof of `ViewInv` failed on its first form,
rightly: `VerdictIsWhatHappened` took a reply recorded as Served to be as long
as the thread, and TLC, given a history with an empty entry and one that names a
bug through two fields, showed both halves false. `scrub_history` drops an entry
that says nothing without a note, and blanks a Bug ID field whose text is no id,
which nobody lost. `Untouched` now says what the code means: every item that
says something is there, and reads as it would to a client that may be told of
every bug (`ToldAll`).

Only model-checked: the liveness properties (`AcceptedSettles`, `Progress`,
`EveryRequestIsAnswered`), which are out of the prover's reach.

## 5. Plan

What is left, in this order:

1. The notes of the write tools and the account of the upstream requests in
   `AuditCell`; its verdict in `CallRecord` in place of `withheld`.
2. `FieldCache` in place of the free choice of `LookUp` in `GuardWrite`: the
   two composed, with the promise of the cache as the interface.
3. The exporter's startup probe and the counting of its own losses.

## 6. Not modelled

- The audit notes of the write tools, one verdict per bug assessed, and of the
  summary views and scrubbed links of a search; the cell's account of the
  upstream requests. `CallRecord` takes the verdict as `withheld`, chosen
  freely.
- Bugzilla's REST client, quoting and the tracing of fields: building, parsing
  and formatting without state that the rest depends on. What a text or a URL
  names, which values a glob accepts and how a number is read are inputs of
  the guard's modules.
- `bug_url`, `server_info` and the catalogs of products and fields, which keep
  no state and show no bug; grouping, projection and the format of rows.
- The HTTP listener's checks of Host and of the body's size, which answer
  before any of the modelled state is touched, and the count of refusals.
- Pages of an answer that is no bug list, the relevance order itself, and the
  exporter's diagnostics but for their effect on the health latch.
- A panic of the serve loop, the panic hook, the generator binary and the test
  support.
- An initialize over HTTP that `closed_all` refuses because its record was lost:
  the peer's name is kept before the record is tried, so what `CallersAreKnown`
  says of the calls after it does not depend on the refusal. (Over stdio it ends
  the process, and `Stdio` has it.)
- A declared identity (`identity_source`), which costs no request where whoami
  costs one, on every path alike. `Sound` leaves out those checks of the
  configuration that stand in one step with others it names: an opt-out that
  contradicts a credential or is missing, two key arguments, stdio without a key.
- Serialization failures of a record; its contents.
