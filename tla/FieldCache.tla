------------------------------ MODULE FieldCache ------------------------------
(***************************************************************************)
(* The cache of custom-field kinds, shared by every tool call of the       *)
(* process.  A read (kinds) takes what is cached and asks for the rest; a  *)
(* write (kinds_fresh) asks for everything.  The map is locked only while  *)
(* it is read or changed, never while a request is out, so lookups overlap *)
(* and their answers come back in any order, while an administrator may    *)
(* change a field's type.                                                  *)
(*                                                                         *)
(* Bugzilla's schema is kept as the sequence of its versions; a reading    *)
(* keeps, for the properties only, the version it was made of and the call *)
(* that made it.                                                           *)
(***************************************************************************)
EXTENDS Integers, Sequences, FiniteSets

CONSTANTS
  Names,        \* the custom fields of the instance, in their order
  Calls,        \* tool calls
  Codes,        \* the type codes Bugzilla may give a field
  BugIdCode,    \* FIELD_TYPE_BUG_ID
  ListCodes,    \* FIELD_TYPE_BUG_LIST, FIELD_TYPE_BUG_URLS
  PlainCodes,   \* the audited codes of fields that link nothing
  Schemas,      \* the codes the fields may have in a version of the schema
  Asks,         \* the sets of fields a call may ask about
  Seconds,      \* the codes a second entry for a field may have
  LookupChunk,  \* LOOKUP_CHUNK
  MaxVersions   \* bound: versions of the schema

ASSUME CacheBounds == LookupChunk \in Nat \ {0} /\ MaxVersions \in Nat \ {0}
ASSUME CacheNames == Names \subseteq Nat /\ IsFiniteSet(Names)
ASSUME CacheAsks ==
  Asks \subseteq SUBSET Names /\ Seconds \subseteq Codes /\ Schemas \subseteq [Names -> Codes]
ASSUME CacheCodes ==
  /\ Codes # {} /\ ListCodes \cup PlainCodes \cup {BugIdCode} \subseteq Codes
  /\ ListCodes \cap PlainCodes = {} /\ BugIdCode \notin ListCodes \cup PlainCodes

VARIABLES
  schema,    \* the type of every field, one function per version
  known,     \* FieldTypeCache.known: name -> reading, for the names it holds
  calls,     \* the lookups under way or ended
  before     \* history: the pairs of calls the first of which ended before the second began

vars == <<schema, known, calls, before>>

\* CustomFieldKind
Kinds == {"BugId", "BugList", "Other", "Unknown"}

\* CustomFieldKind::may_link
MayLink(kind) == kind # "Other"

\* kind_of_type: {} when the code settles nothing.
KindOfType(code) ==
  IF code = BugIdCode THEN {"BugId"}
  ELSE IF code \in ListCodes THEN {"BugList"}
  ELSE IF code \in PlainCodes THEN {"Other"} ELSE {}

Now == Len(schema)

None == [n \in {} |-> {}]

Reading == [kind : Kinds, version : Nat, by : Calls]

Idle == [phase |-> "idle", fresh |-> FALSE, names |-> {}, missing |-> {}, rest |-> {},
         began |-> 0, requests |-> 0, answer |-> {}, at |-> 0, out |-> None]

Init ==
  /\ \E types \in Schemas : schema = <<types>>
  /\ known = None
  /\ calls = [c \in Calls |-> Idle]
  /\ before = {}

-----------------------------------------------------------------------------

\* An administrator gives fields other types.
Change ==
  /\ Now < MaxVersions
  /\ \E types \in Schemas \ {schema[Now]} : schema' = Append(schema, types)
  /\ UNCHANGED <<known, calls, before>>

Ended == {c \in Calls : calls[c].phase = "done"}

\* A call arrives with the names of its fields, those in ask still to look
\* up; with nothing to look up it is answered at once.
Enter(c, fresh, names, ask) ==
  /\ calls[c].phase = "idle"
  /\ calls' = [calls EXCEPT ![c] =
       [Idle EXCEPT !.phase = IF ask = {} THEN "done" ELSE "asking", !.fresh = fresh,
                    !.names = names, !.missing = ask, !.rest = ask, !.began = Now,
                    !.out = [n \in names |->
                               IF n \in ask THEN [kind |-> "Unknown", version |-> Now, by |-> c]
                               ELSE known[n]]]]
  /\ before' = before \cup (Ended \X {c})
  /\ UNCHANGED <<schema, known>>

\* FieldTypeCache::kinds: cached names are answered locally.
ReadKinds(c, names) == Enter(c, FALSE, names, names \ DOMAIN known)

\* (mutant) a write takes what is cached.
WriteKindsCached(c, names) == Enter(c, TRUE, names, names \ DOMAIN known)

\* FieldTypeCache::kinds_fresh
WriteKinds(c, names) == Enter(c, TRUE, names, names)

\* names.chunks(LOOKUP_CHUNK): the batch the next request asks for.
Chunk(c) == {n \in calls[c].rest : Cardinality({m \in calls[c].rest : m < n}) < LookupChunk}

\* Bugzilla answers for what it will of the batch; an entry it lists may be
\* listed twice, the second time under another type.
Respond(c, listed, twice) ==
  /\ calls[c].phase = "asking" /\ twice \subseteq listed /\ listed \subseteq Chunk(c)
  /\ \E other \in [twice -> Seconds] :
       calls' = [calls EXCEPT
         ![c].answer = {<<n, schema[Now][n]>> : n \in listed} \cup {<<n, other[n]>> : n \in twice},
         ![c].at = Now, ![c].phase = "answered", ![c].requests = @ + 1]
  /\ UNCHANGED <<schema, known, before>>

\* The readings of field n an envelope carries.
Listed(envelope, n) == UNION {KindOfType(entry[2]) : entry \in {e \in envelope : e[1] = n}}

\* (mutant) the first entry of a name stands.
KindInFirst(envelope, n) ==
  IF Listed(envelope, n) = {} THEN "Unknown"
  ELSE IF "Other" \in Listed(envelope, n) THEN "Other"
  ELSE CHOOSE kind \in Listed(envelope, n) : TRUE

\* kinds_in: a name listed twice reads as a link if any of its entries does.
KindIn(envelope, n) ==
  IF Listed(envelope, n) = {} THEN "Unknown"
  ELSE IF \E kind \in Listed(envelope, n) : MayLink(kind)
         THEN CHOOSE kind \in Listed(envelope, n) : MayLink(kind)
  ELSE "Other"

\* The call goes on with the next batch, or ends.
Advance(c, out) ==
  LET rest == calls[c].rest \ Chunk(c)
  IN  calls' = [calls EXCEPT ![c].out = out, ![c].rest = rest, ![c].answer = {}, ![c].at = 0,
                             ![c].phase = IF rest = {} THEN "done" ELSE "asking"]

\* (mutant) a name the answer does not settle keeps its old reading.
RefreshedKeeps(batch, found) ==
  [n \in DOMAIN known \cup DOMAIN found |-> IF n \in DOMAIN found THEN found[n] ELSE known[n]]

\* The cache with the readings of one batch: settled names get theirs, the
\* others lose what they had.
Refreshed(batch, found) ==
  [n \in (DOMAIN known \ batch) \cup DOMAIN found |-> IF n \in DOMAIN found THEN found[n] ELSE known[n]]

\* look_up, the Ok arm.
Apply(c) ==
  /\ calls[c].phase = "answered"
  /\ LET settled == {n \in Chunk(c) : KindIn(calls[c].answer, n) # "Unknown"}
         found == [n \in settled |->
                     [kind |-> KindIn(calls[c].answer, n), version |-> calls[c].at, by |-> c]]
     IN  /\ known' = Refreshed(Chunk(c), found)
         /\ Advance(c, [n \in calls[c].names |->
                          IF n \in settled THEN found[n] ELSE calls[c].out[n]])
  /\ UNCHANGED <<schema, before>>

\* (mutant) a batch that fails ends the lookup.
FailStops(c) ==
  /\ calls[c].phase = "asking"
  /\ known' = [n \in DOMAIN known \ Chunk(c) |-> known[n]]
  /\ calls' = [calls EXCEPT ![c].phase = "done", ![c].requests = @ + 1]
  /\ UNCHANGED <<schema, before>>

\* look_up, the Err arm: the request failed or timed out.
Fail(c) ==
  /\ calls[c].phase = "asking"
  /\ known' = [n \in DOMAIN known \ Chunk(c) |-> known[n]]
  /\ LET rest == calls[c].rest \ Chunk(c)
     IN  calls' = [calls EXCEPT ![c].rest = rest, ![c].requests = @ + 1,
                                ![c].phase = IF rest = {} THEN "done" ELSE "asking"]
  /\ UNCHANGED <<schema, before>>

LookUp(c) ==
  \/ \E listed \in SUBSET Names : \E twice \in SUBSET listed : Respond(c, listed, twice)
  \/ Apply(c)
  \/ Fail(c)

Next ==
  \/ Change
  \/ \E c \in Calls : \E names \in Asks : ReadKinds(c, names) \/ WriteKinds(c, names)
  \/ \E c \in Calls : LookUp(c)

Spec == Init /\ [][Next]_vars

-----------------------------------------------------------------------------
(* Properties                                                              *)

Versions == 1 .. Now

\* Every variable holds what its comment says.
TypeOK ==
  /\ schema \in Seq(Schemas) /\ Now \in 1 .. MaxVersions
  /\ DOMAIN known \subseteq Names
  /\ \A n \in DOMAIN known : known[n] \in Reading /\ known[n].version \in Versions
  /\ \A c \in Calls :
       /\ calls[c].phase \in {"idle", "asking", "answered", "done"} /\ calls[c].fresh \in BOOLEAN
       /\ calls[c].rest \subseteq calls[c].missing /\ calls[c].missing \subseteq calls[c].names
       /\ calls[c].began \in 0 .. Now /\ calls[c].at \in 0 .. Now /\ calls[c].requests \in Nat
       /\ calls[c].answer \subseteq calls[c].missing \X Codes
       /\ DOMAIN calls[c].out = calls[c].names /\ calls[c].names \subseteq Names
       /\ \A n \in calls[c].names : calls[c].out[n] \in Reading
  /\ before \subseteq Calls \X Calls

\* Field n was of a type that links to bugs in version v of the schema.
Links(v, n) == schema[v][n] \in ListCodes \cup {BugIdCode}

\* A write is told that a field links nothing only if that was so while the
\* write was asking: no reading made for an earlier call, no failed or
\* unreadable answer and no second entry makes a link field harmless.
WriteJudgesTheFieldAsItIs ==
  \A c \in Ended : calls[c].fresh =>
    \A n \in calls[c].names :
      ~MayLink(calls[c].out[n].kind) =>
        \E v \in calls[c].began .. Now : ~Links(v, n)

\* What is cached was settled by Bugzilla: no field is remembered as
\* unknown, and none as harmless that linked to bugs when asked about.
CachedIsSettled ==
  \A n \in DOMAIN known :
    /\ known[n].kind # "Unknown"
    /\ ~MayLink(known[n].kind) => ~Links(known[n].version, n)

\* A lookup leaves nothing in the cache about its names that is older than
\* itself, whether it was answered in full, in part or not at all.  Only a
\* lookup that was under way at the same time can put an older reading back.
LookupOutdatesTheCache ==
  \A c \in Ended : \A n \in calls[c].missing \cap DOMAIN known :
    \/ known[n].version >= calls[c].began
    \/ LET other == known[n].by IN <<c, other>> \notin before /\ <<other, c>> \notin before

\* A write's lookup costs a number of requests that its names alone decide,
\* neither the cache nor the answers: one for a write within the cap.
LookupCostIsFixed ==
  \A c \in Ended : calls[c].fresh =>
    LET size == Cardinality(calls[c].names)
    IN  calls[c].requests = (size + LookupChunk - 1) \div LookupChunk

\* The cache holds settled readings of fields asked about, nothing else, and
\* nothing a lookup that has ended since should have replaced.
CacheInv == TypeOK /\ CachedIsSettled /\ LookupOutdatesTheCache
=============================================================================
