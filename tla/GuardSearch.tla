------------------------------ MODULE GuardSearch ------------------------------
(***************************************************************************)
(* Guard::quicksearch_window: searches whose limit and offset address the  *)
(* bugs the client may see, over an upstream list that holds others too.   *)
(*                                                                         *)
(* A search scans the upstream list from its first row, a chunk a request, *)
(* drops what the policy hides, and cuts the client's window out of what   *)
(* is left.  Between two requests the upstream order may change (relevance *)
(* is not stable) and bugs may be hidden or published.  A client runs two  *)
(* searches one after the other, so that properties can compare the pages. *)
(*                                                                         *)
(* A row is the bug it shows.  Whether filter_bug_list keeps it, whole or  *)
(* as a summary, is membership in "open"; an unreadable id, in "nameless". *)
(***************************************************************************)
EXTENDS AuditCell, Naturals, Sequences, SequencesExt

CONSTANTS
  Bugs,            \* the bugs a search can match
  Listings,        \* the upstream results a query may have: sequences of bugs
  Unlabelled,      \* the sets of bugs whose rows may lack a readable id
  Caps,            \* the page sizes an upstream may impose
  ScanChunk,       \* Guard::SEARCH_SCAN_CHUNK
  ScanMax,         \* Guard::SEARCH_SCAN_MAX
  ScanRequests,    \* Guard::SEARCH_SCAN_REQUESTS
  MaxWindow,       \* Guard::MAX_SEARCH_WINDOW
  MaxAsk,          \* bound: the largest limit and offset a client sends
  MaxDisturbances  \* bound: changes upstream while the client searches

ASSUME BoundsAssumption ==
  /\ {ScanChunk, ScanMax, ScanRequests, MaxWindow} \subseteq Nat \ {0}
  /\ MaxAsk \in Nat /\ MaxDisturbances \in Nat
ASSUME CapsAssumption == Caps \subseteq Nat \ {0}
ASSUME UnlabelledAssumption == Unlabelled \subseteq SUBSET Bugs
ASSUME ListingsAssumption == \A l \in Listings : l \in Seq(Bugs) /\ IsInjective(l)

VARIABLES
  rows,         \* the upstream result, best match first
  open,         \* the bugs the policy lets the client see
  nameless,     \* the bugs whose row carries no readable id
  cap,          \* max_search_results of the upstream
  disturbances, \* counts the upstream changes, for the bound
  phase,        \* "idle", "scan", "answered" or "failed"
  offset, limit,\* of the search under way
  seen,         \* ids met so far
  visible,      \* the bugs kept so far
  dropped,      \* the bugs withheld so far
  scanned,      \* upstream rows examined
  requests,     \* upstream requests sent
  page,         \* SearchWindow.bugs of the last answer
  past          \* history: the client's searches before this one

upstream == <<rows, open, nameless, cap, disturbances>>
search == <<offset, limit, seen, visible, dropped, scanned, requests, page>>
searchVars == <<upstream, phase, search, past>>

\* The rows of s that are in S, in their order.
Kept(s, S) ==
  LET upto[i \in 0 .. Len(s)] ==
        IF i = 0 THEN <<>>
        ELSE IF s[i] \in S THEN Append(upto[i-1], s[i]) ELSE upto[i-1]
  IN  upto[Len(s)]

Least(a, b) == IF a <= b THEN a ELSE b
CeilDiv(a, b) == (a + b - 1) \div b

\* Nothing changed upstream since the client began.
Steady == disturbances = 0

SearchInit ==
  /\ rows \in Listings /\ open \in SUBSET ToSet(rows)
  /\ nameless \in Unlabelled /\ cap \in Caps
  /\ disturbances = 0
  /\ phase = "idle" /\ offset = 0 /\ limit = 0
  /\ seen = {} /\ visible = <<>> /\ dropped = <<>>
  /\ scanned = 0 /\ requests = 0 /\ page = <<>>
  /\ past = <<>>

-----------------------------------------------------------------------------
(* Upstream.  It changes while the first search is under way: a search     *)
(* starts afresh, and SearchInit has the listings a later one would start  *)
(* on.                                                                     *)

\* The relevance order changes: row i becomes the best match.
Reorder(i) ==
  /\ disturbances < MaxDisturbances /\ phase = "scan" /\ past = <<>>
  /\ i \in 2 .. Len(rows)
  /\ rows' = <<rows[i]>> \o RemoveAt(rows, i)
  /\ disturbances' = disturbances + 1
  /\ UNCHANGED <<open, nameless, cap, phase, search, past>>

\* A bug is hidden, or published.
Flip(b) ==
  /\ disturbances < MaxDisturbances /\ phase = "scan" /\ past = <<>>
  /\ open' = IF b \in open THEN open \ {b} ELSE open \cup {b}
  /\ disturbances' = disturbances + 1
  /\ UNCHANGED <<rows, nameless, cap, phase, search, past>>

\* What the upstream returns for a limit and an offset: it may serve fewer
\* rows than asked for (a cap below the limit), or overrun the limit (one
\* above the chunk).
Response(wanted, from) ==
  LET size == IF cap > ScanChunk THEN cap ELSE Least(cap, wanted)
  IN  SubSeq(rows, from + 1, Least(from + size, Len(rows)))

-----------------------------------------------------------------------------
(* A search                                                                *)

\* How many visible bugs the window reaches to.  The sum saturates in the
\* code, far above MaxWindow.
NeededFor(off, lim) == Least(off + lim, MaxWindow)

\* (mutant) scans for exactly the bugs the window needs.
TargetExact(off, lim) == NeededFor(off, lim)

\* How many it scans for: a whole number of chunks.
Target(off, lim) == CeilDiv(NeededFor(off, lim), ScanChunk) * ScanChunk

NextChunk == Least(ScanChunk, ScanMax - scanned)

\* (mutant) rows met before count again.
FreshRepeats(got) == ToSet(got) \ nameless

\* The rows of a response with a readable id not met before.
Fresh(got) == ToSet(got) \ (nameless \cup seen)

\* (mutant) a page shorter than asked for is taken for the last one.
GoesOnFullPages(got, kept, examined, sent) ==
  /\ Len(got) >= NextChunk
  /\ Len(kept) < Target(offset, limit) /\ examined < ScanMax /\ sent < ScanRequests

\* The scan goes on after a response that was not empty, until the target
\* is met or a bound is.
GoesOn(got, kept, examined, sent) ==
  /\ got # <<>>
  /\ Len(kept) < Target(offset, limit) /\ examined < ScanMax /\ sent < ScanRequests

\* The window: visible[start..end], start clamped to end.
Cut(kept) ==
  LET end == Least(NeededFor(offset, limit), Len(kept))
      start == Least(offset, end)
  IN  SubSeq(kept, start + 1, end)

\* The client sends a search; one for no rows is answered without a request.
\* Bound: after the first answer one more, and only over a list that kept
\* still, as two pages are compared over no other.
Begin(off, lim) ==
  /\ phase # "scan" /\ past = <<>> /\ Steady
  /\ offset' = off /\ limit' = lim
  /\ seen' = {} /\ visible' = <<>> /\ dropped' = <<>>
  /\ scanned' = 0 /\ requests' = 0 /\ page' = <<>>
  /\ phase' = IF lim = 0 \/ NeededFor(off, lim) = 0 THEN "answered" ELSE "scan"
  /\ past' = IF phase = "answered"
               THEN Append(past, [offset |-> offset, limit |-> limit, page |-> page,
                                  requests |-> requests])
               ELSE past
  /\ UNCHANGED upstream

\* One request of the scan loop and, after the last one, the answer.
Scan ==
  LET got   == Response(NextChunk, scanned)
      fresh == Fresh(got)
      kept  == visible \o Kept(got, fresh \cap open)
  IN  /\ phase = "scan"
      /\ seen' = seen \cup fresh
      /\ visible' = kept
      /\ dropped' = dropped \o Kept(got, fresh \ open)
      /\ scanned' = scanned + Len(got)
      /\ requests' = requests + 1
      /\ IF GoesOn(got, kept, scanned', requests')
           THEN UNCHANGED <<phase, page>>
           ELSE phase' = "answered" /\ page' = Cut(kept)
      /\ UNCHANGED <<upstream, offset, limit, past>>

\* A request fails: the search ends with an error and no page.
ScanFails ==
  /\ phase = "scan"
  /\ phase' = "failed"
  /\ UNCHANGED <<upstream, search, past>>

SearchNext ==
  \/ \E i \in 1 .. Len(rows) : Reorder(i)
  \/ \E b \in ToSet(rows) : Flip(b)
  \/ \E off, lim \in 0 .. MaxAsk : Begin(off, lim)
  \/ Scan
  \/ ScanFails

SearchSpec == SearchInit /\ [][SearchNext]_searchVars

-----------------------------------------------------------------------------
(* Properties                                                              *)

\* Every variable holds what its comment says, and no search sends more
\* requests or, against an upstream that keeps to the limit it is given,
\* examines more rows than its budget.
SearchTypeOK ==
  /\ rows \in Seq(Bugs) /\ open \subseteq Bugs /\ nameless \subseteq Bugs /\ cap \in Caps
  /\ disturbances \in 0 .. MaxDisturbances
  /\ phase \in {"idle", "scan", "answered", "failed"}
  /\ offset \in 0 .. MaxAsk /\ limit \in 0 .. MaxAsk
  /\ seen \subseteq Bugs
  /\ {visible, dropped, page} \subseteq Seq(Bugs)
  /\ requests \in 0 .. ScanRequests
  /\ scanned \in Nat /\ (cap <= ScanChunk => scanned <= ScanMax)
  /\ Len(past) <= 1
  /\ \A i \in DOMAIN past :
       past[i] \in [offset : 0 .. MaxAsk, limit : 0 .. MaxAsk, page : Seq(Bugs),
                    requests : 0 .. ScanRequests]

\* The bugs of the listing the client may see, and its window on them: what
\* the search promises, without chunks, requests or bounds on the scan.
Shown == Kept(rows, open \ nameless)
Promised == SubSeq(Shown, offset + 1, Least(NeededFor(offset, limit), Len(Shown)))

\* The rows a scan gets to see when no target stops it.
Reach == Least(ScanMax, cap * ScanRequests)

\* Over a list that keeps still, a page is the client's window on the
\* visible bugs, or, when the list is longer than a scan may reach, a prefix
\* of it: hidden bugs, repeated short pages and overruns leave no hole in it
\* and shift nothing (quicksearch_window: "pagination is applied AFTER the
\* guard").
PageIsWindow ==
  phase = "answered" /\ Steady =>
    /\ IsPrefix(page, Promised)
    /\ Len(rows) <= Reach => page = Promised

\* Once a page came back short, no search past it finds anything: a short
\* page followed by more results would say that a hidden bug sits in it
\* ("never contradicts a later offset"), also when a bound cut the scan.
ShortPageIsTheEnd ==
  phase = "answered" /\ Steady =>
    \A i \in DOMAIN past :
      /\ Len(past[i].page) < past[i].limit
      /\ offset >= past[i].offset + Len(past[i].page)
      => page = <<>>

\* The block of visible bugs, a chunk long, in which a window ends.
Block(off, lim) == CeilDiv(NeededFor(off, lim), ScanChunk)

\* Two searches that reach into the same chunk cost the upstream the same
\* requests, whatever is hidden: the clock does not tell their limits apart
\* ("every limit inside a block asks for the same work").
SameWorkInABlock ==
  phase = "answered" /\ Steady =>
    \A i \in DOMAIN past :
      /\ limit > 0 /\ past[i].limit > 0
      /\ Block(offset, limit) = Block(past[i].offset, past[i].limit)
      => requests = past[i].requests

\* However the upstream reorders its list under the scan, and bugs are
\* hidden or published under it, no bug is counted twice: not on the page,
\* not among the withheld, and not once as each.
NothingTwice == IsInjective(visible \o dropped)

\* bugs_quicksearch's notes, but for summary views and the links it scrubs.
SearchNoted ==
  NoteSuppressed(NoteScan(NoteVerdict(NothingNoted, "Served"), scanned, Len(dropped)),
                 ToSet(dropped))

\* The record of a search tells what the page does not: it is filtered when a
\* row was dropped, whatever the window then left of the others, its count of
\* the dropped is that of the ids beside it, and every row on the page or
\* hidden is one of those examined.
SearchRecordIsTrue ==
  phase = "answered" =>
    /\ (SearchNoted.verdict = {"Served"}) <=> (seen \subseteq ToSet(visible))
    /\ \A scan \in SearchNoted.scan :
         /\ scan.dropped = Cardinality(SearchNoted.ids)
         /\ scan.scanned >= Cardinality(SearchNoted.ids \cup ToSet(visible))
    /\ SearchNoted.ids \cap ToSet(page) = {}

\* What a scan counts, it counts once, within its budget, and as it was.
SearchInv == SearchTypeOK /\ NothingTwice /\ SearchRecordIsTrue

\* The pages of one list agree with it and with each other.
PagesAgree == PageIsWindow /\ ShortPageIsTheEnd
=============================================================================
