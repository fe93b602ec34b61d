------------------------------- MODULE Stdio -------------------------------
(***************************************************************************)
(* The stdio transport (stdio.rs) and main's stdio arm around it.          *)
(*                                                                         *)
(* A peer writes frames, each some bytes and a newline.  BoundedLines      *)
(* hands them to rmcp's reader in chunks of any size and fails for good    *)
(* once a frame passes the cap; DiscoverAnswering answers the probes among *)
(* the frames itself and hands rmcp the others.  rmcp awaits receive() as  *)
(* one arm of a select, so the future is dropped whenever a handler's      *)
(* reply is ready, wherever it is suspended.  When the transport closes,   *)
(* main tells from the flags the two wrappers leave how to exit.           *)
(*                                                                         *)
(* rmcp's serve loop is external: it is modelled from how stdio.rs and     *)
(* main.rs use it.                                                         *)
(***************************************************************************)
EXTENDS Naturals, Sequences

CONSTANTS
  Cap,       \* request_body_cap(): the longest frame, without its newline
  MaxChunk,  \* the most one read delivers (8 KiB under rmcp's BufReader)
  Streams,   \* what peers write: sequences of frames
  MaxFrames  \* a bound on their number of frames

Kinds == {"discover", "ping", "initialize", "meta", "bare", "notice"}

\* A frame: its kind and the bytes before its newline.  A "meta" request
\* carries its own complete _meta of a revision the server speaks, a "bare"
\* one none.
Frame == [kind : Kinds, len : Nat]

ASSUME StdioAssumption ==
  /\ Cap \in Nat /\ MaxChunk \in Nat \ {0}
  /\ Streams \subseteq Seq(Frame) /\ \A s \in Streams : Len(s) <= MaxFrames

VARIABLES
  stream,     \* what this peer writes, frame by frame
  arrived,    \* bytes the reader has delivered
  since,      \* since_newline
  overCap,    \* over_cap
  ioFailed,   \* io_failed
  taken,      \* frames the inner transport has returned
  pending,    \* the probe whose reply is queued, if any
  await,      \* what receive() is suspended on: "none" when it is not polled
  probed,     \* answered()
  stage,      \* rmcp: "handshake", "greeting" (initialize is handled), then "serving",
              \* "draining" and "closed"; or no session: "failed" (the stream closed),
              \* "refused" (the first frame, or initialize) or "broken" (stdout did)
  direct,     \* request_metadata_required(): the handshake-free lifecycle
  running,    \* requests a handler works on
  out,        \* the frames answered, in the order of the answers
  lost,       \* whether a probe's reply could not be written
  signalled,  \* whether SIGINT or SIGTERM has come
  exit        \* "none", or how the process ended: "ok", "failure"

readerVars == <<arrived, since, overCap, ioFailed>>
serveVars == <<stage, direct, running>>
mainVars == <<signalled, exit>>
stdioVars == <<stream, arrived, since, overCap, ioFailed, taken, pending, await, probed,
               stage, direct, running, out, lost, signalled, exit>>

StdioInit ==
  /\ stream \in Streams
  /\ arrived = 0 /\ since = 0 /\ overCap = FALSE /\ ioFailed = FALSE
  /\ taken = 0 /\ pending = {} /\ await = "none" /\ probed = FALSE
  /\ stage = "handshake" /\ direct = FALSE /\ running = {}
  /\ out = <<>> /\ lost = FALSE /\ signalled = FALSE /\ exit = "none"

-----------------------------------------------------------------------------
(* BoundedLines                                                            *)

\* The position of the newline of frame i in the stream; 0 before the first.
NewlineAt[i \in 0 .. Len(stream)] ==
  IF i = 0 THEN 0 ELSE NewlineAt[i - 1] + stream[i].len + 1

\* The newlines in the next n bytes.
Newlines(n) == {p \in arrived + 1 .. arrived + n : \E i \in DOMAIN stream : NewlineAt[i] = p}

\* (mutant) the count starts anew with every chunk.
StartPerChunk(p, n) ==
  LET before == {q \in Newlines(n) : q < p}
  IN  IF before = {} THEN arrived ELSE CHOOSE q \in before : \A r \in before : r <= q

\* Where poll_read takes the frame that reaches to position p to have begun:
\* at a newline it has just passed in this chunk, or since_newline bytes ago.
Start(p, n) ==
  LET before == {q \in Newlines(n) : q < p}
  IN  IF before = {} THEN arrived - since ELSE CHOOSE q \in before : \A r \in before : r <= q

\* Where it measures: at every newline, and at the end of the chunk.
Measured(n) == Newlines(n) \cup {arrived + n + 1}

Trips(n) == \E p \in Measured(n) : p - 1 - Start(p, n) > Cap

\* receive() returns None: the handshake fails, or the serve loop drains.
Closes == stage' = IF stage = "handshake" THEN "failed" ELSE "draining"

\* rmcp reads on only when it has handed out every whole frame it holds.
Reading == await = "inner" /\ \A i \in DOMAIN stream : i = taken + 1 => NewlineAt[i] > arrived

\* poll_read on n more bytes.  The bytes of a chunk that trips are dropped
\* with the error, whole frames before the one that trips it included.
ReadChunk(n) ==
  /\ Reading /\ arrived + n <= NewlineAt[Len(stream)]
  /\ IF Trips(n)
     THEN /\ overCap' = TRUE /\ await' = "none" /\ Closes
          /\ UNCHANGED <<arrived, since>>
     ELSE /\ since' = arrived + n - Start(arrived + n + 1, n)
          /\ arrived' = arrived + n
          /\ UNCHANGED <<overCap, await, stage>>
  /\ UNCHANGED <<stream, ioFailed, taken, pending, probed, direct, running, out, lost, mainVars>>

\* The inner stream fails.
ReadFails ==
  /\ Reading /\ ioFailed' = TRUE
  /\ await' = "none" /\ Closes
  /\ UNCHANGED <<stream, arrived, since, overCap, taken, pending, probed, direct, running,
                 out, lost, mainVars>>

\* The peer hangs up between two frames.
HangsUp ==
  /\ Reading /\ arrived = NewlineAt[taken]
  /\ await' = "none" /\ Closes
  /\ UNCHANGED <<stream, readerVars, taken, pending, probed, direct, running, out, lost, mainVars>>

-----------------------------------------------------------------------------
(* DiscoverAnswering::receive and rmcp behind it                           *)

\* rmcp polls receive(), which drives a queued reply before anything else.
Receive ==
  /\ stage \in {"handshake", "serving"} /\ await = "none"
  /\ await' = IF pending # {} THEN "pending" ELSE "inner"
  /\ UNCHANGED <<stream, readerVars, taken, pending, probed, serveVars, out, lost, mainVars>>

\* The queued reply is written ...
ReplySent ==
  /\ await = "pending"
  /\ \E i \in pending : out' = Append(out, i)
  /\ pending' = {} /\ probed' = TRUE /\ await' = "inner"
  /\ UNCHANGED <<stream, readerVars, taken, serveVars, lost, mainVars>>

\* ... or cannot be: the transport closes.
ReplyFails ==
  /\ await = "pending"
  /\ pending' = {} /\ lost' = TRUE
  /\ await' = "none" /\ Closes
  /\ UNCHANGED <<stream, readerVars, taken, probed, direct, running, out, mainVars>>

\* Frame i reaches rmcp.  Before a frame commits the session, rmcp answers a
\* ping and a request without metadata itself and keeps waiting, unless the
\* answer cannot be written; afterwards it answers for itself only a request
\* that lacks the metadata a handshake-free session requires.  initialize is
\* handled before anything else is read, and a notification opens no session.
Hand(i) ==
  LET kind == stream[i].kind
      opening == stage = "handshake"
      answered == \/ opening /\ kind \in {"ping", "bare"}
                  \/ ~opening /\ kind = "bare" /\ direct
      opens == IF kind = "notice" THEN "refused"
               ELSE IF kind = "initialize" THEN "greeting" ELSE "serving"
  IN  \/ /\ out' = IF answered THEN Append(out, i) ELSE out
         /\ running' = IF answered \/ kind = "notice" \/ (opening /\ kind = "initialize")
                       THEN running ELSE running \cup {i}
         /\ direct' = (direct \/ (opening /\ kind = "meta"))
         /\ stage' = IF opening /\ ~answered THEN opens ELSE stage
      \/ /\ opening /\ answered /\ stage' = "broken"
         /\ UNCHANGED <<out, running, direct>>

\* initialize is answered, with a session or, when the audit sink has refused
\* its record under closed_all, with an error and none; or the answer cannot
\* be written.
Greeted ==
  /\ stage = "greeting"
  /\ \/ out' = Append(out, taken) /\ stage' \in {"serving", "refused"}
     \/ out' = out /\ stage' = "broken"
  /\ UNCHANGED <<stream, readerVars, taken, pending, await, probed, direct, running, lost,
                 mainVars>>

\* (mutant) a probe is a frame like any other.
IsProbeNever(i) == FALSE

\* The one frame the transport keeps for itself.
IsProbe(i) == stream[i].kind = "discover"

\* The inner transport returns the next frame.
Take ==
  LET i == taken + 1
  IN  /\ await = "inner" /\ taken < Len(stream) /\ NewlineAt[i] <= arrived
      /\ taken' = i
      /\ IF IsProbe(i)
         THEN /\ pending' = {i} /\ await' = "pending"
              /\ UNCHANGED <<serveVars, out>>
         ELSE /\ await' = "none" /\ Hand(i)
              /\ UNCHANGED pending
      /\ UNCHANGED <<stream, readerVars, probed, lost, mainVars>>

\* (mutant) the reply lives on the stack of the receive() that is dropped.
ReplyReadyDrops(i) ==
  /\ i \in running /\ stage \in {"serving", "draining"}
  /\ running' = running \ {i} /\ out' = Append(out, i)
  /\ await' = "none" /\ pending' = {}
  /\ UNCHANGED <<stream, readerVars, taken, probed, stage, direct, lost, mainVars>>

\* A handler's reply wins the select: it is written, and receive() dropped.
ReplyReady(i) ==
  /\ i \in running /\ stage \in {"serving", "draining"}
  /\ running' = running \ {i} /\ out' = Append(out, i)
  /\ await' = "none"
  /\ UNCHANGED <<stream, readerVars, taken, pending, probed, stage, direct, lost, mainVars>>

\* The loop has drained, or waited for its handlers long enough, and closes
\* the transport: close() writes a reply still queued, if it can.
Close ==
  /\ stage = "draining"
  /\ stage' = "closed" /\ running' = {} /\ pending' = {}
  /\ \/ \E i \in pending : out' = Append(out, i) /\ UNCHANGED lost
     \/ pending # {} /\ lost' = TRUE /\ UNCHANGED out
     \/ pending = {} /\ UNCHANGED <<out, lost>>
  /\ UNCHANGED <<stream, readerVars, taken, await, probed, direct, mainVars>>

-----------------------------------------------------------------------------
(* main                                                                    *)

\* A signal cancels the serve loop; before the session opens there is none.
Signal ==
  /\ ~signalled /\ signalled' = TRUE
  /\ stage' = IF stage = "serving" THEN "draining" ELSE stage
  /\ await' = "none"
  /\ UNCHANGED <<stream, readerVars, taken, pending, probed, direct, running, out, lost, exit>>

\* (mutant) an answered probe makes a hangup of every close before a session.
OutcomeProbedFirst ==
  CASE stage \in {"refused", "broken"} -> "failure"
    [] stage = "failed" -> IF probed THEN "ok" ELSE "failure"
    [] OTHER -> IF overCap THEN "failure" ELSE "ok"

\* The arms of main's two matches.  rmcp reports a hangup, a refused frame
\* and a failed read alike, so the flags decide; once a session was open, a
\* failed read is taken for its end.
Outcome ==
  CASE stage \in {"refused", "broken"} -> "failure"
    [] stage = "failed" -> IF probed /\ ~overCap /\ ~ioFailed THEN "ok" ELSE "failure"
    [] OTHER -> IF overCap THEN "failure" ELSE "ok"

\* main returns, or after a signal has flushed and exits with 0 whatever the
\* transport has come to.
Exit ==
  /\ exit' = IF signalled THEN "ok" ELSE Outcome
  /\ signalled \/ stage \in {"failed", "refused", "broken", "closed"}
  /\ UNCHANGED <<stream, readerVars, taken, pending, await, probed, serveVars, out, lost,
                 signalled>>

\* Nothing happens in a process that has exited.
Alive == exit = "none"

Poll == Receive \/ Take
Write == ReplySent \/ ReplyFails
Client == HangsUp \/ ReadFails \/ \E n \in 1 .. MaxChunk : ReadChunk(n)

StdioNext ==
  /\ Alive
  /\ \/ Client \/ Poll \/ Write \/ Greeted \/ Close \/ Signal \/ Exit
     \/ \E i \in running : ReplyReady(i)

StdioSpec == StdioInit /\ [][StdioNext]_stdioVars

-----------------------------------------------------------------------------
(* Properties                                                              *)

\* The position of the last newline that has arrived.
LastNewline ==
  LET passed == {i \in 0 .. Len(stream) : NewlineAt[i] <= arrived}
  IN  NewlineAt[CHOOSE i \in passed : \A j \in passed : j <= i]

\* However the bytes are cut into chunks, no frame past the cap is handed
\* out, nor a frame behind it, no more than the cap is ever held of a frame
\* under way, and the transport is refused only over a frame that is too long
\* (BoundedLines: "a frame of exactly cap bytes is accepted").
BoundedFrames ==
  /\ \A i \in 1 .. taken : stream[i].len <= Cap
  /\ arrived - LastNewline <= Cap
  /\ overCap => \E i \in taken + 1 .. Len(stream) : stream[i].len > Cap

Answered(i) == \E n \in DOMAIN out : out[n] = i

\* A probe is answered once and in its place, before anything the peer wrote
\* after it, however often receive() is dropped, and chooses no lifecycle: a
\* session is handshake-free only if the first frame that commits it says so
\* (#267).
ProbesAreAnsweredInPlace ==
  /\ \A i \in 1 .. taken : stream[i].kind = "discover" =>
       Answered(i) \/ (i = taken /\ pending = {i}) \/ lost
  /\ \A m, n \in DOMAIN out : m < n =>
       out[m] # out[n] /\ (stream[out[n]].kind = "discover" => out[m] < out[n])
  /\ direct =>
       \E i \in 1 .. taken : /\ stream[i].kind = "meta"
                             /\ \A j \in 1 .. i - 1 : stream[j].kind \in {"discover", "ping", "bare"}

\* The exit code tells a refused frame from a hangup on either side of the
\* handshake, a client that only probed and left from one that said nothing,
\* and before a session a failed stdin from a peer that left.  A client that
\* probed fails only over what it wrote next: the first frame to commit a
\* session opened none (a notification, or an initialize the audit sink
\* refused), or met a stdout that takes no answer
\* (stdio_a_refused_initialize_is_classified_not_echoed,
\* stdio_a_broken_stdout_during_the_handshake_is_classified).
ExitTellsTheRefusal ==
  LET asked == \E n \in DOMAIN out : stream[out[n]].kind = "discover"
      unopened ==
        /\ taken \in DOMAIN stream
        /\ \A j \in 1 .. taken - 1 : stream[j].kind \in {"discover", "ping", "bare"}
        /\ \/ stage = "refused" /\ stream[taken].kind \in {"notice", "initialize"}
           \/ /\ stage = "broken" /\ ~Answered(taken)
              /\ stream[taken].kind \in {"ping", "bare", "initialize"}
  IN  /\ exit = "ok" /\ ~signalled =>
           ~overCap /\ (stage = "closed" \/ (stage = "failed" /\ asked /\ ~ioFailed))
      /\ exit = "failure" => overCap \/ ioFailed \/ ~asked \/ unopened

\* Every request that has arrived in whole is answered, unless the process
\* ends: a queued reply is not left behind by the select (#267), nor does it
\* keep a handler's reply from being written.
EveryRequestIsAnswered ==
  \A i \in 1 .. MaxFrames :
    (i \in DOMAIN stream /\ NewlineAt[i] <= arrived /\ stream[i].kind # "notice")
      ~> (Answered(i) \/ ~Alive)
=============================================================================
