----------------------------- MODULE HttpFront -----------------------------
(***************************************************************************)
(* The http transport: the bearer gate (http_auth.rs) in front of rmcp's   *)
(* streamable service, the session manager that stamps the minted id       *)
(* (http_session.rs), and the handlers that read scope, lifecycle, session *)
(* and client off a request (server.rs).                                   *)
(*                                                                         *)
(* Requests are handled concurrently, a session may close or be            *)
(* initialized again under one, and whatever a client writes in a header   *)
(* or in _meta it may have made up.  rmcp's routing is external: it is     *)
(* modelled from how server.rs and http_session.rs use it.                 *)
(***************************************************************************)
EXTENDS Startup

CONSTANTS
  Requests,     \* what clients send
  Slots,        \* requests under way at once
  MaxRequests,  \* a bound on the requests sent
  MaxSessions   \* a bound on the sessions minted

\* The protocol revisions a request may name, in their order: the handshake's
\* and the per-request one this server serves, and one it does not.
Handshakes == {1, 2}
PerRequestFrom == 3
Served == Handshakes \cup {PerRequestFrom}
Unserved == 9
Default == 2

SessionIds == 1 .. MaxSessions

\* auth: the Authorization values, each the words of one; sid: the
\* mcp-session-id header; declared: the revision in _meta, caps: whether the
\* client's capabilities stand beside it; asked: initialize's revision.
Request ==
  [auth : Seq(Seq(STRING)), method : {"initialize", "list", "call"}, tool : STRING,
   sid : Option(Nat), declared : Option(Served \cup {Unserved}), caps : BOOLEAN,
   asked : Served \cup {Unserved}, client : STRING]

ASSUME RequestsAssumption ==
  /\ MaxSessions \in Nat
  /\ \A r \in Requests :
       /\ r.auth \in Seq(Seq(STRING)) /\ r.client \in STRING
       /\ r.sid \subseteq Nat /\ \A x, y \in r.sid : x = y
       /\ {r.asked} \cup r.declared \subseteq Served \cup {Unserved}

VARIABLES
  sessions,  \* the sessions minted: open or not, revision, clients greeted
  slots,     \* the requests under way or answered last
  sent       \* how many were sent

httpVars == <<sessions, slots, sent>>

Idle == [phase |-> "idle"]

HttpInit == sessions = <<>> /\ slots = [s \in Slots |-> Idle] /\ sent = 0

-----------------------------------------------------------------------------
(* http_auth                                                               *)

\* (mutant) the first of several values is taken.
SoleAuthorizationFirst(auth) == IF auth = <<>> THEN {} ELSE {auth[1]}

SoleAuthorization(auth) == IF Len(auth) = 1 THEN {auth[1]} ELSE {}

\* bearer_credential: exactly two words, the scheme in any case.
BearerCredential(words) ==
  IF Len(words) = 2 /\ words[1] \in {"Bearer", "bearer"} THEN {words[2]} ELSE {}

\* scope_for: the greatest scope whose token the credential is.
ScopeFor(auth) ==
  LET candidates == UNION {BearerCredential(w) : w \in SoleAuthorization(auth)}
  IN  IF candidates \cap deployment.write # {} THEN {"write"}
      ELSE IF candidates \cap deployment.read # {} THEN {"read"} ELSE {}

\* gate(): an insecure listener attaches no scope.
Gate(auth) == IF deployment.insecure THEN {} ELSE ScopeFor(auth)

Turned(auth) == ~deployment.insecure /\ ScopeFor(auth) = {}

-----------------------------------------------------------------------------
(* rmcp's routing and the session manager                                  *)

\* Every initialize takes the session path, and a request that declares the
\* per-request revision or a complete _meta does not.
Stateless(r) ==
  /\ r.method # "initialize"
  /\ \E v \in r.declared : v >= PerRequestFrom \/ r.caps

\* What rmcp refuses before a handler runs: on the stateless path an
\* incomplete _meta or a revision not served, on the other a session header
\* that names no open session, or none.
Unroutable(r) ==
  IF Stateless(r) THEN ~r.caps \/ ~(r.declared \subseteq Served)
  ELSE \/ \E s \in r.sid : s \notin DOMAIN sessions \/ ~sessions[s].open
       \/ r.sid = {} /\ r.method # "initialize"

\* A request arrives: the gate, then rmcp's look at its session.
Arrive(s, r) ==
  /\ slots[s].phase \in {"idle", "done"} /\ sent < MaxRequests
  /\ sent' = sent + 1
  /\ slots' = [slots EXCEPT ![s] =
       [phase |-> IF Turned(r.auth) \/ Unroutable(r) THEN "done" ELSE "routed",
        request |-> r, scope |-> Gate(r.auth), stamp |-> {}, record |-> {}, listed |-> {},
        hinted |-> FALSE,
        answer |-> IF Turned(r.auth) THEN "unauthorized"
                   ELSE IF Unroutable(r) THEN "unroutable" ELSE "none"]]
  /\ UNCHANGED <<startVars, sessions>>

\* (mutant) the session is the one the header names.
StampHeader(r, id) == r.sid

\* stamp(): the id of the session the message is delivered to.
Stamp(r, id) == id

\* The session manager hands the message to its session, if it is still
\* open; an initialize that names none has one minted.
Deliver(s) ==
  LET r == slots[s].request
      new == Len(sessions) + 1
  IN  /\ slots[s].phase = "routed"
      /\ \/ /\ Stateless(r)
            /\ slots' = [slots EXCEPT ![s].phase = "handled", ![s].stamp = Stamp(r, {})]
            /\ UNCHANGED sessions
         \/ /\ ~Stateless(r) /\ r.sid = {} /\ new \in SessionIds
            /\ sessions' = Append(sessions, [open |-> TRUE, revision |-> {}, client |-> {},
                                             greeted |-> {}])
            /\ slots' = [slots EXCEPT ![s].phase = "handled", ![s].stamp = Stamp(r, {new})]
         \/ \E id \in IF Stateless(r) THEN {} ELSE r.sid :
              /\ slots' = IF sessions[id].open
                          THEN [slots EXCEPT ![s].phase = "handled", ![s].stamp = Stamp(r, {id})]
                          ELSE [slots EXCEPT ![s].phase = "done", ![s].answer = "unroutable"]
              /\ UNCHANGED sessions
  /\ UNCHANGED <<startVars, sent>>

\* close_session, asked for by the client or timed out.
CloseSession(id) ==
  /\ sessions[id].open
  /\ sessions' = [sessions EXCEPT ![id].open = FALSE]
  /\ UNCHANGED <<startVars, slots, sent>>

-----------------------------------------------------------------------------
(* The handlers                                                            *)

\* lifecycle_of: decided on what the request itself declares.
Lifecycle(r) ==
  IF r.declared = {} THEN "Handshake"
  ELSE IF \E v \in r.declared : v >= PerRequestFrom /\ v \in Served THEN "PerRequest"
  ELSE "OutOfContract"

\* The session a request was delivered to.
Peer(s) == {sessions[id] : id \in slots[s].stamp}

\* client_of: the request's own declaration, or the client greeted.
ClientOf(s) ==
  CASE Lifecycle(slots[s].request) = "PerRequest" -> {slots[s].request.client}
    [] Lifecycle(slots[s].request) = "Handshake"  -> UNION {p.client : p \in Peer(s)}
    [] OTHER -> {}

\* reach() and reaches(): with enforcement on and no scope, nothing.
Reaches(tool, scope) ==
  \/ ~enforce
  \/ scope = {"write"}
  \/ scope = {"read"} /\ tool \notin WriteTools

\* initialize: a handshake revision this server serves, or its default.
Negotiated(asked) == IF asked < PerRequestFrom /\ asked \in Served THEN asked ELSE Default

\* initialize, the first of a session or another: the peer is what it says,
\* and the record names the session.
Initialize(s) ==
  LET r == slots[s].request
  IN  /\ slots[s].phase = "handled" /\ r.method = "initialize"
      /\ sessions' = [id \in DOMAIN sessions |->
           IF id \in slots[s].stamp
           THEN [sessions[id] EXCEPT !.revision = {Negotiated(r.asked)}, !.client = {r.client},
                                     !.greeted = @ \cup {r.client}]
           ELSE sessions[id]]
      /\ slots' = [slots EXCEPT ![s].phase = "done", ![s].answer = "initialized",
             ![s].record = {[session |-> slots[s].stamp, client |-> {r.client}]}]
      /\ UNCHANGED <<startVars, sent>>

\* call_tool up to the dispatch: an out-of-contract declaration is recorded
\* and refused; a tool the scope does not reach is refused as one there is
\* none of, and recorded like any call.
CallTool(s) ==
  LET r == slots[s].request
  IN  /\ slots[s].phase = "handled" /\ r.method = "call"
      /\ slots' = [slots EXCEPT ![s].phase = "done",
           ![s].answer = IF Lifecycle(r) = "OutOfContract" THEN "out of contract"
                         ELSE IF Reaches(r.tool, slots[s].scope) /\ r.tool \in routed
                         THEN "dispatched" ELSE "tool not found",
           ![s].record = {[session |-> slots[s].stamp, client |-> ClientOf(s)]}]
      /\ UNCHANGED <<startVars, sessions, sent>>

Listed(scope) == {t \in routed : Reaches(t, scope)}

\* list_tools: filtered by the scope, never recorded; the caching hints go
\* by the request's revision or else its session's.
ListTools(s) ==
  LET r == slots[s].request
      revision == IF r.declared # {} THEN r.declared ELSE UNION {p.revision : p \in Peer(s)}
  IN  /\ slots[s].phase = "handled" /\ r.method = "list"
      /\ slots' = IF Lifecycle(r) = "OutOfContract"
                  THEN [slots EXCEPT ![s].phase = "done", ![s].answer = "out of contract"]
                  ELSE [slots EXCEPT ![s].phase = "done", ![s].answer = "listed",
                          ![s].listed = Listed(slots[s].scope),
                          ![s].hinted = \E v \in revision : v >= PerRequestFrom]
      /\ UNCHANGED <<startVars, sessions, sent>>

HttpNext ==
  \/ \E s \in Slots : \/ \E r \in Requests : Arrive(s, r)
                      \/ Deliver(s) \/ Initialize(s) \/ CallTool(s) \/ ListTools(s)
  \/ \E id \in DOMAIN sessions : CloseSession(id)

-----------------------------------------------------------------------------
(* Properties                                                              *)

Done == {s \in Slots : slots[s].phase = "done"}

\* The request carries one credential, and it is among the tokens.
Carries(r, tokens) ==
  \E token \in tokens, scheme \in {"Bearer", "bearer"} : r.auth = << <<scheme, token>> >>

\* The tools a request's credential is for: all that the deployment serves
\* with the write token, those that only read with the read token, and
\* without one only what a listener without tokens serves to anybody.
Entitled(r) ==
  {t \in Tools \ deployment.disabled :
     /\ deployment.read_only => t \notin WriteTools
     /\ t \in DiscoveryTools => deployment.discovery
     /\ \/ Tokens = {} \/ Carries(r, deployment.write)
        \/ t \notin WriteTools /\ Carries(r, deployment.read)}

\* What is dispatched, what is listed and what is refused as unknown agree
\* with the one credential the request carries, whatever session it came in
\* and whoever opened that; without a credential nothing past the gate
\* answers, not even to say that a session does not exist (I2, I13).
SurfaceIsTheCredentials ==
  \A s \in Done :
    LET r == slots[s].request
        a == slots[s].answer
    IN  /\ a = "listed" => slots[s].listed = Entitled(r)
        /\ a = "dispatched" => r.tool \in Entitled(r)
        /\ a = "tool not found" => r.tool \notin Entitled(r)
        /\ Tokens # {} /\ ~Carries(r, Tokens) => a = "unauthorized"

\* A record names a session only if the transport minted it and delivered the
\* request to it, and a client only if the request declares it or that
\* session greeted it: not a header a stateless request made up, and not the
\* SDK's placeholder for a peer that never spoke (#180, #204).
RecordNamesItsCaller ==
  \A s \in Done : \A record \in slots[s].record :
    LET r == slots[s].request
    IN  /\ \A id \in record.session :
             /\ id \in DOMAIN sessions /\ ~Stateless(r)
             /\ r.sid # {} => r.sid = {id}
        /\ \A c \in record.client :
             \/ c = r.client /\ (Lifecycle(r) = "PerRequest" \/ r.method = "initialize")
             \/ \E id \in record.session : c \in sessions[id].greeted

\* However often it is initialized, a session speaks a revision of the
\* handshake, and caching hints go to requests that declare the revision that
\* has them.
SessionsSpeakTheHandshake ==
  /\ \A id \in DOMAIN sessions : sessions[id].revision \subseteq Handshakes
  /\ \A s \in Done : slots[s].answer = "listed" =>
       (slots[s].hinted <=> Lifecycle(slots[s].request) = "PerRequest")

\* What the transport says of a caller is so.
CallersAreKnown == RecordNamesItsCaller /\ SessionsSpeakTheHandshake
=============================================================================
