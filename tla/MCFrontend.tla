----------------------------- MODULE MCFrontend -----------------------------
(* Frontend on deployments that differ from a sound one in one respect,    *)
(* on streams of up to three frames and on requests over http that differ  *)
(* in their credential, their session and what they declare.               *)
EXTENDS Frontend

MCTools == {"bug_info", "add_comment", "list_products", "bug_url"}
MCWriteTools == {"add_comment"}
MCDiscoveryTools == {"list_products"}
MCUsable == {"w", "r"}

StdioStart ==
  [transport |-> "stdio", write |-> {}, read |-> {}, insecure |-> FALSE, hosts |-> "none",
   otlp |-> TRUE, audit |-> "file", policy |-> "good", key |-> {"file"}, identity |-> "whoami",
   disabled |-> {}, read_only |-> FALSE, discovery |-> FALSE]

HttpStart ==
  [StdioStart EXCEPT !.transport = "http", !.write = {"w"}, !.read = {"r"}, !.hosts = "named",
                     !.audit = "none", !.discovery = TRUE]

\* Deployments that serve ...
Serves == {StdioStart, HttpStart,
   [HttpStart EXCEPT !.write = {}, !.key = {"argument"}, !.disabled = {"bug_url"}],
   [HttpStart EXCEPT !.write = {}, !.read = {}, !.insecure = TRUE, !.read_only = TRUE,
                     !.audit = "unset", !.otlp = FALSE, !.discovery = FALSE]}

\* ... and those that one thing keeps from it.
Unsound(d) ==
  {[d EXCEPT !.otlp = FALSE, !.audit = "none"], [d EXCEPT !.audit = "unset", !.otlp = TRUE],
   [d EXCEPT !.audit = "malformed"], [d EXCEPT !.policy = "malformed"],
   [d EXCEPT !.key = {"argument", "file"}], [d EXCEPT !.disabled = {"no_such_tool"}],
   [d EXCEPT !.identity = "declared", !.key = {}]}

UnsoundHttp(d) ==
  {[d EXCEPT !.write = {}, !.read = {}], [d EXCEPT !.insecure = TRUE],
   [d EXCEPT !.read = {"w"}], [d EXCEPT !.read = {"not a token"}],
   [d EXCEPT !.hosts = "unparsable"]}

MCDeployments ==
  Serves \cup Unsound(StdioStart) \cup Unsound(HttpStart) \cup UnsoundHttp(HttpStart)

\* Frames: one of every kind, and the lengths around the cap.
F(kind, len) == [kind |-> kind, len |-> len]
MCFrames ==
  {F("discover", 1), F("bare", 2), F("meta", 1), F("initialize", 0), F("notice", 1),
   F("ping", 3)}
MCStreams == UNION {[1 .. n -> MCFrames] : n \in 0 .. 3}

Bearer(token) == << <<"Bearer", token>> >>

Call(tool, auth) ==
  [auth |-> auth, method |-> "call", tool |-> tool, sid |-> {}, declared |-> {PerRequestFrom},
   caps |-> TRUE, asked |-> Default, client |-> "a"]
InSession(r) == [r EXCEPT !.sid = {1}, !.declared = {}, !.caps = FALSE, !.client = "b"]
List(auth) == [Call("bug_info", auth) EXCEPT !.method = "list"]
Greet(auth) == [Call("bug_info", auth) EXCEPT !.method = "initialize", !.declared = {},
                                              !.caps = FALSE]

MCRequests ==
  {Call("add_comment", Bearer("w")), Call("add_comment", Bearer("r")),
   Call("bug_info", Bearer("r")), Call("bug_info", <<>>),
   Call("add_comment", << <<"Bearer", "w">>, <<"Bearer", "r">> >>),
   Call("bug_info", << <<"bearer", "w">> >>), Call("bug_info", << <<"Basic", "w">> >>),
   [Call("bug_info", Bearer("w")) EXCEPT !.sid = {1}],
   [Call("bug_info", Bearer("w")) EXCEPT !.declared = {Unserved}],
   [Call("bug_info", Bearer("w")) EXCEPT !.declared = {1}],
   [Call("bug_info", Bearer("w")) EXCEPT !.caps = FALSE],
   [InSession(Call("bug_info", Bearer("r"))) EXCEPT !.declared = {1}],
   InSession(Call("add_comment", Bearer("r"))), InSession(Call("bug_info", <<>>)),
   [InSession(Call("bug_info", Bearer("w"))) EXCEPT !.sid = {}],
   List(Bearer("w")), InSession(List(Bearer("r"))),
   [Greet(Bearer("w")) EXCEPT !.asked = 1],
   [InSession(Greet(Bearer("r"))) EXCEPT !.asked = PerRequestFrom]}
=============================================================================
