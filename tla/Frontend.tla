------------------------------ MODULE Frontend ------------------------------
(***************************************************************************)
(* The process from main() on: it starts or refuses to, and then serves    *)
(* one client over stdio or many over http.                                *)
(***************************************************************************)
EXTENDS Stdio, HttpFront

frontVars == <<startVars, stdioVars, httpVars>>

\* A peer over stdio writes what it writes, whatever the server is doing.
Init ==
  /\ StartInit /\ StdioInit /\ HttpInit
  /\ deployment.transport = "http" => stream = <<>>

Starting == StartNext /\ UNCHANGED <<stdioVars, httpVars>>

\* main's match on the transport.
Serving(transport) == step = "serving" /\ deployment.transport = transport

\* A part of the stdio server's step.
OverStdio(action) == Serving("stdio") /\ Alive /\ action /\ UNCHANGED <<startVars, httpVars>>

OverHttp == Serving("http") /\ HttpNext /\ UNCHANGED stdioVars

Next == Starting \/ OverStdio(StdioNext) \/ OverHttp

\* Over stdio rmcp polls receive() for as long as it serves, a queued write
\* ends, every handler ends (the client's timeout bounds its requests), rmcp
\* gives up on a drain, and main returns.  The peer need not write, and no
\* signal need come; nobody need send anything over http.
Fairness ==
  /\ WF_frontVars(OverStdio(Poll)) /\ WF_frontVars(OverStdio(Write))
  /\ WF_frontVars(OverStdio(Greeted))
  /\ WF_frontVars(OverStdio(Close)) /\ WF_frontVars(OverStdio(Exit))
  /\ WF_frontVars(OverStdio(\E i \in running : ReplyReady(i)))

Spec == Init /\ [][Next]_frontVars /\ Fairness
=============================================================================
