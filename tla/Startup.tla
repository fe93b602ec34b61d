------------------------------ MODULE Startup ------------------------------
(***************************************************************************)
(* From main() to the first request: the checks that read nothing but the  *)
(* configuration, then the ones that ask Bugzilla and the collector, then  *)
(* the audit file, then the transport.  Each step refuses to start or      *)
(* hands on to the next; what a refused start has touched by then is what  *)
(* the order is about.                                                     *)
(***************************************************************************)
EXTENDS Naturals, Sequences

CONSTANTS
  Tools,           \* every tool the binary has
  WriteTools,      \* WRITE_TOOLS
  DiscoveryTools,  \* DISCOVERY_TOOLS
  UsableTokens,    \* strings that ride in an Authorization header
  Deployments      \* the configurations looked at

Option(S) == {{}} \cup {{x} : x \in S}

\* What the operator configured.  key: the arguments that hold a Bugzilla
\* key; identity: what the policy's created_by_me rules need, if it has any.
Deployment ==
  [transport : {"stdio", "http"}, write : Option(STRING), read : Option(STRING),
   insecure : BOOLEAN, hosts : {"none", "named", "unparsable"}, otlp : BOOLEAN,
   audit : {"unset", "none", "file", "malformed"}, policy : {"good", "malformed"},
   key : SUBSET {"argument", "file"}, identity : {"none", "whoami", "declared"},
   disabled : SUBSET STRING, read_only : BOOLEAN, discovery : BOOLEAN]

ASSUME StartupAssumption ==
  /\ WriteTools \subseteq Tools /\ DiscoveryTools \subseteq Tools
  /\ Tools \subseteq STRING /\ UsableTokens \subseteq STRING

ASSUME DeploymentsAssumption ==
  \A d \in Deployments :
    /\ d.transport \in {"stdio", "http"} /\ d.insecure \in BOOLEAN
    /\ \A x, y \in d.write : x = y
    /\ \A x, y \in d.read : x = y

VARIABLES
  deployment,  \* what main was started with
  step,        \* the step it is at, "serving" or "refused"
  upstream,    \* the preflight: "untouched", "asked", "verified"
  collector,   \* the delivery probe: "untouched", "asked", "verified"
  file,        \* whether the audit file may have been made or rotated
  bound,       \* whether a port was bound
  routed,      \* the tool router's names
  enforce      \* enforce_scopes

startVars == <<deployment, step, upstream, collector, file, bound, routed, enforce>>

-----------------------------------------------------------------------------
(* The checks                                                              *)

Tokens == deployment.write \cup deployment.read

\* HttpAuth::resolve, for the http transport only: each token usable, the two
\* distinct, and either a token or the explicit opt-out, never both.
AuthRefuses ==
  /\ deployment.transport = "http"
  /\ \/ ~(Tokens \subseteq UsableTokens)
     \/ deployment.write # {} /\ deployment.write = deployment.read
     \/ deployment.insecure <=> (Tokens # {})

HostsRefuse == deployment.transport = "http" /\ deployment.hosts = "unparsable"

\* select_sinks: an endpoint needs a decision about the file, and "none" an
\* endpoint.
SinksRefuse ==
  \/ deployment.audit = "none" /\ ~deployment.otlp
  \/ deployment.audit = "unset" /\ deployment.otlp

Audited == deployment.otlp \/ deployment.audit # "unset"

\* resolve_key_custody: over http a key argument alone changes nothing.
ServerHeld ==
  \/ "file" \in deployment.key
  \/ deployment.transport = "stdio" /\ "argument" \in deployment.key

\* BugWarden::new.
ServerRefuses ==
  \/ deployment.key = {"argument", "file"}
  \/ deployment.transport = "stdio" /\ ~ServerHeld
  \/ deployment.identity = "declared" /\ ~ServerHeld
  \/ ~(deployment.disabled \subseteq Tools)

\* What each step that reads only the configuration refuses.
Refuses(s) ==
  CASE s = "auth"   -> AuthRefuses
    [] s = "hosts"  -> HostsRefuse
    [] s = "sinks"  -> SinksRefuse
    [] s = "audit"  -> deployment.audit = "malformed"
    [] s = "policy" -> deployment.policy = "malformed"
    [] s = "server" -> ServerRefuses

ConfigurationSteps == {"auth", "hosts", "sinks", "audit", "policy", "server"}

\* (mutant) the sink opens as soon as its document is read.
StepsSinkEarly ==
  <<"auth", "hosts", "sinks", "audit", "digest", "open", "policy", "server", "preflight",
    "export", "serve", "serving">>

Steps ==
  <<"auth", "hosts", "sinks", "audit", "policy", "server", "preflight", "export", "digest",
    "open", "serve", "serving">>

GoOn == \E n \in 1 .. Len(Steps) - 1 : Steps[n] = step /\ step' = Steps[n + 1]

-----------------------------------------------------------------------------
(* The steps                                                               *)

StartInit ==
  /\ deployment \in Deployments
  /\ step = "auth" /\ upstream = "untouched" /\ collector = "untouched"
  /\ file = FALSE /\ bound = FALSE /\ routed = {} /\ enforce = FALSE

\* A step that reads only the configuration; BugWarden::new also prunes the
\* router, of a write tool under read_only, of a disabled one and of the
\* catalogs.
Check ==
  /\ step \in ConfigurationSteps
  /\ IF Refuses(step) THEN step' = "refused" /\ UNCHANGED routed
     ELSE /\ GoOn
          /\ routed' = IF step # "server" THEN routed
                       ELSE {t \in Tools \ deployment.disabled :
                               /\ deployment.read_only => t \notin WriteTools
                               /\ t \in DiscoveryTools => deployment.discovery}
  /\ UNCHANGED <<deployment, upstream, collector, file, bound, enforce>>

\* preflight(): one whoami or valid_login, if the policy needs an identity
\* and the server holds a key to ask with.
Preflight ==
  /\ step = "preflight"
  /\ IF deployment.identity = "none" \/ ~ServerHeld THEN GoOn /\ UNCHANGED upstream
     ELSE \/ upstream' = "verified" /\ GoOn
          \/ upstream' = "asked" /\ step' = "refused"
  /\ UNCHANGED <<deployment, collector, file, bound, routed, enforce>>

\* Pipeline::start and probe().
Export ==
  /\ step = "export"
  /\ IF ~deployment.otlp THEN GoOn /\ UNCHANGED collector
     ELSE \/ collector' = "verified" /\ GoOn
          \/ collector' = "asked" /\ step' = "refused"
  /\ UNCHANGED <<deployment, upstream, file, bound, routed, enforce>>

\* The policy is read again for the audit digest.
Digest ==
  /\ step = "digest"
  /\ GoOn \/ (Audited /\ step' = "refused")
  /\ UNCHANGED <<deployment, upstream, collector, file, bound, routed, enforce>>

\* AuditSink::open makes the directory and the file, or fails halfway.
Open ==
  /\ step = "open"
  /\ IF deployment.audit # "file" THEN GoOn /\ UNCHANGED file
     ELSE file' = TRUE /\ (GoOn \/ step' = "refused")
  /\ UNCHANGED <<deployment, upstream, collector, bound, routed, enforce>>

\* with_scope_enforcement, then the transport: the http listener binds.
Serve ==
  /\ step = "serve"
  /\ enforce' = (deployment.transport = "http" /\ ~deployment.insecure)
  /\ \/ GoOn /\ bound' = (deployment.transport = "http")
     \/ deployment.transport = "http" /\ step' = "refused" /\ UNCHANGED bound
  /\ UNCHANGED <<deployment, upstream, collector, file, routed>>

StartNext == Check \/ Preflight \/ Export \/ Digest \/ Open \/ Serve

-----------------------------------------------------------------------------
(* Properties                                                              *)

\* What a configuration needs, all of it, before anything is touched.
Sound ==
  LET http == deployment.transport = "http"
  IN  /\ http => Tokens \subseteq UsableTokens /\ deployment.write \cap deployment.read = {}
      /\ http => deployment.hosts # "unparsable"
      /\ (deployment.audit = "unset") => ~deployment.otlp
      /\ (deployment.audit = "none") => deployment.otlp
      /\ "malformed" \notin {deployment.audit, deployment.policy}
      /\ deployment.disabled \subseteq Tools

\* A start that its own configuration refuses has asked nothing of anybody,
\* made no audit file and bound no port; the file is made only once Bugzilla
\* and the collector have said yes; and a port without a credential in front
\* of it is one the operator asked for in so many words (main's order, and
\* "a failed preflight must not create or rotate an audit file").
NothingIsTouchedInVain ==
  /\ (upstream # "untouched" \/ collector # "untouched" \/ file \/ bound) => Sound
  /\ file \/ bound =>
       /\ deployment.identity # "none" /\ ServerHeld => upstream = "verified"
       /\ deployment.otlp => collector = "verified"
  /\ bound /\ ~enforce => deployment.insecure /\ Tokens = {}
=============================================================================
