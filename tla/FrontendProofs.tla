--------------------------- MODULE FrontendProofs ---------------------------
(***************************************************************************)
(* What a start has touched, how the stdio server exits and what surface   *)
(* an http request sees, proved for every set of deployments, requests,    *)
(* streams and tools.                                                      *)
(***************************************************************************)
EXTENDS Frontend, TLAPS, WellFoundedInduction

USE DeploymentsAssumption

-----------------------------------------------------------------------------
(* The start                                                               *)

Names == {"auth", "hosts", "sinks", "audit", "policy", "server", "preflight", "export",
          "digest", "open", "serve", "serving", "refused"}

\* Every step refuses or goes on to the one behind it.
LEMMA NextStep ==
  ASSUME GoOn
  PROVE  \/ step = "auth" /\ step' = "hosts"
         \/ step = "hosts" /\ step' = "sinks"
         \/ step = "sinks" /\ step' = "audit"
         \/ step = "audit" /\ step' = "policy"
         \/ step = "policy" /\ step' = "server"
         \/ step = "server" /\ step' = "preflight"
         \/ step = "preflight" /\ step' = "export"
         \/ step = "export" /\ step' = "digest"
         \/ step = "digest" /\ step' = "open"
         \/ step = "open" /\ step' = "serve"
         \/ step = "serve" /\ step' = "serving"
BY DEF GoOn, Steps

\* The surface the router is left with.
Surface ==
  {t \in Tools \ deployment.disabled :
     /\ deployment.read_only => t \notin WriteTools
     /\ t \in DiscoveryTools => deployment.discovery}

\* All that the configuration alone can be refused for has been looked at.
Configured ==
  /\ ~AuthRefuses /\ ~HostsRefuse /\ ~SinksRefuse /\ ~ServerRefuses
  /\ deployment.audit # "malformed" /\ deployment.policy # "malformed"

Preflighted == deployment.identity # "none" /\ ServerHeld => upstream = "verified"
Exported == deployment.otlp => collector = "verified"

\* What each step knows of the ones before it, and what a start has touched.
StartInv ==
  /\ deployment \in Deployments /\ step \in Names
  /\ step \notin {"auth", "refused"} => ~AuthRefuses
  /\ step \notin {"auth", "hosts", "refused"} => ~HostsRefuse
  /\ step \notin {"auth", "hosts", "sinks", "refused"} => ~SinksRefuse
  /\ step \notin {"auth", "hosts", "sinks", "audit", "refused"} => deployment.audit # "malformed"
  /\ step \in {"server", "preflight", "export", "digest", "open", "serve", "serving"} =>
       deployment.policy # "malformed"
  /\ step \in {"preflight", "export", "digest", "open", "serve", "serving"} =>
       Configured /\ routed = Surface
  /\ step \in {"export", "digest", "open", "serve", "serving"} => Preflighted
  /\ step \in {"digest", "open", "serve", "serving"} => Exported
  /\ upstream # "untouched" \/ collector # "untouched" => Configured
  /\ file \/ bound => Configured /\ Preflighted /\ Exported
  /\ step = "serving" => (enforce <=> (deployment.transport = "http" /\ ~deployment.insecure))
  /\ bound => deployment.transport = "http" /\ step = "serving"
  /\ step \notin {"serve", "serving", "refused"} => file = FALSE
  /\ file \in BOOLEAN /\ bound \in BOOLEAN

LEMMA StartHolds == Init => StartInv
BY DEF Init, StartInit, StartInv, Names

\* What the configuration says does not change.
LEMMA SameConfiguration ==
  ASSUME deployment' = deployment
  PROVE  /\ AuthRefuses' <=> AuthRefuses
         /\ HostsRefuse' <=> HostsRefuse
         /\ SinksRefuse' <=> SinksRefuse
         /\ ServerRefuses' <=> ServerRefuses
         /\ ServerHeld' <=> ServerHeld
         /\ Surface' = Surface
         /\ Configured' <=> Configured
<1>1. /\ AuthRefuses' <=> AuthRefuses
      /\ HostsRefuse' <=> HostsRefuse
      /\ SinksRefuse' <=> SinksRefuse
  BY DEF AuthRefuses, HostsRefuse, SinksRefuse, Tokens
<1>2. ServerHeld' <=> ServerHeld BY DEF ServerHeld
<1>3. ServerRefuses' <=> ServerRefuses BY <1>2 DEF ServerRefuses
<1>4. Surface' = Surface BY DEF Surface
<1> QED BY <1>1, <1>2, <1>3, <1>4 DEF Configured

LEMMA StartKept == ASSUME StartInv, StartNext PROVE StartInv'
<1>1. CASE Check
  <2> USE <1>1
  <2>1. deployment' = deployment BY DEF Check
  <2>2. CASE step' = "refused"
    <3>1. UNCHANGED <<upstream, collector, file, bound, enforce>> BY DEF Check
    <3>2. step # "serving" BY DEF Check, ConfigurationSteps
    <3> QED BY <2>1, <2>2, <3>1, <3>2, SameConfiguration
            DEF StartInv, Names, Preflighted, Exported
  <2>3. CASE GoOn /\ ~Refuses(step)
    <3>1. CASE step = "auth" /\ step' = "hosts"
      BY <2>1, <2>3, <3>1, SameConfiguration
         DEF StartInv, Check, Names, Refuses, Preflighted, Exported
    <3>2. CASE step = "hosts" /\ step' = "sinks"
      BY <2>1, <2>3, <3>2, SameConfiguration
         DEF StartInv, Check, Names, Refuses, Preflighted, Exported
    <3>3. CASE step = "sinks" /\ step' = "audit"
      BY <2>1, <2>3, <3>3, SameConfiguration
         DEF StartInv, Check, Names, Refuses, Preflighted, Exported
    <3>4. CASE step = "audit" /\ step' = "policy"
      BY <2>1, <2>3, <3>4, SameConfiguration
         DEF StartInv, Check, Names, Refuses, Preflighted, Exported
    <3>5. CASE step = "policy" /\ step' = "server"
      BY <2>1, <2>3, <3>5, SameConfiguration
         DEF StartInv, Check, Names, Refuses, Preflighted, Exported
    <3>6. CASE step = "server" /\ step' = "preflight"
      <4>1. routed' = Surface BY <2>3, <3>6 DEF Check, Surface
      <4>2. Configured BY <2>3, <3>6 DEF StartInv, Configured, Refuses
      <4>3. UNCHANGED <<upstream, collector, file, bound, enforce>> BY DEF Check
      <4> QED BY <2>1, <3>6, <4>1, <4>2, <4>3, SameConfiguration
              DEF StartInv, Names, Preflighted, Exported, Configured
    <3> QED BY <2>3, <3>1, <3>2, <3>3, <3>4, <3>5, <3>6, NextStep DEF Check, ConfigurationSteps
  <2> QED BY <2>2, <2>3 DEF Check
<1>2. CASE Preflight
  <2>1. deployment' = deployment /\ UNCHANGED <<collector, file, bound, routed, enforce>>
    BY <1>2 DEF Preflight
  <2>2. step = "preflight" /\ Configured /\ routed = Surface BY <1>2 DEF Preflight, StartInv
  <2>3. \/ step' = "refused"
        \/ step' = "export" /\ Preflighted'
    BY <1>2, <2>1, <2>2, NextStep, SameConfiguration DEF Preflight, Preflighted
  <2>4. file = FALSE /\ bound = FALSE BY <2>2 DEF StartInv
  <2> QED BY <2>1, <2>2, <2>3, <2>4, SameConfiguration
          DEF StartInv, Names, Exported, Configured
<1>3. CASE Export
  <2>1. deployment' = deployment /\ UNCHANGED <<upstream, file, bound, routed, enforce>>
    BY <1>3 DEF Export
  <2>2. step = "export" /\ Configured /\ routed = Surface /\ Preflighted
    BY <1>3 DEF Export, StartInv
  <2>3. \/ step' = "refused"
        \/ step' = "digest" /\ Exported'
    BY <1>3, <2>1, <2>2, NextStep DEF Export, Exported
  <2>4. file = FALSE /\ bound = FALSE BY <2>2 DEF StartInv
  <2>5. Preflighted' BY <2>1, <2>2, SameConfiguration DEF Preflighted
  <2> QED BY <2>1, <2>2, <2>3, <2>4, <2>5, SameConfiguration DEF StartInv, Names, Configured
<1>4. CASE Digest
  BY <1>4, NextStep, SameConfiguration
     DEF StartInv, Digest, Names, Preflighted, Exported, Configured
<1>5. CASE Open
  BY <1>5, NextStep, SameConfiguration
     DEF StartInv, Open, Names, Preflighted, Exported, Configured
<1>6. CASE Serve
  <2>1. deployment' = deployment /\ UNCHANGED <<upstream, collector, file, routed>>
    BY <1>6 DEF Serve
  <2>2. step = "serve" /\ Configured /\ routed = Surface /\ Preflighted /\ Exported
    BY <1>6 DEF Serve, StartInv
  <2>3. Preflighted' /\ Exported' /\ Configured' /\ routed' = Surface'
    BY <2>1, <2>2, SameConfiguration DEF Preflighted, Exported
  <2>4. enforce' <=> (deployment.transport = "http" /\ ~deployment.insecure)
    BY <1>6 DEF Serve
  <2>5. CASE step' = "serving" /\ bound' = (deployment.transport = "http")
    BY <2>1, <2>2, <2>3, <2>4, <2>5 DEF StartInv, Names, Configured
  <2>6. CASE step' = "refused" /\ bound' = bound
    BY <2>1, <2>2, <2>3, <2>4, <2>6 DEF StartInv, Names, Configured
  <2> QED BY <1>6, <2>2, <2>5, <2>6, NextStep DEF Serve
<1> QED BY <1>1, <1>2, <1>3, <1>4, <1>5, <1>6 DEF StartNext

\* A step of a server leaves the start as it is.
LEMMA ServingKeepsStart == ASSUME StartInv, UNCHANGED startVars PROVE StartInv'
<1> USE DEF startVars
<1> QED BY SameConfiguration DEF StartInv, Preflighted, Exported

LEMMA HttpFrame == HttpNext => UNCHANGED startVars
BY DEF HttpNext, Arrive, Deliver, CloseSession, Initialize, CallTool, ListTools

LEMMA StartStep == StartInv /\ [Next]_frontVars => StartInv'
<1> SUFFICES ASSUME StartInv, [Next]_frontVars PROVE StartInv' OBVIOUS
<1>1. CASE Starting BY <1>1, StartKept DEF Starting
<1>2. CASE OverStdio(StdioNext) BY <1>2, ServingKeepsStart DEF OverStdio
<1>3. CASE OverHttp BY <1>3, HttpFrame, ServingKeepsStart DEF OverHttp
<1>4. CASE UNCHANGED frontVars BY <1>4, ServingKeepsStart DEF frontVars
<1> QED BY <1>1, <1>2, <1>3, <1>4 DEF Next

LEMMA StartIsSound == StartInv => NothingIsTouchedInVain
<1> SUFFICES ASSUME StartInv PROVE NothingIsTouchedInVain OBVIOUS
<1>1. ASSUME Configured PROVE Sound
  <2>1. deployment.transport = "http" => Tokens \subseteq UsableTokens
    BY <1>1 DEF Configured, AuthRefuses
  <2>2. deployment.transport = "http" => deployment.write \cap deployment.read = {}
    <3>1. deployment \in Deployments BY DEF StartInv
    <3>2. SUFFICES ASSUME deployment.transport = "http",
                          NEW x \in deployment.write, x \in deployment.read
                   PROVE  FALSE
      OBVIOUS
    <3>3. deployment.write = {x} /\ deployment.read = {x} BY <3>1, <3>2
    <3> QED BY <1>1, <3>2, <3>3 DEF Configured, AuthRefuses
  <2>3. deployment.disabled \subseteq Tools
    BY <1>1 DEF Configured, ServerRefuses
  <2> QED BY <1>1, <2>1, <2>2, <2>3 DEF Configured, Sound, HostsRefuse, SinksRefuse
<1>2. bound /\ ~enforce => deployment.insecure /\ Tokens = {}
  BY DEF StartInv, Configured, AuthRefuses
<1>3. (upstream # "untouched" \/ collector # "untouched" \/ file \/ bound) => Configured
  BY DEF StartInv
<1>4. file \/ bound => Preflighted /\ Exported BY DEF StartInv
<1> QED BY <1>1, <1>2, <1>3, <1>4 DEF NothingIsTouchedInVain, Preflighted, Exported

\* A refused start has asked nobody, made no file and bound no port in vain,
\* and a port without a credential is one the operator asked for, whatever
\* the deployment.
THEOREM StartCorrect == Spec => []NothingIsTouchedInVain
<1>1. Init => StartInv BY StartHolds
<1>2. StartInv /\ [Next]_frontVars => StartInv' BY StartStep
<1> QED BY <1>1, <1>2, StartIsSound, PTL DEF Spec

-----------------------------------------------------------------------------
(* Over stdio                                                              *)

Stages == {"handshake", "greeting", "serving", "draining", "closed", "failed", "refused", "broken"}

\* No session was opened, or is not yet, over the frame last taken.
Unopened == {"greeting", "refused", "broken"}

\* The answer to a probe stands among the answers.
Asked == \E n \in DOMAIN out : stream[out[n]].kind = "discover"

\* Which of the first t frames of s wait for an answer (r with a handler, p in
\* the queue) and which have had one (o); l: whether a reply was lost.
Accounts(s, t, o, r, p, l) ==
  /\ s \in Seq(Frame) /\ t \in Nat /\ o \in Seq(Nat)
  /\ \A n \in DOMAIN o : o[n] \in 1 .. t
  /\ r \subseteq 1 .. t /\ p \subseteq {t} \cap 1 .. t
  /\ \A n \in DOMAIN o : o[n] \notin r \cup p
  /\ \A m, n \in DOMAIN o : m # n => o[m] # o[n]
  /\ \A i \in r : s[i].kind # "discover"
  /\ \A i \in p : s[i].kind = "discover"
  /\ \A m, n \in DOMAIN o : m < n /\ s[o[n]].kind = "discover" => o[m] < o[n]
  /\ \A i \in 1 .. t : s[i].kind = "discover" => (\E n \in DOMAIN o : o[n] = i) \/ i \in p \/ l

FramesInv == Accounts(stream, taken, out, running, pending, lost)

Unbinding == {"discover", "ping", "bare"}

\* What has chosen the lifecycle.
LifecycleInv ==
  /\ stage = "handshake" => \A i \in 1 .. taken : stream[i].kind \in Unbinding
  /\ direct => \E i \in 1 .. taken : /\ stream[i].kind = "meta"
                                     /\ \A j \in 1 .. i - 1 : stream[j].kind \in Unbinding

\* The frame that opened no session: the first that could have committed one.
OpeningInv ==
  stage \in Unopened =>
    /\ taken \in DOMAIN stream
    /\ \A j \in 1 .. taken - 1 : stream[j].kind \in Unbinding
    /\ stage = "greeting" => /\ stream[taken].kind = "initialize"
                             /\ taken \notin running /\ pending = {} /\ ~Answered(taken)
    /\ stage = "refused" => stream[taken].kind \in {"notice", "initialize"}
    /\ stage = "broken" => /\ stream[taken].kind \in {"ping", "bare", "initialize"}
                           /\ ~Answered(taken)

\* What the flags say once the process has exited.
ExitInv ==
  /\ stage \in Stages
  /\ await \in {"pending", "inner"} => stage \in {"handshake", "serving"}
  /\ await = "inner" => pending = {}
  /\ probed => Asked
  /\ Asked /\ stage # "closed" => probed
  /\ exit = "ok" /\ ~signalled =>
       ~overCap /\ (stage = "closed" \/ (stage = "failed" /\ probed /\ ~ioFailed))
  /\ exit = "failure" =>
       overCap \/ ioFailed \/ stage \in {"refused", "broken"} \/ (stage = "failed" /\ ~probed)

StdioInv == FramesInv /\ LifecycleInv /\ OpeningInv /\ ExitInv

LEMMA StdioHolds == Init => StdioInv
<1> SUFFICES ASSUME Init PROVE StdioInv OBVIOUS
<1>1. stream \in Seq(Frame) BY StdioAssumption DEF Init, StdioInit
<1> QED BY <1>1
        DEF Init, StdioInit, StdioInv, FramesInv, Accounts, LifecycleInv, OpeningInv, Unopened,
            ExitInv, Asked, Stages

\* Fewer frames wait than before, because nobody is left to answer them.
LEMMA FramesGivenUp ==
  ASSUME NEW s, NEW t, NEW o, NEW r, NEW p, NEW l, Accounts(s, t, o, r, p, l),
         NEW r2 \in SUBSET r
  PROVE  Accounts(s, t, o, r2, p, l) /\ Accounts(s, t, o, r2, {}, TRUE)
BY DEF Accounts

\* One more answer, to a frame that waited for it.
LEMMA FrameAnswered ==
  ASSUME NEW s, NEW t, NEW o, NEW r, NEW p, NEW l, Accounts(s, t, o, r, p, l),
         NEW i \in r \cup p, NEW p2 \in SUBSET p, i \notin p2, \A j \in p : j = i \/ j \in p2
  PROVE  Accounts(s, t, Append(o, i), r \ {i}, p2, l)
<1> DEFINE o2 == Append(o, i)
<1>0. /\ s \in Seq(Frame) /\ t \in Nat /\ o \in Seq(Nat) /\ Len(o) \in Nat
      /\ DOMAIN o = 1 .. Len(o)
  BY DEF Accounts
<1>1. i \in 1 .. t /\ i \in Nat BY <1>0 DEF Accounts
<1>2. /\ o2 \in Seq(Nat) /\ DOMAIN o2 = 1 .. Len(o) + 1
      /\ o2[Len(o) + 1] = i /\ \A n \in DOMAIN o : o2[n] = o[n]
  BY <1>0, <1>1
<1> HIDE DEF o2
<1>3. \A n \in DOMAIN o2 : n \in DOMAIN o \/ n = Len(o) + 1 BY <1>0, <1>2
<1>4. \A n \in DOMAIN o2 : o2[n] \in 1 .. t BY <1>1, <1>2, <1>3 DEF Accounts
<1>5. \A n \in DOMAIN o : o[n] # i BY DEF Accounts
<1>6. \A n \in DOMAIN o2 : o2[n] \notin (r \ {i}) \cup p2
  BY <1>2, <1>3 DEF Accounts
<1>7. \A m, n \in DOMAIN o2 : m # n => o2[m] # o2[n]
  BY <1>2, <1>3, <1>5, SMTT(30) DEF Accounts
<1>8. \A m, n \in DOMAIN o2 : m < n /\ s[o2[n]].kind = "discover" => o2[m] < o2[n]
  <2> SUFFICES ASSUME NEW m \in DOMAIN o2, NEW n \in DOMAIN o2, m < n,
                      s[o2[n]].kind = "discover"
               PROVE  o2[m] < o2[n]
    OBVIOUS
  <2>1. m \in DOMAIN o BY <1>0, <1>2, <1>3
  <2>2. CASE n \in DOMAIN o BY <1>2, <2>1, <2>2 DEF Accounts
  <2>3. CASE n = Len(o) + 1
    <3>1. i \in p BY <1>2, <2>3 DEF Accounts
    <3>2. i = t BY <3>1 DEF Accounts
    <3>3. o[m] \in 1 .. t /\ o[m] # i BY <1>5, <2>1 DEF Accounts
    <3> QED BY <1>0, <1>2, <2>1, <2>3, <3>2, <3>3
  <2> QED BY <1>3, <2>2, <2>3
<1>9. \A j \in 1 .. t : s[j].kind = "discover" =>
        (\E n \in DOMAIN o2 : o2[n] = j) \/ j \in p2 \/ l
  <2> SUFFICES ASSUME NEW j \in 1 .. t, s[j].kind = "discover"
               PROVE  (\E n \in DOMAIN o2 : o2[n] = j) \/ j \in p2 \/ l
    OBVIOUS
  <2>1. (\E n \in DOMAIN o : o[n] = j) \/ j \in p \/ l BY DEF Accounts
  <2>2. DOMAIN o \subseteq DOMAIN o2 /\ Len(o) + 1 \in DOMAIN o2 BY <1>0, <1>2
  <2> QED BY <1>2, <2>1, <2>2
<1>10. /\ r \ {i} \subseteq 1 .. t /\ p2 \subseteq {t} \cap 1 .. t
       /\ \A j \in r \ {i} : s[j].kind # "discover"
       /\ \A j \in p2 : s[j].kind = "discover"
  BY DEF Accounts
<1> QED BY <1>0, <1>2, <1>4, <1>6, <1>7, <1>8, <1>9, <1>10 DEF Accounts, o2

\* One more frame is taken: a probe waits in the queue, another with a handler
\* or not at all.
LEMMA FrameTaken ==
  ASSUME NEW s, NEW t, NEW o, NEW r, NEW l, Accounts(s, t, o, r, {}, l), t < Len(s),
         NEW r2, NEW p2,
         \/ s[t + 1].kind = "discover" /\ p2 = {t + 1} /\ r2 = r
         \/ s[t + 1].kind # "discover" /\ p2 = {} /\ r2 \in {r, r \cup {t + 1}}
  PROVE  Accounts(s, t + 1, o, r2, p2, l)
<1>1. /\ t \in Nat /\ t + 1 \in Nat
      /\ \A j \in 1 .. t + 1 : j \in 1 .. t \/ j = t + 1
      /\ \A j \in 1 .. t : j \in 1 .. t + 1 /\ j # t + 1
      /\ t + 1 \in 1 .. t + 1
  BY DEF Accounts
<1>2. \A n \in DOMAIN o : o[n] \in 1 .. t + 1 /\ o[n] # t + 1 BY <1>1 DEF Accounts
<1>3. r2 \subseteq 1 .. t + 1 /\ p2 \subseteq {t + 1} \cap 1 .. t + 1 BY <1>1 DEF Accounts
<1>4. \A n \in DOMAIN o : o[n] \notin r2 \cup p2 BY <1>2 DEF Accounts
<1>5. (\A i \in r2 : s[i].kind # "discover") /\ (\A i \in p2 : s[i].kind = "discover")
  BY DEF Accounts
<1>6. \A i \in 1 .. t + 1 : s[i].kind = "discover" =>
        (\E n \in DOMAIN o : o[n] = i) \/ i \in p2 \/ l
  BY <1>1 DEF Accounts
<1> QED BY <1>1, <1>2, <1>3, <1>4, <1>5, <1>6 DEF Accounts

\* The frame just taken waits for no handler and may be answered at once.
LEMMA FrameAnsweredAtOnce ==
  ASSUME NEW s, NEW t, NEW o, NEW r, NEW l, Accounts(s, t, o, r, {}, l), t < Len(s),
         s[t + 1].kind # "discover"
  PROVE  Accounts(s, t + 1, Append(o, t + 1), r, {}, l)
<1>1. Accounts(s, t + 1, o, r \cup {t + 1}, {}, l) BY FrameTaken
<1>2. Accounts(s, t + 1, Append(o, t + 1), (r \cup {t + 1}) \ {t + 1}, {}, l)
  BY <1>1, FrameAnswered
<1>3. t + 1 \notin r BY DEF Accounts
<1>4. (r \cup {t + 1}) \ {t + 1} = r BY <1>3
<1> QED BY <1>2, <1>4

\* What the lifecycle was chosen on stays what it was.
LEMMA LifecycleKept ==
  ASSUME LifecycleInv, UNCHANGED <<stream, taken, direct>>, stage' = "handshake" => stage = "handshake"
  PROVE  LifecycleInv'
BY DEF LifecycleInv

\* A session under way, or given up for another reason, is none of those.
LEMMA OpeningKept ==
  ASSUME \/ stage' \notin Unopened
         \/ OpeningInv /\ UNCHANGED <<stream, taken, stage, running, pending, out>>
  PROVE  OpeningInv'
BY DEF OpeningInv, Unopened, Answered

\* The reader's steps.
LEMMA ClientKeeps ==
  ASSUME StdioInv, Alive, Client PROVE StdioInv'
<1> USE DEF StdioInv
<1>1. /\ UNCHANGED <<stream, taken, out, running, pending, lost, direct, probed, signalled, exit>>
      /\ await \in {"inner"}
      /\ \/ await' = "none" /\ Closes
         \/ UNCHANGED <<await, stage>>
  BY DEF Client, HangsUp, ReadFails, ReadChunk, Reading, mainVars, readerVars
<1>2. FramesInv' BY <1>1 DEF FramesInv
<1>3. LifecycleInv' BY <1>1, LifecycleKept DEF Closes
<1>4. Asked' <=> Asked BY <1>1 DEF Asked
<1>5. ExitInv' BY <1>1, <1>4 DEF ExitInv, Closes, Stages, Alive
<1>6. OpeningInv' BY <1>1, OpeningKept DEF ExitInv, Closes, Unopened
<1> QED BY <1>2, <1>3, <1>5, <1>6

LEMMA ReceiveKeeps == ASSUME StdioInv, Alive, Receive PROVE StdioInv'
<1> USE DEF StdioInv
<1>1. /\ UNCHANGED <<stream, taken, out, running, pending, lost, direct, stage, probed, signalled,
                     exit, overCap, ioFailed>>
      /\ stage \in {"handshake", "serving"} /\ (await' = "inner" => pending = {})
  BY DEF Receive, mainVars, readerVars, serveVars
<1>2. FramesInv' BY <1>1 DEF FramesInv
<1>3. LifecycleInv' BY <1>1, LifecycleKept
<1>4. Asked' <=> Asked BY <1>1 DEF Asked
<1>5. ExitInv' BY <1>1, <1>4 DEF ExitInv, Alive
<1>6. OpeningInv' BY <1>1, OpeningKept DEF Unopened
<1> QED BY <1>2, <1>3, <1>5, <1>6

\* Answering frame i adds i to the answers.
LEMMA AskedAppend ==
  ASSUME FramesInv, NEW i \in Nat, out' = Append(out, i), stream' = stream
  PROVE  Asked' <=> Asked \/ stream[i].kind = "discover"
<1>1. out \in Seq(Nat) BY DEF FramesInv, Accounts
<1>2. /\ DOMAIN out' = 1 .. Len(out) + 1 /\ DOMAIN out = 1 .. Len(out) /\ Len(out) \in Nat
      /\ out'[Len(out) + 1] = i /\ \A n \in DOMAIN out : out'[n] = out[n]
  BY <1>1
<1>3. \A n \in DOMAIN out' : n \in DOMAIN out \/ n = Len(out) + 1 BY <1>2
<1>4. DOMAIN out \subseteq DOMAIN out' /\ Len(out) + 1 \in DOMAIN out' BY <1>2
<1>5. ASSUME Asked PROVE Asked' BY <1>2, <1>4, <1>5 DEF Asked
<1>6. ASSUME stream[i].kind = "discover" PROVE Asked' BY <1>2, <1>4, <1>6 DEF Asked
<1>7. ASSUME Asked' PROVE Asked \/ stream[i].kind = "discover" BY <1>2, <1>3, <1>7 DEF Asked
<1> QED BY <1>5, <1>6, <1>7

LEMMA WriteKeeps == ASSUME StdioInv, Alive, Write PROVE StdioInv'
<1> USE DEF StdioInv
<1>1. CASE ReplySent
  <2>1. PICK i \in pending : out' = Append(out, i) BY <1>1 DEF ReplySent
  <2>2. /\ UNCHANGED <<stream, taken, running, lost, direct, stage, signalled, exit, overCap, ioFailed>>
        /\ pending' = {} /\ probed' = TRUE /\ await' = "inner" /\ await = "pending"
    BY <1>1 DEF ReplySent, mainVars, readerVars, serveVars
  <2>3. i = taken /\ i \in Nat /\ pending = {i} /\ i \notin running /\ stream[i].kind = "discover"
    BY DEF FramesInv, Accounts
  <2>4. Accounts(stream, taken, Append(out, i), running \ {i}, {}, lost)
    BY <2>3, FrameAnswered DEF FramesInv
  <2>5. running \ {i} = running BY <2>3
  <2>6. FramesInv' BY <2>1, <2>2, <2>4, <2>5 DEF FramesInv
  <2>7. LifecycleInv' BY <2>2, LifecycleKept
  <2>8. Asked' BY <2>1, <2>2, <2>3, AskedAppend
  <2>9. ExitInv' BY <2>2, <2>8 DEF ExitInv, Alive
  <2>10. OpeningInv' BY <2>2, OpeningKept DEF ExitInv, Unopened
  <2> QED BY <2>6, <2>7, <2>9, <2>10
<1>2. CASE ReplyFails
  <2>1. /\ UNCHANGED <<stream, taken, out, running, probed, direct, signalled, exit, overCap, ioFailed>>
        /\ pending' = {} /\ lost' = TRUE /\ await' = "none" /\ Closes /\ await = "pending"
    BY <1>2 DEF ReplyFails, mainVars, readerVars
  <2>2. FramesInv' BY <2>1, FramesGivenUp DEF FramesInv
  <2>3. LifecycleInv' BY <2>1, LifecycleKept DEF Closes
  <2>4. Asked' <=> Asked BY <2>1 DEF Asked
  <2>5. ExitInv' BY <2>1, <2>4 DEF ExitInv, Closes, Stages, Alive
  <2>6. OpeningInv' BY <2>1, OpeningKept DEF Closes, Unopened
  <2> QED BY <2>2, <2>3, <2>5, <2>6
<1> QED BY <1>1, <1>2 DEF Write

\* A frame that commits a session without a handshake comes after frames that
\* commit none.
LEMMA HandChooses ==
  ASSUME StdioInv, taken < Len(stream), taken' = taken + 1, stream' = stream,
         stage \in {"handshake", "serving"}, Hand(taken + 1)
  PROVE  LifecycleInv'
<1> DEFINE i == taken + 1
<1>1. /\ taken \in Nat /\ \A j \in 1 .. i : j \in 1 .. taken \/ j = i
      /\ \A j \in 1 .. taken : j \in 1 .. i
      /\ i \in 1 .. i /\ i - 1 = taken
      /\ stream \in Seq(Frame) /\ i \in 1 .. Len(stream)
  BY DEF StdioInv, FramesInv, Accounts
<1>2. stream[i] \in Frame BY <1>1
<1>3. stage' = "handshake" => stage = "handshake" /\ stream[i].kind \in {"ping", "bare"}
  BY DEF Hand
<1>4. stage' = "handshake" => \A j \in 1 .. i : stream[j].kind \in Unbinding
  BY <1>1, <1>3 DEF StdioInv, LifecycleInv, Unbinding
<1>5. direct' => direct \/ (stage = "handshake" /\ stream[i].kind = "meta")
  <2>1. CASE stage' = "broken" /\ UNCHANGED direct BY <2>1
  <2>2. CASE direct' = (direct \/ (stage = "handshake" /\ stream[i].kind = "meta")) BY <2>2
  <2> QED BY <2>1, <2>2 DEF Hand
<1>6. direct => \E k \in 1 .. i : /\ stream[k].kind = "meta"
                                  /\ \A j \in 1 .. k - 1 : stream[j].kind \in Unbinding
  BY <1>1 DEF StdioInv, LifecycleInv
<1>7. stage = "handshake" /\ stream[i].kind = "meta" =>
        \E k \in 1 .. i : /\ stream[k].kind = "meta"
                          /\ \A j \in 1 .. k - 1 : stream[j].kind \in Unbinding
  BY <1>1 DEF StdioInv, LifecycleInv
<1> QED BY <1>4, <1>5, <1>6, <1>7 DEF LifecycleInv

\* A frame that opens no session comes after frames that commit none.
LEMMA HandOpens ==
  ASSUME StdioInv, taken < Len(stream), taken' = taken + 1, UNCHANGED stream,
         pending' = {}, stage \in {"handshake", "serving"}, Hand(taken + 1)
  PROVE  OpeningInv'
<1> DEFINE i == taken + 1
<1> SUFFICES ASSUME stage' \in Unopened PROVE OpeningInv' BY OpeningKept
<1>1. /\ taken \in Nat /\ stream \in Seq(Frame) /\ i \in DOMAIN stream /\ i - 1 = taken
      /\ i \notin running /\ \A n \in DOMAIN out : out[n] # i
  BY DEF StdioInv, FramesInv, Accounts
<1>2. stage = "handshake" /\ \A j \in 1 .. taken : stream[j].kind \in Unbinding
  BY DEF Hand, Unopened, StdioInv, LifecycleInv
<1>3. ~\E n \in DOMAIN out : out[n] = i BY <1>1
<1>4. stage' = "greeting" => stream[i].kind = "initialize" /\ UNCHANGED <<out, running>>
  BY <1>2 DEF Hand
<1>5. stage' = "broken" => stream[i].kind \in {"ping", "bare", "initialize"} /\ UNCHANGED out
  BY <1>2 DEF Hand
<1>6. stage' = "refused" => stream[i].kind \in {"notice", "initialize"} BY <1>2 DEF Hand
<1> QED BY <1>1, <1>2, <1>3, <1>4, <1>5, <1>6 DEF OpeningInv, Answered

\* receive() returns the next frame, or keeps the probe it is.
LEMMA TakeKeeps == ASSUME StdioInv, Alive, Take PROVE StdioInv'
<1> USE DEF StdioInv
<1>1. /\ taken < Len(stream) /\ taken' = taken + 1 /\ taken \in Nat /\ taken + 1 \in Nat
      /\ UNCHANGED <<stream, probed, lost, signalled, exit, overCap, ioFailed>>
      /\ await = "inner" /\ stage \in {"handshake", "serving"} /\ pending = {}
  BY DEF Take, FramesInv, Accounts, mainVars, readerVars, ExitInv
<1>2. CASE IsProbe(taken + 1)
  <2>1. /\ pending' = {taken + 1} /\ await' = "pending" /\ UNCHANGED <<stage, direct, running, out>>
        /\ stream[taken + 1].kind = "discover"
    BY <1>2 DEF Take, IsProbe, serveVars
  <2>2. FramesInv' BY <1>1, <2>1, FrameTaken DEF FramesInv
  <2>3. \A j \in 1 .. taken + 1 : j \in 1 .. taken \/ j = taken + 1 BY <1>1
  <2>4. \A j \in 1 .. taken : j \in 1 .. taken + 1 BY <1>1
  <2>5. LifecycleInv' BY <1>1, <2>1, <2>3, <2>4 DEF LifecycleInv, Unbinding
  <2>6. Asked' <=> Asked BY <1>1, <2>1 DEF Asked
  <2>7. ExitInv' BY <1>1, <2>1, <2>6 DEF ExitInv, Alive
  <2>8. OpeningInv' BY <1>1, <2>1, OpeningKept DEF Unopened
  <2> QED BY <2>2, <2>5, <2>7, <2>8
<1>3. CASE ~IsProbe(taken + 1)
  <2>1. /\ await' = "none" /\ Hand(taken + 1) /\ pending' = {} /\ stream[taken + 1].kind # "discover"
    BY <1>1, <1>3 DEF Take, IsProbe
  <2>2. LifecycleInv' /\ OpeningInv' BY <1>1, <2>1, HandChooses, HandOpens
  <2>3. \/ out' = Append(out, taken + 1) /\ running' = running
        \/ out' = out /\ running' \in {running, running \cup {taken + 1}}
    BY <2>1 DEF Hand
  <2>4. CASE out' = Append(out, taken + 1) /\ running' = running
    <3>1. FramesInv' BY <1>1, <2>1, <2>4, FrameAnsweredAtOnce DEF FramesInv
    <3>2. Asked' <=> Asked BY <1>1, <2>1, <2>4, AskedAppend
    <3> QED BY <1>1, <2>1, <2>2, <3>1, <3>2 DEF ExitInv, Alive, Hand, Stages
  <2>5. CASE out' = out /\ running' \in {running, running \cup {taken + 1}}
    <3>1. FramesInv' BY <1>1, <2>1, <2>5, FrameTaken DEF FramesInv
    <3>2. Asked' <=> Asked BY <1>1, <2>5 DEF Asked
    <3> QED BY <1>1, <2>1, <2>2, <3>1, <3>2 DEF ExitInv, Alive, Hand, Stages
  <2> QED BY <2>3, <2>4, <2>5
<1> QED BY <1>2, <1>3

\* initialize is answered, or not.
LEMMA GreetedKeeps == ASSUME StdioInv, Alive, Greeted PROVE StdioInv'
<1> USE DEF StdioInv
<1>1. /\ stage = "greeting" /\ stage' \in {"serving", "refused", "broken"}
      /\ UNCHANGED <<stream, taken, pending, await, probed, direct, running, lost, signalled, exit,
                     overCap, ioFailed>>
      /\ out' = out \/ (out' = Append(out, taken) /\ stage' # "broken")
  BY DEF Greeted, readerVars, mainVars
<1>2. /\ taken \in DOMAIN stream /\ taken \in 1 .. taken /\ taken \in Nat
      /\ stream[taken].kind = "initialize"
      /\ taken \notin running /\ pending = {} /\ \A n \in DOMAIN out : out[n] # taken
  BY <1>1 DEF OpeningInv, Unopened, Answered, FramesInv, Accounts
<1>3. FramesInv' /\ (Asked' <=> Asked)
  <2>1. CASE out' = out BY <1>1, <2>1 DEF FramesInv, Asked
  <2>2. CASE out' = Append(out, taken)
    <3>1. Accounts(stream, taken, out, running \cup {taken}, {}, lost)
      BY <1>2 DEF FramesInv, Accounts
    <3>2. Accounts(stream, taken, Append(out, taken), (running \cup {taken}) \ {taken}, {}, lost)
      BY <3>1, FrameAnswered
    <3>3. (running \cup {taken}) \ {taken} = running BY <1>2
    <3> QED BY <1>1, <1>2, <2>2, <3>2, <3>3, AskedAppend DEF FramesInv
  <2> QED BY <1>1, <2>1, <2>2
<1>4. LifecycleInv' BY <1>1, LifecycleKept
<1>5. OpeningInv' BY <1>1, <1>2 DEF OpeningInv, Unopened, Answered
<1>6. ExitInv' BY <1>1, <1>3 DEF ExitInv, Alive, Stages
<1> QED BY <1>3, <1>4, <1>5, <1>6

\* A handler's reply wins the select.
LEMMA ReplyReadyKeeps ==
  ASSUME StdioInv, Alive, NEW i \in running, ReplyReady(i) PROVE StdioInv'
<1> USE DEF StdioInv
<1>1. /\ out' = Append(out, i) /\ running' = running \ {i} /\ await' = "none"
      /\ UNCHANGED <<stream, taken, pending, probed, lost, stage, direct, signalled, exit, overCap,
                     ioFailed>>
  BY DEF ReplyReady, mainVars, readerVars
<1>2. i \in Nat /\ i \notin pending /\ stream[i].kind # "discover" BY DEF FramesInv, Accounts
<1>3. Accounts(stream, taken, Append(out, i), running \ {i}, pending, lost)
  BY <1>2, FrameAnswered DEF FramesInv
<1>4. FramesInv' BY <1>1, <1>3 DEF FramesInv
<1>5. LifecycleInv' BY <1>1, LifecycleKept
<1>6. Asked' <=> Asked BY <1>1, <1>2, AskedAppend
<1>7. ExitInv' BY <1>1, <1>6 DEF ExitInv, Alive
<1>8. OpeningInv' BY <1>1, OpeningKept DEF ReplyReady, Unopened
<1> QED BY <1>4, <1>5, <1>7, <1>8

\* The transport closes, and a queued reply is written or lost.
LEMMA CloseKeeps == ASSUME StdioInv, Alive, Close PROVE StdioInv'
<1> USE DEF StdioInv
<1>1. /\ stage' = "closed" /\ running' = {} /\ pending' = {} /\ stage = "draining"
      /\ UNCHANGED <<stream, taken, await, probed, direct, signalled, exit, overCap, ioFailed>>
  BY DEF Close, mainVars, readerVars
<1>2. LifecycleInv' BY <1>1, LifecycleKept
<1>3. FramesInv' /\ (Asked => Asked')
  <2>1. CASE \E i \in pending : out' = Append(out, i) /\ UNCHANGED lost
    <3>1. PICK i \in pending : out' = Append(out, i) /\ lost' = lost BY <2>1
    <3>2. i \in Nat /\ pending = {i} BY DEF FramesInv, Accounts
    <3>3. Accounts(stream, taken, Append(out, i), running \ {i}, {}, lost)
      BY <3>2, FrameAnswered DEF FramesInv
    <3>4. Accounts(stream, taken, Append(out, i), {}, {}, lost) BY <3>3, FramesGivenUp
    <3> QED BY <1>1, <3>1, <3>2, <3>4, AskedAppend DEF FramesInv
  <2>2. CASE lost' = TRUE /\ UNCHANGED out
    BY <1>1, <2>2, FramesGivenUp DEF FramesInv, Asked
  <2>3. CASE pending = {} /\ UNCHANGED <<out, lost>>
    BY <1>1, <2>3, FramesGivenUp DEF FramesInv, Asked
  <2> QED BY <2>1, <2>2, <2>3 DEF Close
<1>4. await = "none" \/ await \notin {"pending", "inner"} BY <1>1 DEF ExitInv
<1>5. ExitInv' BY <1>1, <1>3, <1>4 DEF ExitInv, Alive, Stages
<1>6. OpeningInv' BY <1>1, OpeningKept DEF Unopened
<1> QED BY <1>2, <1>3, <1>5, <1>6

LEMMA SignalKeeps == ASSUME StdioInv, Alive, Signal PROVE StdioInv'
<1> USE DEF StdioInv
<1>1. /\ await' = "none" /\ signalled' = TRUE
      /\ stage' = (IF stage = "serving" THEN "draining" ELSE stage)
      /\ UNCHANGED <<stream, taken, out, running, pending, probed, lost, direct, exit, overCap, ioFailed>>
  BY DEF Signal, readerVars
<1>2. FramesInv' BY <1>1 DEF FramesInv
<1>3. LifecycleInv' BY <1>1, LifecycleKept
<1>4. Asked' <=> Asked BY <1>1 DEF Asked
<1>5. ExitInv' BY <1>1, <1>4 DEF ExitInv, Alive, Stages
<1>6. OpeningInv' BY <1>1, OpeningKept DEF Unopened
<1> QED BY <1>2, <1>3, <1>5, <1>6

LEMMA ExitKeeps == ASSUME StdioInv, Alive, Exit PROVE StdioInv'
<1> USE DEF StdioInv
<1>1. /\ exit' = (IF signalled THEN "ok" ELSE Outcome)
      /\ signalled \/ stage \in {"failed", "refused", "broken", "closed"}
      /\ UNCHANGED <<stream, taken, await, out, running, pending, probed, lost, stage, direct,
                     signalled, overCap, ioFailed>>
  BY DEF Exit, readerVars, serveVars
<1>2. FramesInv' BY <1>1 DEF FramesInv
<1>3. LifecycleInv' BY <1>1, LifecycleKept
<1>4. Asked' <=> Asked BY <1>1 DEF Asked
<1>5. ExitInv' BY <1>1, <1>4 DEF ExitInv, Outcome
<1>6. OpeningInv' BY <1>1, OpeningKept
<1> QED BY <1>2, <1>3, <1>5, <1>6

LEMMA StdioStep == StdioInv /\ [Next]_frontVars => StdioInv'
<1> SUFFICES ASSUME StdioInv, [Next]_frontVars PROVE StdioInv' OBVIOUS
<1>1. CASE OverStdio(StdioNext)
  BY <1>1, ClientKeeps, ReceiveKeeps, TakeKeeps, WriteKeeps, GreetedKeeps,
     ReplyReadyKeeps, CloseKeeps, SignalKeeps, ExitKeeps
     DEF OverStdio, StdioNext, Poll
<1>2. CASE UNCHANGED stdioVars
  <2>1. LifecycleInv' BY <1>2, LifecycleKept DEF StdioInv, stdioVars
  <2>2. FramesInv' BY <1>2 DEF StdioInv, FramesInv, stdioVars
  <2>3. ExitInv' BY <1>2 DEF StdioInv, ExitInv, Asked, stdioVars
  <2>4. OpeningInv' BY <1>2, OpeningKept DEF StdioInv, stdioVars
  <2> QED BY <2>1, <2>2, <2>3, <2>4 DEF StdioInv
<1> QED BY <1>1, <1>2 DEF Next, Starting, OverHttp, frontVars

LEMMA StdioAlways == Spec => []StdioInv
<1>1. Init => StdioInv BY StdioHolds
<1>2. StdioInv /\ [Next]_frontVars => StdioInv' BY StdioStep
<1> QED BY <1>1, <1>2, PTL DEF Spec

\* Whatever a peer writes and however the bytes arrive, a probe is answered
\* once and in its place, however often receive() is dropped, and chooses no
\* lifecycle.
THEOREM ProbesCorrect == Spec => []ProbesAreAnsweredInPlace
<1>1. StdioInv => ProbesAreAnsweredInPlace
  <2> SUFFICES ASSUME StdioInv PROVE ProbesAreAnsweredInPlace OBVIOUS
  <2> USE DEF StdioInv
  <2>1. ASSUME NEW i \in 1 .. taken, stream[i].kind = "discover"
        PROVE  Answered(i) \/ (i = taken /\ pending = {i}) \/ lost
    BY <2>1 DEF FramesInv, Accounts, Answered
  <2>2. ASSUME NEW m \in DOMAIN out, NEW n \in DOMAIN out, m < n
        PROVE  out[m] # out[n] /\ (stream[out[n]].kind = "discover" => out[m] < out[n])
    <3>1. out \in Seq(Nat) /\ m # n BY <2>2 DEF FramesInv, Accounts
    <3> QED BY <2>2, <3>1 DEF FramesInv, Accounts
  <2>3. direct =>
          \E i \in 1 .. taken : /\ stream[i].kind = "meta"
                                /\ \A j \in 1 .. i - 1 : stream[j].kind \in {"discover", "ping", "bare"}
    BY DEF LifecycleInv, Unbinding
  <2> QED BY <2>1, <2>2, <2>3 DEF ProbesAreAnsweredInPlace
<1> QED BY <1>1, StdioAlways, PTL

\* The exit code tells a refused frame, a failed stdin, a refused initialize,
\* a broken stdout and a silent client from a hangup, whatever the peer did.
THEOREM ExitCorrect == Spec => []ExitTellsTheRefusal
<1>1. StdioInv => ExitTellsTheRefusal
  BY DEF StdioInv, ExitInv, OpeningInv, Unopened, Unbinding, ExitTellsTheRefusal, Asked
<1> QED BY <1>1, StdioAlways, PTL

-----------------------------------------------------------------------------
(* Frames                                                                  *)

LEMMA LeastNatural ==
  ASSUME NEW S \in SUBSET Nat, S # {} PROVE \E x \in S : \A y \in S : x <= y
<1>1. PICK x \in S : \A y \in S : ~(<<y, x>> \in OpToRel(<, Nat))
  BY NatLessThanWellFounded, WFMin
<1>2. \A y \in S : ~(y < x) BY <1>1 DEF OpToRel
<1> QED BY <1>2

\* A set that holds 0, and with every number the next, holds them all.
LEMMA SetInduction ==
  ASSUME NEW S, 0 \in S, \A n \in Nat : n \in S => n + 1 \in S PROVE Nat \subseteq S
<1> SUFFICES ASSUME Nat \ S # {} PROVE FALSE OBVIOUS
<1>1. PICK x \in Nat \ S : \A y \in Nat \ S : x <= y BY LeastNatural
<1>2. x # 0 /\ x - 1 \in Nat /\ x - 1 \in S BY <1>1
<1> QED BY <1>2

\* f counts the bytes of the first n frames.
Counts(f, n) ==
  f = [i \in 0 .. n |-> IF i = 0 THEN 0 ELSE f[i - 1] + stream[i].len + 1]

\* The equation NewlineAt is defined by has a solution.
LEMMA NewlineEquation == ASSUME Len(stream) \in Nat PROVE Counts(NewlineAt, Len(stream))
<1> DEFINE S == {n \in Nat : \E f : Counts(f, n)}
<1>1. 0 \in S
  <2>1. Counts([i \in 0 .. 0 |-> 0], 0) BY DEF Counts
  <2> QED BY <2>1
<1>2. ASSUME NEW n \in Nat, n \in S PROVE n + 1 \in S
  <2>1. PICK f : Counts(f, n) BY <1>2
  <2> DEFINE g == [i \in 0 .. n + 1 |->
                     IF i = n + 1 THEN f[n] + stream[n + 1].len + 1 ELSE f[i]]
  <2>2. ASSUME NEW i \in 0 .. n + 1
        PROVE  g[i] = IF i = 0 THEN 0 ELSE g[i - 1] + stream[i].len + 1
    <3>1. CASE i = n + 1
      <4>1. i - 1 = n /\ n \in 0 .. n + 1 /\ n # n + 1 /\ i # 0 BY <3>1
      <4> QED BY <3>1, <4>1
    <3>2. CASE i # n + 1
      <4>1. i \in 0 .. n /\ (i # 0 => i - 1 \in 0 .. n /\ i - 1 \in 0 .. n + 1 /\ i - 1 # n + 1)
        BY <3>2
      <4> QED BY <2>1, <3>2, <4>1 DEF Counts
    <3> QED BY <3>1, <3>2
  <2>3. g = [i \in 0 .. n + 1 |-> g[i]] OBVIOUS
  <2> HIDE DEF g
  <2>4. Counts(g, n + 1) BY <2>2, <2>3 DEF Counts
  <2> QED BY <2>4
<1>3. Len(stream) \in S
  <2> HIDE DEF S
  <2> QED BY <1>1, <1>2, SetInduction
<1>4. \E f : Counts(f, Len(stream)) BY <1>3
<1>5. NewlineAt = CHOOSE f : Counts(f, Len(stream)) BY DEF NewlineAt, Counts
<1> QED BY <1>4, <1>5

\* A newline ends every frame, and they stand in the order of the frames.
LEMMA Newline ==
  ASSUME stream \in Seq(Frame)
  PROVE  /\ NewlineAt[0] = 0
         /\ \A i \in 1 .. Len(stream) : NewlineAt[i] = NewlineAt[i - 1] + stream[i].len + 1
         /\ \A i \in 0 .. Len(stream) : NewlineAt[i] \in Nat
         /\ \A i, j \in 0 .. Len(stream) : i < j => NewlineAt[i] < NewlineAt[j]
<1> DEFINE L == Len(stream)
<1>1. L \in Nat /\ \A i \in 1 .. L : stream[i].len \in Nat
  <2>1. L \in Nat /\ \A i \in 1 .. L : stream[i] \in Frame OBVIOUS
  <2> QED BY <2>1 DEF Frame
<1>2. Counts(NewlineAt, L) BY <1>1, NewlineEquation
<1>3. \A i \in 0 .. L : NewlineAt[i] = IF i = 0 THEN 0 ELSE NewlineAt[i - 1] + stream[i].len + 1
  BY <1>2 DEF Counts
<1>4. NewlineAt[0] = 0 BY <1>1, <1>3
<1>5. \A i \in 1 .. L : NewlineAt[i] = NewlineAt[i - 1] + stream[i].len + 1 BY <1>1, <1>3
<1> DEFINE S == {n \in Nat : n <= L => /\ NewlineAt[n] \in Nat
                                       /\ \A i \in 0 .. n - 1 :
                                            NewlineAt[i] \in Nat /\ NewlineAt[i] < NewlineAt[n]}
<1>6. 0 \in S BY <1>4
<1>7. ASSUME NEW n \in Nat, n \in S PROVE n + 1 \in S
  <2> SUFFICES ASSUME n + 1 <= L
               PROVE  /\ NewlineAt[n + 1] \in Nat
                      /\ \A i \in 0 .. n : NewlineAt[i] \in Nat /\ NewlineAt[i] < NewlineAt[n + 1]
    OBVIOUS
  <2>1. /\ NewlineAt[n] \in Nat
        /\ \A i \in 0 .. n - 1 : NewlineAt[i] \in Nat /\ NewlineAt[i] < NewlineAt[n]
    BY <1>1, <1>7
  <2>2. n + 1 \in 1 .. L /\ (n + 1) - 1 = n BY <1>1
  <2>3. NewlineAt[n + 1] = NewlineAt[n] + stream[n + 1].len + 1 /\ stream[n + 1].len \in Nat
    BY <1>1, <1>5, <2>2
  <2>4. NewlineAt[n + 1] \in Nat /\ NewlineAt[n] < NewlineAt[n + 1] BY <2>1, <2>3
  <2>5. ASSUME NEW i \in 0 .. n PROVE NewlineAt[i] \in Nat /\ NewlineAt[i] < NewlineAt[n + 1]
    <3>1. CASE i = n BY <2>1, <2>4, <3>1
    <3>2. CASE i \in 0 .. n - 1 BY <2>1, <2>4, <3>2
    <3> QED BY <3>1, <3>2
  <2> QED BY <2>4, <2>5
<1>8. Nat \subseteq S
  <2> HIDE DEF S
  <2> QED BY <1>6, <1>7, SetInduction
<1>9. \A i \in 0 .. L : NewlineAt[i] \in Nat BY <1>1, <1>8
<1>10. \A i, j \in 0 .. L : i < j => NewlineAt[i] < NewlineAt[j] BY <1>1, <1>8
<1> QED BY <1>4, <1>5, <1>9, <1>10

\* Frame k is the last whose newline is among the first x bytes.
IsLast(k, x) ==
  /\ k \in 0 .. Len(stream) /\ NewlineAt[k] <= x
  /\ \A i \in 0 .. Len(stream) : NewlineAt[i] <= x => i <= k

LEMMA SomeIsLast == ASSUME stream \in Seq(Frame), NEW x \in Nat PROVE \E k : IsLast(k, x)
<1> DEFINE L == Len(stream)
           S == {n \in Nat : n <= L => \E k \in 0 .. n : /\ NewlineAt[k] <= x
                                                         /\ \A i \in 0 .. n :
                                                              NewlineAt[i] <= x => i <= k}
<1>1. L \in Nat OBVIOUS
<1>2. 0 \in S
  <2>1. 0 \in 0 .. 0 /\ NewlineAt[0] <= x /\ \A i \in 0 .. 0 : i <= 0 BY Newline
  <2> QED BY <2>1
<1>3. ASSUME NEW n \in Nat, n \in S PROVE n + 1 \in S
  <2> SUFFICES ASSUME n + 1 <= L
               PROVE  \E k \in 0 .. n + 1 : /\ NewlineAt[k] <= x
                                            /\ \A i \in 0 .. n + 1 : NewlineAt[i] <= x => i <= k
    OBVIOUS
  <2>1. PICK k \in 0 .. n : NewlineAt[k] <= x /\ \A i \in 0 .. n : NewlineAt[i] <= x => i <= k
    BY <1>1, <1>3
  <2>2. CASE NewlineAt[n + 1] <= x
    <3>1. n + 1 \in 0 .. n + 1 /\ \A i \in 0 .. n + 1 : i <= n + 1 OBVIOUS
    <3> QED BY <2>2, <3>1
  <2>3. CASE ~(NewlineAt[n + 1] <= x)
    <3>1. k \in 0 .. n + 1 /\ \A i \in 0 .. n + 1 : i \in 0 .. n \/ i = n + 1 OBVIOUS
    <3> QED BY <2>1, <2>3, <3>1
  <2> QED BY <2>2, <2>3
<1>4. L \in S
  <2> HIDE DEF S
  <2> QED BY <1>1, <1>2, <1>3, SetInduction
<1> QED BY <1>1, <1>4 DEF IsLast

\* What is left of the frames once k is the last behind x: the next frame is
\* not among the first x bytes.
LEMMA BehindTheLast ==
  ASSUME stream \in Seq(Frame), NEW x \in Nat, NEW k, IsLast(k, x), NEW i \in 0 .. Len(stream)
  PROVE  /\ i <= k <=> NewlineAt[i] <= x
         /\ k \in Nat /\ NewlineAt[k] \in Nat /\ NewlineAt[i] \in Nat
         /\ \A j : IsLast(j, x) => j = k
<1>1. /\ NewlineAt[k] \in Nat /\ NewlineAt[i] \in Nat /\ k \in 0 .. Len(stream)
      /\ NewlineAt[k] <= x /\ (NewlineAt[i] <= x => i <= k)
  BY Newline DEF IsLast
<1>2. i < k => NewlineAt[i] < NewlineAt[k] BY <1>1, Newline
<1>3. \A j : IsLast(j, x) => j \in 0 .. Len(stream) /\ j <= k /\ k <= j BY <1>1 DEF IsLast
<1> QED BY <1>1, <1>2, <1>3

\* What the reader has measured.  It counts from the last newline; a frame
\* past the cap ends reading before rmcp has been handed it.
FrameInv ==
  /\ stream \in Seq(Frame) /\ arrived \in Nat /\ arrived <= NewlineAt[Len(stream)]
  /\ since \in 0 .. Cap
  /\ taken \in 0 .. Len(stream) /\ NewlineAt[taken] <= arrived
  /\ \A k : IsLast(k, arrived) => since = arrived - NewlineAt[k]
  /\ \A i \in 1 .. Len(stream) : NewlineAt[i] <= arrived => stream[i].len <= Cap
  /\ overCap => \E i \in taken + 1 .. Len(stream) : stream[i].len > Cap
  /\ overCap => await = "none" /\ stage \notin {"handshake", "greeting", "serving"}

\* Where a frame is taken to begin is where it begins.
LEMMA StartIsTheNewline ==
  ASSUME FrameInv, NEW n \in Nat, arrived + n <= NewlineAt[Len(stream)],
         NEW x \in arrived .. arrived + n, NEW j, IsLast(j, x)
  PROVE  Start(x + 1, n) = NewlineAt[j]
<1> DEFINE L == Len(stream)
           before == {q \in Newlines(n) : q < x + 1}
<1>1. /\ stream \in Seq(Frame) /\ arrived \in Nat /\ L \in Nat /\ x \in Nat
      /\ since \in Int /\ DOMAIN stream = 1 .. L
  BY DEF FrameInv
<1>2. PICK k : IsLast(k, arrived) BY <1>1, SomeIsLast
<1>3. since = arrived - NewlineAt[k] BY <1>2 DEF FrameInv
<1>4. /\ k \in 0 .. L /\ j \in 0 .. L
      /\ \A i \in 0 .. L : /\ NewlineAt[i] \in Nat
                           /\ i <= k <=> NewlineAt[i] <= arrived
                           /\ i <= j <=> NewlineAt[i] <= x
  <2>1. k \in 0 .. L /\ j \in 0 .. L BY <1>2 DEF IsLast
  <2> SUFFICES ASSUME NEW i \in 0 .. L
               PROVE  /\ NewlineAt[i] \in Nat
                      /\ i <= k <=> NewlineAt[i] <= arrived
                      /\ i <= j <=> NewlineAt[i] <= x
    BY <2>1
  <2>2. NewlineAt[i] \in Nat /\ (i <= k <=> NewlineAt[i] <= arrived)
    BY <1>1, <1>2, BehindTheLast
  <2>3. i <= j <=> NewlineAt[i] <= x BY <1>1, BehindTheLast
  <2> QED BY <2>2, <2>3
<1>5. \A q : q \in before <=> \E i \in 1 .. L : k < i /\ i <= j /\ q = NewlineAt[i]
  <2>1. ASSUME NEW i \in 1 .. L
        PROVE  (k < i /\ i <= j) <=> /\ NewlineAt[i] \in arrived + 1 .. arrived + n
                                     /\ NewlineAt[i] < x + 1
    <3>1. NewlineAt[i] \in Nat BY <1>4
    <3>2. k < i <=> ~(NewlineAt[i] <= arrived) BY <1>4
    <3>3. i <= j <=> NewlineAt[i] <= x BY <1>4
    <3> QED BY <1>1, <3>1, <3>2, <3>3
  <2> QED BY <1>1, <2>1 DEF Newlines
<1>6. CASE j <= k
  <2>1. before = {} BY <1>4, <1>5, <1>6
  <2>2. k <= j BY <1>1, <1>4
  <2>3. Start(x + 1, n) = arrived - since BY <2>1 DEF Start
  <2> QED BY <1>1, <1>3, <1>4, <1>6, <2>2, <2>3
<1>7. CASE k < j
  <2>1. NewlineAt[j] \in before BY <1>4, <1>5, <1>7
  <2>2. ASSUME NEW r \in before PROVE r <= NewlineAt[j] /\ r \in Nat
    <3>1. PICK i \in 1 .. L : i <= j /\ r = NewlineAt[i] BY <1>5
    <3>2. i < j => NewlineAt[i] < NewlineAt[j] BY <1>1, <1>4, Newline
    <3> QED BY <1>4, <3>1, <3>2
  <2>3. ASSUME NEW q \in before, \A r \in before : r <= q PROVE q = NewlineAt[j]
    BY <2>1, <2>2, <2>3
  <2>4. Start(x + 1, n) = CHOOSE q \in before : \A r \in before : r <= q BY <2>1 DEF Start
  <2> HIDE DEF before
  <2> QED BY <2>1, <2>2, <2>3, <2>4
<1> QED BY <1>4, <1>6, <1>7

\* What a chunk is measured for: it trips over a frame past the cap, and a
\* chunk that does not leaves frames within the cap and less than the cap of
\* the next.
LEMMA MeasureIsExact ==
  ASSUME FrameInv, NEW n \in Nat, arrived + n <= NewlineAt[Len(stream)],
         NEW k, IsLast(k, arrived + n)
  PROVE  /\ Start(arrived + n + 1, n) = NewlineAt[k]
         /\ Trips(n) => \E i \in 1 .. Len(stream) :
                          stream[i].len > Cap /\ NewlineAt[i] > arrived
         /\ ~Trips(n) => /\ arrived + n - NewlineAt[k] <= Cap
                         /\ \A i \in 1 .. Len(stream) :
                              NewlineAt[i] <= arrived + n => stream[i].len <= Cap
<1> DEFINE L == Len(stream)
           end == arrived + n
<1>1. /\ stream \in Seq(Frame) /\ arrived \in Nat /\ L \in Nat /\ end \in Nat /\ Cap \in Nat
      /\ end \in arrived .. end /\ DOMAIN stream = 1 .. L
      /\ \A i \in 1 .. L : stream[i].len \in Nat
  <2>1. stream \in Seq(Frame) /\ arrived \in Nat BY DEF FrameInv
  <2>2. \A i \in 1 .. L : stream[i] \in Frame BY <2>1
  <2> QED BY <2>1, <2>2, StdioAssumption DEF Frame
<1>2. \A i \in 0 .. L : NewlineAt[i] \in Nat /\ (i <= k <=> NewlineAt[i] <= end)
  BY <1>1, BehindTheLast
<1>3. Start(end + 1, n) = NewlineAt[k] BY <1>1, StartIsTheNewline
<1>4. ASSUME NEW i \in 1 .. L, NewlineAt[i] \in arrived + 1 .. end
      PROVE  NewlineAt[i] \in Measured(n) /\ NewlineAt[i] - 1 - Start(NewlineAt[i], n) = stream[i].len
  <2> DEFINE x == NewlineAt[i - 1] + stream[i].len
  <2>1. /\ i - 1 \in 0 .. L /\ NewlineAt[i - 1] \in Nat /\ NewlineAt[i] = x + 1 /\ x \in Nat
        /\ stream[i].len \in Nat
    BY <1>1, Newline
  <2>2. IsLast(i - 1, x)
    <3>1. ASSUME NEW j \in 0 .. L, NewlineAt[j] <= x PROVE j <= i - 1
      <4>1. i < j => NewlineAt[i] < NewlineAt[j] BY <1>1, Newline
      <4> QED BY <1>1, <1>2, <2>1, <3>1, <4>1
    <3> QED BY <2>1, <3>1, SMTT(30) DEF IsLast
  <2>3. x \in arrived .. end BY <1>1, <1>4, <2>1
  <2>4. Start(x + 1, n) = NewlineAt[i - 1] BY <2>2, <2>3, StartIsTheNewline
  <2>5. NewlineAt[i] \in Newlines(n) BY <1>1, <1>4 DEF Newlines
  <2> QED BY <2>1, <2>4, <2>5 DEF Measured
<1>5. ASSUME Trips(n) PROVE \E i \in 1 .. L : stream[i].len > Cap /\ NewlineAt[i] > arrived
  <2>1. PICK p \in Measured(n) : p - 1 - Start(p, n) > Cap BY <1>5 DEF Trips
  <2>2. CASE p \in Newlines(n)
    <3>1. PICK i \in 1 .. L : NewlineAt[i] = p /\ p \in arrived + 1 .. end
      BY <1>1, <2>2 DEF Newlines
    <3> QED BY <1>1, <1>4, <2>1, <3>1
  <2>3. CASE p = end + 1
    <3>1. end - NewlineAt[k] > Cap /\ k \in 0 .. L
      BY <1>1, <1>2, <1>3, <2>1, <2>3 DEF IsLast
    <3>2. k # L
      <4>1. L \in 0 .. L /\ NewlineAt[L] \in Nat /\ end <= NewlineAt[L] BY <1>1, <1>2
      <4>2. end \in Nat /\ Cap \in Nat BY <1>1
      <4> HIDE DEF L, end
      <4>3. ~(end - NewlineAt[L] > Cap) BY <4>1, <4>2
      <4> QED BY <3>1, <4>3
    <3>3. k + 1 \in 1 .. L /\ (k + 1) - 1 = k
      <4>1. k \in 0 .. L /\ k # L /\ L \in Nat BY <1>1, <3>1, <3>2
      <4> HIDE DEF L
      <4> QED BY <4>1
    <3>4. NewlineAt[k + 1] = NewlineAt[k] + stream[k + 1].len + 1 BY <1>1, <3>3, Newline
    <3>5. NewlineAt[k + 1] > end
      <4>1. k + 1 \in 0 .. L /\ ~(k + 1 <= k) BY <1>1, <3>3
      <4> QED BY <1>1, <1>2, <4>1
    <3>6. stream[k + 1].len \in Nat /\ NewlineAt[k] \in Nat BY <1>1, <1>2, <3>1, <3>3
    <3>7. stream[k + 1].len > Cap BY <1>1, <3>1, <3>4, <3>5, <3>6
    <3>8. NewlineAt[k + 1] > arrived BY <1>1, <3>4, <3>5, <3>6
    <3> QED BY <3>3, <3>7, <3>8
  <2> QED BY <2>1, <2>2, <2>3 DEF Measured
<1>6. ASSUME ~Trips(n)
      PROVE  /\ end - NewlineAt[k] <= Cap
             /\ \A i \in 1 .. L : NewlineAt[i] <= end => stream[i].len <= Cap
  <2>1. \A p \in Measured(n) : ~(p - 1 - Start(p, n) > Cap) BY <1>6 DEF Trips
  <2>2. end - NewlineAt[k] <= Cap
    <3>1. end + 1 \in Measured(n) BY DEF Measured
    <3>2. NewlineAt[k] \in Nat BY <1>2 DEF IsLast
    <3> QED BY <1>1, <1>3, <2>1, <3>1, <3>2
  <2>3. ASSUME NEW i \in 1 .. L, NewlineAt[i] <= end PROVE stream[i].len <= Cap
    <3>1. CASE NewlineAt[i] <= arrived BY <3>1 DEF FrameInv
    <3>2. CASE ~(NewlineAt[i] <= arrived)
      <4>1. NewlineAt[i] \in arrived + 1 .. end
        <5>1. NewlineAt[i] \in Nat BY <1>2
        <5> QED BY <1>1, <2>3, <3>2, <5>1
      <4>2. ~(stream[i].len > Cap) BY <1>4, <2>1, <4>1
      <4> QED BY <1>1, <4>2
    <3> QED BY <3>1, <3>2
  <2> QED BY <2>2, <2>3
<1>7. Start(arrived + n + 1, n) = NewlineAt[k] BY <1>3
<1>8. Trips(n) => \E i \in 1 .. Len(stream) : stream[i].len > Cap /\ NewlineAt[i] > arrived
  BY <1>5
<1>9. ~Trips(n) => arrived + n - NewlineAt[k] <= Cap
  <2>1. NewlineAt[k] \in Nat /\ n \in Nat BY <1>2 DEF IsLast
  <2>2. arrived + n - NewlineAt[k] = end - NewlineAt[k] BY <1>1, <2>1
  <2> QED BY <1>6, <2>2
<1>10. ~Trips(n) => \A i \in 1 .. Len(stream) :
                      NewlineAt[i] <= arrived + n => stream[i].len <= Cap
  BY <1>6
<1> QED BY <1>7, <1>8, <1>9, <1>10

LEMMA FrameHolds == Init => FrameInv
<1> SUFFICES ASSUME Init PROVE FrameInv OBVIOUS
<1>1. /\ stream \in Seq(Frame) /\ arrived = 0 /\ since = 0 /\ overCap = FALSE /\ taken = 0
      /\ Cap \in Nat
  BY StdioAssumption DEF Init, StdioInit
<1>2. /\ NewlineAt[0] = 0 /\ \A i \in 0 .. Len(stream) : NewlineAt[i] \in Nat
      /\ \A i, j \in 0 .. Len(stream) : i < j => NewlineAt[i] < NewlineAt[j]
  BY <1>1, Newline
<1>3. ASSUME NEW i \in 1 .. Len(stream) PROVE ~(NewlineAt[i] <= 0)
  <2>1. 0 \in 0 .. Len(stream) /\ i \in 0 .. Len(stream) /\ 0 < i BY <1>1
  <2>2. NewlineAt[0] < NewlineAt[i] BY <1>2, <2>1
  <2> QED BY <1>2, <2>1, <2>2
<1>4. \A k : IsLast(k, 0) => NewlineAt[k] = 0 BY <1>2 DEF IsLast
<1>5. 0 <= NewlineAt[Len(stream)] BY <1>1, <1>2
<1> QED BY <1>1, <1>2, <1>3, <1>4, <1>5 DEF FrameInv

LEMMA ReadKeeps == ASSUME FrameInv, NEW n \in 1 .. MaxChunk, ReadChunk(n) PROVE FrameInv'
<1>1. /\ Reading /\ arrived + n <= NewlineAt[Len(stream)] /\ UNCHANGED <<stream, taken>>
      /\ n \in Nat
  BY StdioAssumption DEF ReadChunk
<1>2. NewlineAt' = NewlineAt /\ \A k, x : IsLast(k, x)' <=> IsLast(k, x)
  <2>1. NewlineAt' = NewlineAt BY <1>1 DEF NewlineAt
  <2> QED BY <1>1, <2>1 DEF IsLast
<1>3. /\ stream \in Seq(Frame) /\ arrived \in Nat /\ taken \in 0 .. Len(stream)
      /\ NewlineAt[taken] <= arrived /\ Cap \in Nat
  BY StdioAssumption DEF FrameInv
<1>4. PICK k : IsLast(k, arrived + n) BY <1>1, <1>3, SomeIsLast
<1>5. CASE Trips(n)
  <2>1. overCap' = TRUE /\ await' = "none" /\ Closes /\ UNCHANGED <<arrived, since>>
    BY <1>5 DEF ReadChunk
  <2>2. \E i \in taken + 1 .. Len(stream) : stream[i].len > Cap
    <3>1. PICK i \in 1 .. Len(stream) : stream[i].len > Cap /\ NewlineAt[i] > arrived
      BY <1>1, <1>4, <1>5, MeasureIsExact
    <3>2. taken < i
      <4>1. i < taken => NewlineAt[i] < NewlineAt[taken] BY <1>3, Newline
      <4>2. NewlineAt[i] \in Nat /\ NewlineAt[taken] \in Nat BY <1>3, Newline
      <4> QED BY <1>3, <3>1, <4>1, <4>2
    <3> QED BY <1>3, <3>1, <3>2
  <2>3. stage' \notin {"handshake", "greeting", "serving"} BY <2>1 DEF Closes
  <2> QED BY <1>1, <1>2, <2>1, <2>2, <2>3 DEF FrameInv
<1>6. CASE ~Trips(n)
  <2>1. /\ since' = arrived + n - NewlineAt[k] /\ arrived' = arrived + n
        /\ UNCHANGED <<overCap, await, stage>>
    BY <1>1, <1>4, <1>6, MeasureIsExact DEF ReadChunk
  <2>2. since' \in 0 .. Cap
    <3>1. NewlineAt[k] \in Nat /\ NewlineAt[k] <= arrived + n
      BY <1>3, <1>4, Newline DEF IsLast
    <3>2. arrived + n - NewlineAt[k] <= Cap BY <1>1, <1>4, <1>6, MeasureIsExact
    <3> QED BY <1>1, <1>3, <2>1, <3>1, <3>2
  <2>3. \A i \in 1 .. Len(stream) : NewlineAt[i] <= arrived + n => stream[i].len <= Cap
    BY <1>1, <1>4, <1>6, MeasureIsExact
  <2>4. \A j : IsLast(j, arrived + n) => since' = arrived + n - NewlineAt[j]
    <3>1. ASSUME NEW j, IsLast(j, arrived + n) PROVE j = k
      <4>1. arrived + n \in Nat /\ k \in 0 .. Len(stream) BY <1>1, <1>3, <1>4 DEF IsLast
      <4> QED BY <1>3, <1>4, <3>1, <4>1, BehindTheLast
    <3> QED BY <2>1, <3>1
  <2>5. NewlineAt[taken] <= arrived + n /\ arrived + n \in Nat
    <3>1. NewlineAt[taken] \in Nat BY <1>3, Newline
    <3> QED BY <1>1, <1>3, <3>1
  <2>6. \A j : IsLast(j, arrived)' <=> IsLast(j, arrived + n) BY <1>1, <1>2, <2>1 DEF IsLast
  <2>7. overCap' => FALSE BY <1>1, <2>1 DEF FrameInv, Reading
  <2>8. \A i \in 1 .. Len(stream) : NewlineAt'[i] <= arrived' => stream[i].len <= Cap
    BY <1>2, <2>1, <2>3
  <2>9. \A j : IsLast(j, arrived)' => since' = arrived' - NewlineAt'[j]
    <3>1. ASSUME NEW j, IsLast(j, arrived)' PROVE since' = arrived' - NewlineAt'[j]
      <4>1. IsLast(j, arrived + n) BY <2>6, <3>1
      <4>2. since' = arrived + n - NewlineAt[j] BY <2>4, <4>1
      <4>3. NewlineAt[j] \in Nat BY <1>3, <4>1, Newline DEF IsLast
      <4> QED BY <1>1, <1>2, <1>3, <2>1, <4>2, <4>3
    <3> QED BY <3>1
  <2>10. /\ arrived' \in Nat /\ arrived' <= NewlineAt'[Len(stream)] /\ NewlineAt'[taken] <= arrived'
    BY <1>1, <1>2, <2>1, <2>5
  <2> QED BY <1>1, <1>3, <2>2, <2>7, <2>8, <2>9, <2>10 DEF FrameInv
<1> QED BY <1>5, <1>6

LEMMA FrameStep == FrameInv /\ [Next]_frontVars => FrameInv'
<1> SUFFICES ASSUME FrameInv, [Next]_frontVars PROVE FrameInv' OBVIOUS
<1>1. ASSUME UNCHANGED <<stream, arrived, since, taken, overCap>>,
             overCap => await' = "none" /\ stage' \notin {"handshake", "greeting", "serving"}
      PROVE  FrameInv'
  <2>1. NewlineAt' = NewlineAt BY <1>1 DEF NewlineAt
  <2>2. \A k : IsLast(k, arrived)' <=> IsLast(k, arrived) BY <1>1, <2>1 DEF IsLast
  <2> QED BY <1>1, <2>1, <2>2 DEF FrameInv
<1>2. ASSUME NEW n \in 1 .. MaxChunk, ReadChunk(n) PROVE FrameInv' BY <1>2, ReadKeeps
<1>3. CASE HangsUp \/ ReadFails \/ Receive \/ Write \/ Greeted
  BY <1>1, <1>3 DEF HangsUp, ReadFails, Reading, Receive, Write, ReplySent, ReplyFails, Greeted,
     Closes, readerVars, serveVars, mainVars, FrameInv
<1>4. CASE Take
  <2>1. /\ await = "inner" /\ taken < Len(stream) /\ NewlineAt[taken + 1] <= arrived
        /\ taken' = taken + 1 /\ UNCHANGED <<stream, arrived, since, overCap>>
    BY <1>4 DEF Take, readerVars
  <2>2. ~overCap BY <2>1 DEF FrameInv
  <2>3. NewlineAt' = NewlineAt BY <2>1 DEF NewlineAt
  <2>4. \A k : IsLast(k, arrived)' <=> IsLast(k, arrived) BY <2>1, <2>3 DEF IsLast
  <2>5. taken' \in 0 .. Len(stream) BY <2>1 DEF FrameInv
  <2> QED BY <2>1, <2>2, <2>3, <2>4, <2>5 DEF FrameInv
<1>5. CASE Close \/ Signal \/ Exit \/ \E i \in running : ReplyReady(i)
  BY <1>1, <1>5 DEF Close, Signal, Exit, ReplyReady, readerVars, serveVars, mainVars, FrameInv
<1>6. CASE UNCHANGED stdioVars BY <1>1, <1>6 DEF stdioVars, FrameInv
<1> QED
  BY <1>2, <1>3, <1>4, <1>5, <1>6
     DEF Next, Starting, OverStdio, OverHttp, StdioNext, Client, Poll, frontVars

\* However the bytes of a stream are cut into chunks, no frame past the cap
\* is handed out, nor more than the cap held of one, and only a frame past the
\* cap closes the transport.
THEOREM FramesCorrect == Spec => []BoundedFrames
<1>1. FrameInv => BoundedFrames
  <2> SUFFICES ASSUME FrameInv PROVE BoundedFrames OBVIOUS
  <2>1. stream \in Seq(Frame) /\ arrived \in Nat /\ taken \in 0 .. Len(stream) BY DEF FrameInv
  <2>2. ASSUME NEW i \in 1 .. taken PROVE stream[i].len <= Cap
    <3>1. /\ i \in 0 .. Len(stream) /\ taken \in 0 .. Len(stream) /\ i \in 1 .. Len(stream)
      BY <2>1
    <3>2. i < taken => NewlineAt[i] < NewlineAt[taken] BY <2>1, <3>1, Newline
    <3>3. NewlineAt[i] \in Nat /\ NewlineAt[taken] \in Nat BY <2>1, <3>1, Newline
    <3>4. NewlineAt[taken] <= arrived BY DEF FrameInv
    <3>5. NewlineAt[i] <= arrived BY <2>1, <3>1, <3>2, <3>3, <3>4
    <3> QED BY <3>1, <3>5 DEF FrameInv
  <2>3. arrived - LastNewline <= Cap
    <3> DEFINE passed == {i \in 0 .. Len(stream) : NewlineAt[i] <= arrived}
    <3>1. PICK k : IsLast(k, arrived) BY <2>1, SomeIsLast
    <3>2. k \in passed /\ \A j \in passed : j <= k BY <3>1 DEF IsLast
    <3>3. ASSUME NEW i \in passed, \A j \in passed : j <= i PROVE i = k
      BY <2>1, <3>2, <3>3
    <3>4. LastNewline = NewlineAt[CHOOSE i \in passed : \A j \in passed : j <= i]
      BY DEF LastNewline
    <3> HIDE DEF passed
    <3>5. LastNewline = NewlineAt[k] BY <3>2, <3>3, <3>4
    <3> QED BY <3>1, <3>5, StdioAssumption DEF FrameInv
  <2> QED BY <2>2, <2>3 DEF BoundedFrames, FrameInv
<1> QED BY <1>1, FrameHolds, FrameStep, PTL DEF Spec

-----------------------------------------------------------------------------
(* Over http                                                               *)

\* The one credential of a request is among the tokens if scope_for finds it
\* there, and then the request carries it and nothing else.
LEMMA CredentialIsCarried ==
  ASSUME NEW r \in Requests, NEW tokens
  PROVE  ((UNION {BearerCredential(w) : w \in SoleAuthorization(r.auth)}) \cap tokens # {})
           <=> Carries(r, tokens)
<1> DEFINE candidates == UNION {BearerCredential(w) : w \in SoleAuthorization(r.auth)}
<1>1. r.auth \in Seq(Seq(STRING)) BY RequestsAssumption
<1>2. ASSUME NEW token \in tokens, token \in candidates PROVE Carries(r, tokens)
  <2>1. PICK w \in SoleAuthorization(r.auth) : token \in BearerCredential(w) BY <1>2
  <2>2. Len(r.auth) = 1 /\ w = r.auth[1] BY <2>1 DEF SoleAuthorization
  <2>3. w \in Seq(STRING) /\ r.auth = <<w>> BY <1>1, <2>2
  <2>4. Len(w) = 2 /\ w[1] \in {"Bearer", "bearer"} /\ token = w[2]
    BY <2>1 DEF BearerCredential
  <2>5. w = <<w[1], w[2]>> BY <2>3, <2>4
  <2> QED BY <1>2, <2>3, <2>4, <2>5 DEF Carries
<1>3. ASSUME Carries(r, tokens) PROVE \E token \in tokens : token \in candidates
  <2>1. PICK token \in tokens, scheme \in {"Bearer", "bearer"} : r.auth = << <<scheme, token>> >>
    BY <1>3 DEF Carries
  <2>2. SoleAuthorization(r.auth) = { <<scheme, token>> } BY <2>1 DEF SoleAuthorization
  <2>3. BearerCredential(<<scheme, token>>) = {token} BY DEF BearerCredential
  <2> QED BY <2>2, <2>3
<1> QED BY <1>2, <1>3

\* What the gate and the filters make of a credential, once it serves http.
LEMMA GateIsTheCredentials ==
  ASSUME StartInv, Serving("http"), NEW r \in Requests
  PROVE  /\ Turned(r.auth) <=> Tokens # {} /\ ~Carries(r, Tokens)
         /\ ~Turned(r.auth) => Listed(Gate(r.auth)) = Entitled(r)
<1>1. /\ deployment.transport = "http" /\ ~AuthRefuses /\ routed = Surface
      /\ enforce <=> ~deployment.insecure
      /\ deployment.insecure \in BOOLEAN
  BY DeploymentsAssumption DEF Serving, StartInv, Configured
<1>2. deployment.insecure <=> Tokens = {} BY <1>1 DEF AuthRefuses
<1>3. Carries(r, Tokens) <=> Carries(r, deployment.write) \/ Carries(r, deployment.read)
  BY DEF Carries, Tokens
<1>4. /\ ScopeFor(r.auth) = {"write"} <=> Carries(r, deployment.write)
      /\ ScopeFor(r.auth) = {"read"} <=> Carries(r, deployment.read) /\ ~Carries(r, deployment.write)
      /\ ScopeFor(r.auth) \in {{}, {"write"}, {"read"}}
  BY CredentialIsCarried DEF ScopeFor
<1>5. Turned(r.auth) <=> Tokens # {} /\ ~Carries(r, Tokens)
  BY <1>2, <1>3, <1>4 DEF Turned
<1>6. ASSUME ~Turned(r.auth) PROVE Listed(Gate(r.auth)) = Entitled(r)
  <2>1. ASSUME NEW t
        PROVE  Reaches(t, Gate(r.auth)) <=>
                 \/ Tokens = {} \/ Carries(r, deployment.write)
                 \/ t \notin WriteTools /\ Carries(r, deployment.read)
    <3>1. CASE deployment.insecure BY <1>1, <1>2, <3>1 DEF Reaches
    <3>2. CASE ~deployment.insecure
      <4>1. Gate(r.auth) = ScopeFor(r.auth) BY <3>2 DEF Gate
      <4> QED BY <1>1, <1>2, <1>4, <3>2, <4>1 DEF Reaches
    <3> QED BY <3>1, <3>2
  <2> QED BY <1>1, <2>1 DEF Listed, Entitled, Surface
<1> QED BY <1>5, <1>6

Session == [open : BOOLEAN, revision : SUBSET Handshakes, client : SUBSET STRING,
            greeted : SUBSET STRING]

Answers == {"none", "unauthorized", "unroutable", "initialized", "out of contract", "dispatched",
            "tool not found", "listed"}

Slot == [phase : {"routed", "handled", "done"}, request : Requests, scope : SUBSET {"write", "read"},
         stamp : SUBSET Nat, record : SUBSET [session : SUBSET Nat, client : SUBSET STRING],
         listed : SUBSET Tools, hinted : BOOLEAN, answer : Answers]

\* What a finished request shows is what its credential is for.
Shown(s) ==
  LET r == slots[s].request
      a == slots[s].answer
  IN  /\ a = "listed" => slots[s].listed = Entitled(r)
      /\ a = "dispatched" => r.tool \in Entitled(r)
      /\ a = "tool not found" => r.tool \notin Entitled(r)
      /\ Turned(r.auth) => a = "unauthorized"

\* What its record says is the session it was delivered to, and who greeted
\* that session or declared itself.
Known(s) ==
  LET r == slots[s].request
  IN  /\ \A record \in slots[s].record :
           /\ record.session = slots[s].stamp
           /\ \A c \in record.client :
                \/ c = r.client /\ (Lifecycle(r) = "PerRequest" \/ r.method = "initialize")
                \/ \E id \in slots[s].stamp : c \in sessions[id].greeted
      /\ slots[s].answer = "listed" => (slots[s].hinted <=> Lifecycle(r) = "PerRequest")

\* A request under way has passed the gate, and is stamped with nothing but
\* the session it was delivered to.
Passed(s) ==
  LET r == slots[s].request
  IN  /\ slots[s].scope = Gate(r.auth)
      /\ slots[s].phase # "done" => ~Turned(r.auth) /\ slots[s].record = {}
      /\ slots[s].phase = "routed" /\ ~Stateless(r) => r.sid \subseteq DOMAIN sessions
      /\ slots[s].stamp \subseteq DOMAIN sessions
      /\ Stateless(r) => slots[s].stamp = {}
      /\ r.sid # {} => slots[s].stamp \subseteq r.sid

SlotOk(s) ==
  slots[s] # Idle =>
    Serving("http") /\ Passed(s) /\ (slots[s].phase = "done" => Shown(s) /\ Known(s))

SessionsOk ==
  /\ sessions \in Seq(Session)
  /\ \A id \in DOMAIN sessions : sessions[id].client \subseteq sessions[id].greeted

HttpInv ==
  /\ StartInv /\ SessionsOk
  /\ slots \in [Slots -> {Idle} \cup Slot]
  /\ \A s \in Slots : SlotOk(s)

LEMMA HttpHolds == Init => HttpInv
BY StartHolds DEF Init, HttpInit, HttpInv, SessionsOk, SlotOk

\* Sessions are minted and greeted, and none is forgotten.
SessionsGrow ==
  /\ DOMAIN sessions \subseteq DOMAIN sessions'
  /\ \A id \in DOMAIN sessions : sessions[id].greeted \subseteq sessions'[id].greeted

\* What the start decided reads the same afterwards.
LEMMA SameFront ==
  ASSUME UNCHANGED startVars
  PROVE  /\ Serving("http")' <=> Serving("http")
         /\ \A r : Entitled(r)' = Entitled(r)
         /\ \A auth : (Turned(auth)' <=> Turned(auth)) /\ Gate(auth)' = Gate(auth)
<1> USE DEF startVars
<1>1. Serving("http")' <=> Serving("http") BY DEF Serving
<1>2. \A r : Entitled(r)' = Entitled(r) BY DEF Entitled, Tokens
<1>3. \A auth : ScopeFor(auth)' = ScopeFor(auth) BY DEF ScopeFor
<1>4. \A auth : (Turned(auth)' <=> Turned(auth)) /\ Gate(auth)' = Gate(auth)
  BY <1>3 DEF Turned, Gate
<1> QED BY <1>1, <1>2, <1>4

\* What holds of a slot keeps holding while others are at work.
LEMMA SlotStands ==
  ASSUME NEW s, SlotOk(s), slots'[s] = slots[s], UNCHANGED startVars, SessionsGrow
  PROVE  SlotOk(s)'
<1>1. CASE slots[s] = Idle BY <1>1 DEF SlotOk
<1>2. CASE slots[s] # Idle
  <2>1. Serving("http") /\ Passed(s) /\ (slots[s].phase = "done" => Shown(s) /\ Known(s))
    BY <1>2 DEF SlotOk
  <2>2. Serving("http")' BY <2>1, SameFront
  <2>3. Passed(s)' BY <2>1, SameFront DEF Passed, SessionsGrow
  <2>4. Shown(s) => Shown(s)' BY SameFront DEF Shown
  <2>5. Known(s) => Known(s)' BY <2>1 DEF Known, Passed, SessionsGrow
  <2> QED BY <2>1, <2>2, <2>3, <2>4, <2>5 DEF SlotOk
<1> QED BY <1>1, <1>2

\* A step that works on one slot is right if it leaves that slot right.
LEMMA OneSlot ==
  ASSUME HttpInv, UNCHANGED startVars, NEW s \in Slots, NEW w \in Slot,
         slots' = [slots EXCEPT ![s] = w], SessionsOk', SessionsGrow, SlotOk(s)'
  PROVE  HttpInv'
<1>1. StartInv' BY ServingKeepsStart DEF HttpInv
<1>2. slots' \in [Slots -> {Idle} \cup Slot] BY DEF HttpInv
<1>3. ASSUME NEW t \in Slots PROVE SlotOk(t)'
  <2>1. CASE t = s BY <2>1
  <2>2. CASE t # s BY <2>2, SlotStands DEF HttpInv
  <2> QED BY <2>1, <2>2
<1> QED BY <1>1, <1>2, <1>3 DEF HttpInv

LEMMA SessionsStand ==
  ASSUME SessionsOk, UNCHANGED sessions PROVE SessionsOk' /\ SessionsGrow
BY DEF SessionsOk, SessionsGrow

LEMMA ScopesAreTwo == \A auth : Gate(auth) \in SUBSET {"write", "read"}
<1>1. \A auth : ScopeFor(auth) \in {{}, {"write"}, {"read"}} BY DEF ScopeFor
<1>2. \A auth : Gate(auth) \in {{}, {"write"}, {"read"}} BY <1>1 DEF Gate
<1> QED BY <1>2

LEMMA ArriveKeeps ==
  ASSUME HttpInv, Serving("http"), NEW s \in Slots, NEW r \in Requests, Arrive(s, r)
  PROVE  HttpInv'
<1> DEFINE w == [phase |-> IF Turned(r.auth) \/ Unroutable(r) THEN "done" ELSE "routed",
                 request |-> r, scope |-> Gate(r.auth), stamp |-> {}, record |-> {}, listed |-> {},
                 hinted |-> FALSE,
                 answer |-> IF Turned(r.auth) THEN "unauthorized"
                            ELSE IF Unroutable(r) THEN "unroutable" ELSE "none"]
<1>1. UNCHANGED startVars /\ UNCHANGED sessions /\ slots' = [slots EXCEPT ![s] = w] BY DEF Arrive
<1>2. w \in Slot
  <2>1. w.phase \in {"routed", "handled", "done"} /\ w.answer \in Answers BY DEF Answers
  <2>2. Gate(r.auth) \in SUBSET {"write", "read"} BY ScopesAreTwo
  <2> QED BY <2>1, <2>2 DEF Slot
<1>3. slots'[s] = w BY <1>1 DEF HttpInv
<1>4. SessionsOk' /\ SessionsGrow BY <1>1, SessionsStand DEF HttpInv
<1>5. Serving("http")' BY <1>1, SameFront
<1>6. Passed(s)'
  <2>1. ~Unroutable(r) /\ ~Stateless(r) => r.sid \subseteq DOMAIN sessions BY DEF Unroutable
  <2> QED BY <1>1, <1>3, <2>1, SameFront DEF Passed
<1>7. slots'[s].phase = "done" => Shown(s)' /\ Known(s)'
  <2>1. Known(s)' BY <1>3 DEF Known
  <2>2. /\ slots'[s].answer \in {"unauthorized", "unroutable", "none"}
        /\ Turned(r.auth) => slots'[s].answer = "unauthorized"
        /\ slots'[s].request = r
    BY <1>3
  <2>3. Turned(r.auth)' <=> Turned(r.auth) BY <1>1, SameFront
  <2>4. Shown(s)' BY <2>2, <2>3 DEF Shown
  <2> QED BY <2>1, <2>4
<1>8. SlotOk(s)' BY <1>5, <1>6, <1>7 DEF SlotOk
<1> QED BY <1>1, <1>2, <1>4, <1>8, OneSlot

\* The message is handed over, with the stamp q.
LEMMA HandedOver ==
  ASSUME HttpInv, UNCHANGED startVars, NEW s \in Slots, slots[s].phase = "routed",
         SessionsOk', SessionsGrow, NEW q, q \subseteq DOMAIN sessions',
         Stateless(slots[s].request) => q = {},
         slots[s].request.sid # {} => q \subseteq slots[s].request.sid,
         NEW w, w = [slots[s] EXCEPT !.phase = "handled", !.stamp = q],
         slots' = [slots EXCEPT ![s] = w]
  PROVE  HttpInv'
<1>1. slots[s] \in Slot /\ slots[s] # Idle BY DEF HttpInv, Idle, Slot
<1>3. q \in SUBSET Nat BY DEF SessionsOk
<1>4. w \in Slot BY <1>1, <1>3 DEF Slot
<1>5. slots'[s] = w /\ w.request = slots[s].request /\ w.phase = "handled" /\ w.stamp = q
      /\ w.scope = slots[s].scope /\ w.record = slots[s].record
  BY <1>1 DEF HttpInv, Slot
<1>6. Serving("http") /\ Passed(s) BY <1>1 DEF HttpInv, SlotOk
<1>7. Passed(s)'
  <2>1. /\ slots[s].scope = Gate(slots[s].request.auth) /\ ~Turned(slots[s].request.auth)
        /\ slots[s].record = {}
    BY <1>6 DEF Passed
  <2>2. /\ Gate(slots[s].request.auth)' = Gate(slots'[s].request.auth)
        /\ Gate(slots'[s].request.auth) = Gate(slots[s].request.auth)
        /\ Turned(slots[s].request.auth)' <=> Turned(slots'[s].request.auth)
    BY <1>5, SameFront
  <2> QED BY <1>5, <2>1, <2>2, SameFront DEF Passed
<1>8. SlotOk(s)' BY <1>5, <1>6, <1>7, SameFront DEF SlotOk
<1> QED BY <1>4, <1>8, OneSlot

LEMMA DeliverKeeps ==
  ASSUME HttpInv, NEW s \in Slots, Deliver(s) PROVE HttpInv'
<1> DEFINE r == slots[s].request
           new == Len(sessions) + 1
           w(q) == [slots[s] EXCEPT !.phase = "handled", !.stamp = q]
<1>1. UNCHANGED startVars /\ slots[s].phase = "routed" BY DEF Deliver
<1>2. slots[s] \in Slot /\ slots[s] # Idle BY <1>1 DEF HttpInv, Idle, Slot
<1>3. r \in Requests /\ sessions \in Seq(Session) BY <1>2 DEF HttpInv, SessionsOk, Slot
<1>4. CASE Stateless(r) /\ slots' = [slots EXCEPT ![s].phase = "handled", ![s].stamp = {}]
           /\ UNCHANGED sessions
  <2>1. slots' = [slots EXCEPT ![s] = w({})] BY <1>4
  <2>2. SessionsOk' /\ SessionsGrow BY <1>4, SessionsStand DEF HttpInv
  <2> HIDE DEF w
  <2>3. w({}) = [slots[s] EXCEPT !.phase = "handled", !.stamp = {}] BY DEF w
  <2> QED BY <1>1, <2>1, <2>2, <2>3, HandedOver
<1>5. CASE /\ ~Stateless(r) /\ r.sid = {}
           /\ sessions' = Append(sessions, [open |-> TRUE, revision |-> {}, client |-> {},
                                            greeted |-> {}])
           /\ slots' = [slots EXCEPT ![s].phase = "handled", ![s].stamp = {new}]
  <2>1. [open |-> TRUE, revision |-> {}, client |-> {}, greeted |-> {}] \in Session BY DEF Session
  <2>2. /\ sessions' \in Seq(Session) /\ DOMAIN sessions' = 1 .. Len(sessions) + 1
        /\ DOMAIN sessions = 1 .. Len(sessions) /\ Len(sessions) \in Nat
        /\ sessions'[new] = [open |-> TRUE, revision |-> {}, client |-> {}, greeted |-> {}]
        /\ \A id \in DOMAIN sessions : sessions'[id] = sessions[id]
    BY <1>3, <1>5, <2>1
  <2>3. DOMAIN sessions \subseteq DOMAIN sessions' /\ new \in DOMAIN sessions'
        /\ \A id \in DOMAIN sessions' : id \in DOMAIN sessions \/ id = new
    BY <2>2
  <2>4. SessionsGrow BY <2>2, <2>3 DEF SessionsGrow
  <2>5. SessionsOk' BY <2>2, <2>3 DEF SessionsOk, HttpInv
  <2>6. slots' = [slots EXCEPT ![s] = w({new})] BY <1>5
  <2>7. {new} \subseteq DOMAIN sessions' BY <2>3
  <2> HIDE DEF w, new
  <2>8. w({new}) = [slots[s] EXCEPT !.phase = "handled", !.stamp = {new}] BY DEF w
  <2>9. /\ Stateless(slots[s].request) => {new} = {}
        /\ slots[s].request.sid # {} => {new} \subseteq slots[s].request.sid
    BY <1>5
  <2> HIDE DEF r
  <2> QED BY <1>1, <2>4, <2>5, <2>6, <2>7, <2>8, <2>9, HandedOver
<1>6. CASE \E id \in IF Stateless(r) THEN {} ELSE r.sid :
             /\ slots' = IF sessions[id].open
                         THEN [slots EXCEPT ![s].phase = "handled", ![s].stamp = {id}]
                         ELSE [slots EXCEPT ![s].phase = "done", ![s].answer = "unroutable"]
             /\ UNCHANGED sessions
  <2>1. PICK id \in r.sid :
             /\ slots' = IF sessions[id].open
                         THEN [slots EXCEPT ![s].phase = "handled", ![s].stamp = {id}]
                         ELSE [slots EXCEPT ![s].phase = "done", ![s].answer = "unroutable"]
             /\ ~Stateless(r) /\ UNCHANGED sessions
    BY <1>6
  <2>2. SessionsOk' /\ SessionsGrow BY <2>1, SessionsStand DEF HttpInv
  <2>3. CASE sessions[id].open
    <3>1. slots' = [slots EXCEPT ![s] = w({id})] BY <2>1, <2>3
    <3>2. id \in DOMAIN sessions BY <1>1, <1>2, <2>1 DEF HttpInv, SlotOk, Passed
    <3> HIDE DEF w
    <3>3. w({id}) = [slots[s] EXCEPT !.phase = "handled", !.stamp = {id}] BY DEF w
    <3>4. {id} \subseteq DOMAIN sessions' /\ {id} \subseteq slots[s].request.sid BY <2>1, <3>2
    <3>5. ~Stateless(slots[s].request) BY <2>1
    <3> HIDE DEF r
    <3> QED BY <1>1, <2>2, <3>1, <3>3, <3>4, <3>5, HandedOver
  <2>4. CASE ~sessions[id].open
    <3> DEFINE d == [slots[s] EXCEPT !.phase = "done", !.answer = "unroutable"]
    <3>1. slots' = [slots EXCEPT ![s] = d] BY <2>1, <2>4
    <3>2. d \in Slot BY <1>2 DEF Slot, Answers
    <3>3. /\ slots'[s] = d /\ d.request = r /\ d.phase = "done" /\ d.answer = "unroutable"
          /\ d.stamp = slots[s].stamp /\ d.scope = slots[s].scope /\ d.record = slots[s].record
      BY <1>2, <3>1 DEF HttpInv, Slot
    <3> HIDE DEF d
    <3>4. Serving("http") /\ Passed(s) BY <1>2 DEF HttpInv, SlotOk
    <3>5. ~Turned(r.auth) /\ slots[s].record = {} /\ slots[s].scope = Gate(r.auth)
      BY <1>1, <3>4 DEF Passed
    <3>6. Turned(r.auth)' <=> Turned(slots'[s].request.auth) BY <1>1, <3>3, SameFront
    <3>7. Passed(s)' BY <1>1, <2>1, <3>3, <3>4, <3>5, SameFront DEF Passed
    <3>8. Known(s)' BY <3>3, <3>5 DEF Known
    <3>9. Shown(s)' BY <1>1, <3>3, <3>5, <3>6, SameFront DEF Shown
    <3>10. SlotOk(s)' BY <1>1, <3>4, <3>7, <3>8, <3>9, SameFront DEF SlotOk
    <3> QED BY <1>1, <2>2, <3>1, <3>2, <3>10, OneSlot
  <2> QED BY <2>3, <2>4
<1> QED BY <1>1, <1>4, <1>5, <1>6 DEF Deliver, Stamp

LEMMA CloseSessionKeeps ==
  ASSUME HttpInv, NEW id \in DOMAIN sessions, CloseSession(id) PROVE HttpInv'
<1>1. /\ sessions' = [sessions EXCEPT ![id].open = FALSE]
      /\ UNCHANGED startVars /\ UNCHANGED slots
  BY DEF CloseSession
<1>2. /\ sessions' \in Seq(Session) /\ DOMAIN sessions' = DOMAIN sessions
      /\ \A k \in DOMAIN sessions : /\ sessions'[k].client = sessions[k].client
                                    /\ sessions'[k].greeted = sessions[k].greeted
  <2>1. sessions \in Seq(Session) BY DEF HttpInv, SessionsOk
  <2>2. sessions[id] \in Session BY <2>1
  <2> DEFINE e == [sessions[id] EXCEPT !.open = FALSE]
  <2>3. e \in Session /\ e.client = sessions[id].client /\ e.greeted = sessions[id].greeted
    BY <2>2 DEF Session
  <2>4. sessions' = [sessions EXCEPT ![id] = e] BY <1>1
  <2> HIDE DEF e
  <2> QED BY <2>1, <2>3, <2>4
<1>3. SessionsGrow BY <1>2 DEF SessionsGrow
<1>4. SessionsOk' BY <1>2 DEF HttpInv, SessionsOk
<1>5. \A s \in Slots : SlotOk(s)' BY <1>1, <1>3, SlotStands DEF HttpInv
<1>6. StartInv' BY <1>1, ServingKeepsStart DEF HttpInv
<1> QED BY <1>1, <1>4, <1>5, <1>6 DEF HttpInv

\* A handler is done with the request, and has left the sessions in order.
LEMMA Handled ==
  ASSUME HttpInv, UNCHANGED startVars, NEW s \in Slots, slots[s].phase = "handled",
         SessionsOk', SessionsGrow, NEW d \in Slot, slots' = [slots EXCEPT ![s] = d],
         d.phase = "done", d.request = slots[s].request, d.stamp = slots[s].stamp,
         d.scope = slots[s].scope, Shown(s)', Known(s)'
  PROVE  HttpInv'
<1>1. slots[s] \in Slot /\ slots[s] # Idle BY DEF HttpInv, Idle, Slot
<1>2. slots'[s] = d BY DEF HttpInv
<1>3. Serving("http") /\ Passed(s) BY <1>1 DEF HttpInv, SlotOk
<1>4. Gate(slots[s].request.auth) = Gate(slots[s].request.auth)' /\ Serving("http")'
  BY <1>2, <1>3, SameFront
<1>5. /\ slots[s].scope = Gate(slots[s].request.auth) /\ slots[s].stamp \subseteq DOMAIN sessions
      /\ Stateless(slots[s].request) => slots[s].stamp = {}
      /\ slots[s].request.sid # {} => slots[s].stamp \subseteq slots[s].request.sid
  BY <1>3 DEF Passed
<1>6. Passed(s)' BY <1>2, <1>5, SameFront DEF Passed, SessionsGrow
<1>7. SlotOk(s)' BY <1>4, <1>6 DEF SlotOk
<1> QED BY <1>7, OneSlot

\* What a handler may show.
LEMMA HandlerShows ==
  ASSUME HttpInv, NEW s \in Slots, slots[s].phase = "handled"
  PROVE  /\ slots[s] \in Slot /\ slots[s].request \in Requests
         /\ Listed(slots[s].scope) = Entitled(slots[s].request)
         /\ ~Turned(slots[s].request.auth)
         /\ slots[s].stamp \subseteq DOMAIN sessions /\ slots[s].record = {}
<1>1. slots[s] \in Slot /\ slots[s] # Idle BY DEF HttpInv, Idle, Slot
<1>2. Serving("http") /\ Passed(s) /\ StartInv BY <1>1 DEF HttpInv, SlotOk
<1>3. slots[s].request \in Requests BY <1>1 DEF Slot
<1> QED BY <1>1, <1>2, <1>3, GateIsTheCredentials DEF Passed

LEMMA SessionsTyped ==
  ASSUME HttpInv, NEW id \in DOMAIN sessions
  PROVE  /\ sessions[id] \in Session
         /\ sessions[id].greeted \in SUBSET STRING /\ sessions[id].revision \in SUBSET Handshakes
<1>1. sessions \in Seq(Session) BY DEF HttpInv, SessionsOk
<1>2. sessions[id] \in Session BY <1>1
<1> QED BY <1>2 DEF Session

LEMMA InitializeKeeps ==
  ASSUME HttpInv, NEW s \in Slots, Initialize(s) PROVE HttpInv'
<1> DEFINE r == slots[s].request
           greet(x) == [x EXCEPT !.revision = {Negotiated(r.asked)}, !.client = {r.client},
                                 !.greeted = @ \cup {r.client}]
           record == [session |-> slots[s].stamp, client |-> {r.client}]
           d == [slots[s] EXCEPT !.phase = "done", !.answer = "initialized", !.record = {record}]
<1>1. UNCHANGED startVars /\ slots[s].phase = "handled" /\ r.method = "initialize"
  BY DEF Initialize
<1>2. /\ slots[s] \in Slot /\ r \in Requests /\ ~Turned(r.auth)
      /\ slots[s].stamp \subseteq DOMAIN sessions
  BY <1>1, HandlerShows
<1>3. r.client \in STRING /\ Negotiated(r.asked) \in Handshakes
  <2>1. r.client \in STRING /\ r.asked \in Served \cup {Unserved} BY <1>2, RequestsAssumption
  <2> QED BY <2>1 DEF Negotiated, Served, Handshakes, PerRequestFrom, Default, Unserved
<1>4. sessions' = [id \in DOMAIN sessions |->
                     IF id \in slots[s].stamp THEN greet(sessions[id]) ELSE sessions[id]]
  BY DEF Initialize
<1>5. sessions \in Seq(Session)
      /\ \A id \in DOMAIN sessions : sessions[id].client \subseteq sessions[id].greeted
  BY DEF HttpInv, SessionsOk
<1>6. \A x \in Session : /\ greet(x) \in Session /\ greet(x).client = {r.client}
                         /\ greet(x).greeted = x.greeted \cup {r.client}
  BY <1>3 DEF Session
<1> HIDE DEF greet
<1>7. /\ DOMAIN sessions' = DOMAIN sessions /\ DOMAIN sessions = 1 .. Len(sessions)
      /\ \A id \in DOMAIN sessions : sessions[id] \in Session /\ sessions'[id] \in Session
  BY <1>4, <1>5, <1>6
<1>8. sessions' \in Seq(Session)
  <2>1. Len(sessions) \in Nat BY <1>5
  <2>2. sessions' \in [1 .. Len(sessions) -> Session] BY <1>4, <1>7
  <2> QED BY <2>1, <2>2
<1>9. SessionsGrow /\ SessionsOk'
  BY <1>4, <1>5, <1>6, <1>7, <1>8 DEF SessionsGrow, SessionsOk
<1>10. \A id \in slots[s].stamp : sessions'[id].client = {r.client}
  BY <1>2, <1>4, <1>6, <1>7
<1>11. slots' = [slots EXCEPT ![s] = d] BY DEF Initialize
<1>12. record \in [session : SUBSET Nat, client : SUBSET STRING] BY <1>2, <1>3 DEF Slot
<1>13. d \in Slot
  <2> HIDE DEF record
  <2> QED BY <1>2, <1>12 DEF Slot, Answers
<1>14. /\ d.phase = "done" /\ d.request = r /\ d.stamp = slots[s].stamp /\ d.scope = slots[s].scope
       /\ d.answer = "initialized" /\ d.record = {record} /\ slots'[s] = d
  BY <1>2, <1>11 DEF HttpInv, Slot
<1>15. record.session = slots[s].stamp /\ record.client = {r.client} OBVIOUS
<1> HIDE DEF d, record
<1>16. Known(s)' BY <1>1, <1>14, <1>15 DEF Known
<1>17. Shown(s)' BY <1>1, <1>2, <1>14, SameFront DEF Shown
<1> QED BY <1>1, <1>9, <1>11, <1>13, <1>14, <1>16, <1>17, Handled

LEMMA CallToolKeeps ==
  ASSUME HttpInv, NEW s \in Slots, CallTool(s) PROVE HttpInv'
<1> DEFINE r == slots[s].request
           answer == IF Lifecycle(r) = "OutOfContract" THEN "out of contract"
                     ELSE IF Reaches(r.tool, slots[s].scope) /\ r.tool \in routed
                     THEN "dispatched" ELSE "tool not found"
           record == [session |-> slots[s].stamp, client |-> ClientOf(s)]
           d == [slots[s] EXCEPT !.phase = "done", !.answer = answer, !.record = {record}]
<1>1. /\ UNCHANGED startVars /\ UNCHANGED sessions /\ slots[s].phase = "handled"
      /\ slots' = [slots EXCEPT ![s] = d]
  BY DEF CallTool
<1>2. /\ slots[s] \in Slot /\ r \in Requests /\ ~Turned(r.auth)
      /\ slots[s].stamp \subseteq DOMAIN sessions /\ Listed(slots[s].scope) = Entitled(r)
  BY <1>1, HandlerShows
<1>3. SessionsOk' /\ SessionsGrow BY <1>1, SessionsStand DEF HttpInv
<1>4. \A c \in ClientOf(s) :
        \/ c = r.client /\ Lifecycle(r) = "PerRequest"
        \/ \E id \in slots[s].stamp : c \in sessions[id].greeted
  <2>1. \A p \in Peer(s) : \E id \in slots[s].stamp : p = sessions[id] /\ p.client \subseteq p.greeted
    BY <1>2 DEF Peer, HttpInv, SessionsOk
  <2> QED BY <2>1 DEF ClientOf
<1>5. ClientOf(s) \in SUBSET STRING
  <2>1. r.client \in STRING BY <1>2, RequestsAssumption
  <2>2. \A id \in DOMAIN sessions : sessions[id].greeted \in SUBSET STRING
    BY SessionsTyped
  <2> QED BY <1>2, <1>4, <2>1, <2>2
<1>6. record \in [session : SUBSET Nat, client : SUBSET STRING] BY <1>2, <1>5 DEF Slot
<1>7. record.session = slots[s].stamp /\ record.client = ClientOf(s) OBVIOUS
<1>8. /\ answer \in {"out of contract", "dispatched", "tool not found"}
      /\ answer = "dispatched" => r.tool \in Entitled(r)
      /\ answer = "tool not found" => r.tool \notin Entitled(r)
  BY <1>2 DEF Listed, HttpInv, StartInv, Surface
<1> HIDE DEF record, answer
<1>9. d \in Slot BY <1>2, <1>6, <1>8 DEF Slot, Answers
<1>10. /\ d.phase = "done" /\ d.request = r /\ d.stamp = slots[s].stamp /\ d.scope = slots[s].scope
       /\ d.answer = answer /\ d.record = {record} /\ slots'[s] = d
  BY <1>1, <1>2 DEF HttpInv, Slot
<1> HIDE DEF d
<1>11. Known(s)' BY <1>1, <1>4, <1>7, <1>8, <1>10, ZenonT(30) DEF Known
<1>12. Shown(s)' BY <1>1, <1>2, <1>8, <1>10, SameFront DEF Shown
<1> QED BY <1>1, <1>3, <1>9, <1>10, <1>11, <1>12, Handled

LEMMA ListToolsKeeps ==
  ASSUME HttpInv, NEW s \in Slots, ListTools(s) PROVE HttpInv'
<1> DEFINE r == slots[s].request
           revision == IF r.declared # {} THEN r.declared ELSE UNION {p.revision : p \in Peer(s)}
           hinted == \E v \in revision : v >= PerRequestFrom
<1>1. /\ UNCHANGED startVars /\ UNCHANGED sessions /\ slots[s].phase = "handled"
      /\ \/ /\ Lifecycle(r) = "OutOfContract"
            /\ slots' = [slots EXCEPT ![s].phase = "done", ![s].answer = "out of contract"]
         \/ /\ Lifecycle(r) # "OutOfContract"
            /\ slots' = [slots EXCEPT ![s].phase = "done", ![s].answer = "listed",
                           ![s].listed = Listed(slots[s].scope), ![s].hinted = hinted]
  BY DEF ListTools
<1>2. /\ slots[s] \in Slot /\ r \in Requests /\ ~Turned(r.auth) /\ slots[s].record = {}
      /\ slots[s].stamp \subseteq DOMAIN sessions /\ Listed(slots[s].scope) = Entitled(r)
  BY <1>1, HandlerShows
<1>3. SessionsOk' /\ SessionsGrow BY <1>1, SessionsStand DEF HttpInv
<1>4. CASE slots' = [slots EXCEPT ![s].phase = "done", ![s].answer = "out of contract"]
  <2> DEFINE d == [slots[s] EXCEPT !.phase = "done", !.answer = "out of contract"]
  <2>1. slots' = [slots EXCEPT ![s] = d] BY <1>4
  <2>2. d \in Slot BY <1>2 DEF Slot, Answers
  <2>3. /\ d.phase = "done" /\ d.request = r /\ d.stamp = slots[s].stamp /\ d.scope = slots[s].scope
        /\ d.answer = "out of contract" /\ d.record = {} /\ slots'[s] = d
    BY <1>2, <2>1 DEF HttpInv, Slot
  <2> HIDE DEF d
  <2>4. Known(s)' BY <2>3 DEF Known
  <2>5. Shown(s)' BY <1>1, <1>2, <2>3, SameFront DEF Shown
  <2> QED BY <1>1, <1>3, <2>1, <2>2, <2>3, <2>4, <2>5, Handled
<1>5. CASE /\ Lifecycle(r) # "OutOfContract"
           /\ slots' = [slots EXCEPT ![s].phase = "done", ![s].answer = "listed",
                           ![s].listed = Listed(slots[s].scope), ![s].hinted = hinted]
  <2> DEFINE d == [slots[s] EXCEPT !.phase = "done", !.answer = "listed",
                                   !.listed = Listed(slots[s].scope), !.hinted = hinted]
  <2>1. slots' = [slots EXCEPT ![s] = d] BY <1>5
  <2>2. Listed(slots[s].scope) \in SUBSET Tools BY <1>2 DEF Entitled
  <2>3. hinted <=> Lifecycle(r) = "PerRequest"
    <3>1. CASE r.declared # {} BY <1>5, <3>1 DEF Lifecycle
    <3>2. CASE r.declared = {}
      <4>1. Lifecycle(r) = "Handshake" BY <3>2 DEF Lifecycle
      <4>2. \A p \in Peer(s) : p.revision \subseteq Handshakes
        BY <1>2, SessionsTyped DEF Peer
      <4>3. \A v \in revision : v \in Handshakes BY <3>2, <4>2
      <4> QED BY <4>1, <4>3 DEF Handshakes, PerRequestFrom
    <3> QED BY <3>1, <3>2
  <2>4. hinted \in BOOLEAN OBVIOUS
  <2> HIDE DEF hinted
  <2>5. d \in Slot BY <1>2, <2>2, <2>4 DEF Slot, Answers
  <2>6. /\ d.phase = "done" /\ d.request = r /\ d.stamp = slots[s].stamp /\ d.scope = slots[s].scope
        /\ d.answer = "listed" /\ d.record = {} /\ d.listed = Entitled(r) /\ d.hinted = hinted
        /\ slots'[s] = d
    BY <1>2, <2>1 DEF HttpInv, Slot
  <2> HIDE DEF d
  <2>7. Known(s)' BY <2>3, <2>6 DEF Known
  <2>8. Shown(s)' BY <1>1, <1>2, <2>6, SameFront DEF Shown
  <2> QED BY <1>1, <1>3, <2>1, <2>5, <2>6, <2>7, <2>8, Handled
<1> QED BY <1>1, <1>4, <1>5

LEMMA HttpStep == HttpInv /\ [Next]_frontVars => HttpInv'
<1> SUFFICES ASSUME HttpInv, [Next]_frontVars PROVE HttpInv' OBVIOUS
<1>1. CASE OverHttp
  BY <1>1, ArriveKeeps, DeliverKeeps, InitializeKeeps, CallToolKeeps, ListToolsKeeps,
     CloseSessionKeeps
     DEF OverHttp, HttpNext
<1>2. CASE Starting
  <2>1. StartInv' /\ UNCHANGED httpVars BY <1>2, StartStep DEF Starting, HttpInv, Next
  <2>2. step # "serving" BY <1>2, NextStep
        DEF Starting, StartNext, Check, Preflight, Export, Digest, Open, Serve, ConfigurationSteps
  <2>3. \A s \in Slots : slots[s] = Idle BY <2>2 DEF HttpInv, SlotOk, Serving
  <2> QED BY <2>1, <2>3 DEF HttpInv, SessionsOk, SlotOk, httpVars
<1>3. CASE UNCHANGED <<startVars, httpVars>>
  <2>1. SessionsOk' /\ SessionsGrow BY <1>3, SessionsStand DEF HttpInv, httpVars
  <2>2. \A s \in Slots : SlotOk(s)' BY <1>3, <2>1, SlotStands DEF HttpInv, httpVars
  <2>3. StartInv' BY <1>3, ServingKeepsStart DEF HttpInv
  <2> QED BY <1>3, <2>1, <2>2, <2>3 DEF HttpInv, httpVars
<1> QED BY <1>1, <1>2, <1>3 DEF Next, OverStdio, frontVars

LEMMA HttpAlways == Spec => []HttpInv
<1>1. Init => HttpInv BY HttpHolds
<1>2. HttpInv /\ [Next]_frontVars => HttpInv' BY HttpStep
<1> QED BY <1>1, <1>2, PTL DEF Spec

\* What is listed, dispatched and refused agrees with the one credential the
\* request carries, whatever sessions and requests there are.
THEOREM SurfaceCorrect == Spec => []SurfaceIsTheCredentials
<1>1. HttpInv => SurfaceIsTheCredentials
  <2> SUFFICES ASSUME HttpInv, NEW s \in Done
               PROVE  LET r == slots[s].request
                          a == slots[s].answer
                      IN  /\ a = "listed" => slots[s].listed = Entitled(r)
                          /\ a = "dispatched" => r.tool \in Entitled(r)
                          /\ a = "tool not found" => r.tool \notin Entitled(r)
                          /\ Tokens # {} /\ ~Carries(r, Tokens) => a = "unauthorized"
    BY DEF SurfaceIsTheCredentials
  <2>1. slots[s] \in Slot /\ slots[s] # Idle BY DEF HttpInv, Idle, Slot, Done
  <2>2. Serving("http") /\ StartInv /\ Shown(s) BY <2>1 DEF HttpInv, SlotOk, Done
  <2>3. slots[s].request \in Requests BY <2>1 DEF Slot
  <2> QED BY <2>2, <2>3, GateIsTheCredentials DEF Shown
<1> QED BY <1>1, HttpAlways, PTL

\* A record names no session and no client it cannot vouch for, and no
\* session speaks anything but the handshake.
THEOREM CallersCorrect == Spec => []CallersAreKnown
<1>1. HttpInv => CallersAreKnown
  <2> SUFFICES ASSUME HttpInv PROVE CallersAreKnown OBVIOUS
  <2>1. ASSUME NEW s \in Done
        PROVE  /\ slots[s] \in Slot /\ slots[s].request \in Requests /\ Passed(s) /\ Known(s)
    <3>1. s \in Slots /\ slots[s] \in Slot /\ slots[s] # Idle /\ slots[s].phase = "done"
      BY DEF HttpInv, Idle, Slot, Done
    <3> QED BY <3>1 DEF HttpInv, SlotOk, Slot
  <2>2. ASSUME NEW s \in Done, NEW record \in slots[s].record
        PROVE  LET r == slots[s].request
               IN  /\ \A id \in record.session :
                        /\ id \in DOMAIN sessions /\ ~Stateless(r)
                        /\ r.sid # {} => r.sid = {id}
                   /\ \A c \in record.client :
                        \/ c = r.client /\ (Lifecycle(r) = "PerRequest" \/ r.method = "initialize")
                        \/ \E id \in record.session : c \in sessions[id].greeted
    <3> DEFINE r == slots[s].request
    <3>1. Passed(s) /\ Known(s) /\ r \in Requests BY <2>1
    <3>2. record.session = slots[s].stamp BY <3>1 DEF Known
    <3>3. ASSUME NEW id \in record.session
          PROVE  id \in DOMAIN sessions /\ ~Stateless(r) /\ (r.sid # {} => r.sid = {id})
      <4>1. id \in DOMAIN sessions /\ ~Stateless(r) /\ (r.sid # {} => id \in r.sid)
        BY <3>1, <3>2 DEF Passed
      <4>2. \A x, y \in r.sid : x = y BY <3>1, RequestsAssumption
      <4> QED BY <4>1, <4>2
    <3> QED BY <3>1, <3>2, <3>3 DEF Known
  <2>3. RecordNamesItsCaller BY <2>2 DEF RecordNamesItsCaller
  <2>4. \A id \in DOMAIN sessions : sessions[id].revision \subseteq Handshakes BY SessionsTyped
  <2>5. SessionsSpeakTheHandshake BY <2>1, <2>4 DEF SessionsSpeakTheHandshake, Known
  <2> QED BY <2>3, <2>5 DEF CallersAreKnown
<1> QED BY <1>1, HttpAlways, PTL
=============================================================================
