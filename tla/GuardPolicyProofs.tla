--------------------------- MODULE GuardPolicyProofs ---------------------------
(***************************************************************************)
(* Classification fails closed: whatever metadata cannot be read, the      *)
(* policy grants nothing it would not grant knowing all of it.             *)
(***************************************************************************)
EXTENDS GuardPolicy, WellFoundedInduction, TLAPS

\* One reading knows no more than another, and agrees with it.
KnowsLess(r, meta) ==
  /\ \A f \in Fields : r.text[f] \subseteq meta.text[f]
  /\ r.created \subseteq meta.created
  /\ r.mine \subseteq meta.mine

\* What from_json reads of a bug is part of what the bug is.
LEMMA ReadingKnowsLess ==
  ASSUME NEW meta \in CompleteMeta, NEW blind, NEW resolved \in BOOLEAN
  PROVE  KnowsLess(FromJson(meta, blind, resolved), meta)
BY DEF KnowsLess, FromJson

\* A rule ruled out on part of the metadata is ruled out on all of it: the
\* early return of evaluate() on a definitive No is sound.
LEMMA ExcludedStays ==
  ASSUME NEW m \in Matcher, NEW r, NEW meta, NEW now, KnowsLess(r, meta),
         Excluded(m, r, now)
  PROVE  Excluded(m, meta, now)
<1>1. \A c \in m.criteria : c.field \in Fields
  BY DEF Matcher
<1>2. CASE \E c \in m.criteria : \E v \in r.text[c.field] : v \notin c.accepts
  BY <1>1, <1>2 DEF Excluded, KnowsLess
<1>3. CASE \E want \in m.mine : \E is \in r.mine : is # want
  BY <1>3 DEF Excluded, KnowsLess
<1>4. CASE \E days \in m.younger : \E ct \in r.created : \E cutoff \in Cutoff(now, days) :
             ct <= cutoff
  BY <1>4 DEF Excluded, KnowsLess
<1>. QED
  BY <1>2, <1>3, <1>4 DEF Excluded

\* Nothing about a completely known bug is undecided.
LEMMA CompleteIsDecided ==
  ASSUME NEW m \in Matcher, NEW meta \in CompleteMeta
  PROVE  ~Undecided(m, meta)
<1>1. \A c \in m.criteria : c.field \in Fields
  BY DEF Matcher
<1>2. \A f \in Fields : meta.text[f] # {}
  BY DEF CompleteMeta
<1>3. meta.created # {} /\ meta.mine # {}
  BY DEF CompleteMeta
<1>. QED
  BY <1>1, <1>2, <1>3 DEF Undecided

\* A rule that holds on what was read, nothing of it being undecided, holds
\* on all the metadata.
LEMMA DecidedIsFinal ==
  ASSUME NEW m \in Matcher, NEW meta \in CompleteMeta, NEW r, NEW now,
         KnowsLess(r, meta), ~Undecided(m, r), Excluded(m, meta, now)
  PROVE  Excluded(m, r, now)
<1>1. \A c \in m.criteria : c.field \in Fields
  BY DEF Matcher
<1>2. ASSUME NEW f \in Fields, r.text[f] # {} PROVE r.text[f] = meta.text[f]
  <2>1. r.text[f] \subseteq meta.text[f]
    BY DEF KnowsLess
  <2>2. PICK v \in Values : meta.text[f] = {v}
    BY DEF CompleteMeta
  <2>. QED
    BY <1>2, <2>1, <2>2
<1>3. r.created # {} => r.created = meta.created
  <2>1. PICK t \in Instants : meta.created = {t}
    BY DEF CompleteMeta
  <2>2. r.created \subseteq meta.created
    BY DEF KnowsLess
  <2>. QED
    BY <2>1, <2>2
<1>4. r.mine # {} => r.mine = meta.mine
  <2>1. meta.mine = {TRUE} \/ meta.mine = {FALSE}
    BY DEF CompleteMeta
  <2>2. r.mine \subseteq meta.mine
    BY DEF KnowsLess
  <2>3. CASE meta.mine = {TRUE}
    BY <2>2, <2>3, Zenon
  <2>4. CASE meta.mine = {FALSE}
    BY <2>2, <2>4, Zenon
  <2>. QED
    BY <2>1, <2>3, <2>4
<1>5. CASE \E c \in m.criteria : \E v \in meta.text[c.field] : v \notin c.accepts
  <2>1. PICK c \in m.criteria : \E v \in meta.text[c.field] : v \notin c.accepts
    BY <1>5
  <2>2. r.text[c.field] = meta.text[c.field]
    BY <1>1, <1>2 DEF Undecided
  <2>. QED
    BY <2>1, <2>2 DEF Excluded
<1>6. CASE \E want \in m.mine : \E is \in meta.mine : is # want
  <2>1. r.mine = meta.mine
    BY <1>4, <1>6 DEF Undecided
  <2>. QED
    BY <1>6, <2>1 DEF Excluded
<1>7. CASE \E days \in m.younger : \E ct \in meta.created : \E cutoff \in Cutoff(now, days) :
             ct <= cutoff
  <2>1. r.created = meta.created
    BY <1>3, <1>7 DEF Undecided
  <2>. QED
    BY <1>7, <2>1 DEF Excluded
<1>. QED
  BY <1>5, <1>6, <1>7 DEF Excluded

\* The two ways a partial reading settles a rule are the ways all of the
\* metadata settles it.
LEMMA EvaluateAgrees ==
  ASSUME NEW m \in Matcher, NEW meta \in CompleteMeta, NEW r, NEW now, KnowsLess(r, meta)
  PROVE  /\ Evaluate(m, r, now) = "no" => Evaluate(m, meta, now) = "no"
         /\ Evaluate(m, r, now) = "yes" => Evaluate(m, meta, now) = "yes"
<1>1. Excluded(m, r, now) => Excluded(m, meta, now)
  BY ExcludedStays
<1>2. ~Undecided(m, r) /\ Excluded(m, meta, now) => Excluded(m, r, now)
  BY DecidedIsFinal
<1>3. ~Undecided(m, meta)
  BY CompleteIsDecided
<1>. QED
  BY <1>1, <1>2, <1>3 DEF Evaluate

\* A set of rule indices has a first element.
LEMMA FirstExists ==
  ASSUME NEW S, S \subseteq Nat, S # {}
  PROVE  \E i \in S : \A j \in S : i <= j
<1>1. PICK i \in S : \A j \in S : ~ (<<j, i>> \in OpToRel(<, Nat))
  BY NatLessThanWellFounded, WFMin
<1>2. ASSUME NEW j \in S PROVE i <= j
  <2>1. i \in Nat /\ j \in Nat
    OBVIOUS
  <2>2. ~(j < i)
    BY <1>1, <2>1 DEF OpToRel
  <2>. QED
    BY <2>1, <2>2
<1>. QED
  BY <1>2

\* When some rule is consulted, one is the first, and it is the decider.
LEMMA DeciderIsFirst ==
  ASSUME NEW policy \in Policy, NEW bug, NEW now, NEW op, Consulted(policy, bug, now, op) # {}
  PROVE  /\ Decider(policy, bug, now, op) \in Consulted(policy, bug, now, op)
         /\ \A j \in Consulted(policy, bug, now, op) : Decider(policy, bug, now, op) <= j
<1>1. Consulted(policy, bug, now, op) \subseteq Nat
  <2>1. policy.rules \in Seq(Rule)
    BY DEF Policy
  <2>. QED
    BY <2>1 DEF Consulted
<1>. QED
  BY <1>1, FirstExists DEF Decider

\* The capabilities granted on a reading that knows less are among those
\* granted on all of the metadata.
LEMMA KnowingLessGrantsLess ==
  ASSUME NEW policy \in Policy, NEW meta \in CompleteMeta, NEW r, KnowsLess(r, meta),
         NEW now \in Int, NEW op \in Operation
  PROVE  Classify(policy, r, now, op) \subseteq Classify(policy, meta, now, op)
<1>. DEFINE Cr == Consulted(policy, r, now, op)
            Cm == Consulted(policy, meta, now, op)
<1>2. policy.rules \in Seq(Rule) /\ \A i \in DOMAIN policy.rules :
        policy.rules[i].matcher \in Matcher /\ i \in Nat
  <2>1. policy.rules \in Seq(Rule)
    BY DEF Policy
  <2>2. \A i \in DOMAIN policy.rules : policy.rules[i] \in Rule /\ i \in Nat
    BY <2>1
  <2>. QED
    BY <2>1, <2>2 DEF Rule
<1>3. TooYoung(policy, meta, now) => TooYoung(policy, r, now)
  BY DEF TooYoung, KnowsLess
<1>4. \A i \in DOMAIN policy.rules :
        /\ Evaluate(policy.rules[i].matcher, r, now) = "no"
             => Evaluate(policy.rules[i].matcher, meta, now) = "no"
        /\ Evaluate(policy.rules[i].matcher, r, now) = "yes"
             => Evaluate(policy.rules[i].matcher, meta, now) = "yes"
  BY <1>2, EvaluateAgrees
<1>5. Cm \subseteq Cr
  BY <1>4 DEF Consulted
<1>6. CASE TooYoung(policy, r, now)
  BY <1>6 DEF Classify
<1>7. CASE ~TooYoung(policy, r, now) /\ Cr = {}
  <2>1. Cm = {}
    BY <1>5, <1>7
  <2>. QED
    BY <1>3, <1>7, <2>1 DEF Classify
<1>8. CASE ~TooYoung(policy, r, now) /\ Cr # {}
  <2>. DEFINE i == Decider(policy, r, now, op)
  <2>1. i \in Cr /\ \A j \in Cr : i <= j
    BY <1>8, DeciderIsFirst
  <2>2. i \in DOMAIN policy.rules /\ i \in Nat
    BY <2>1, <1>2 DEF Consulted
  <2>3. Classify(policy, r, now, op) = Verdict(policy, r, now, i)
    BY <1>8 DEF Classify
  <2>. HIDE DEF i
  <2>4. CASE Evaluate(policy.rules[i].matcher, r, now) = "yes"
    <3>1. Evaluate(policy.rules[i].matcher, meta, now) = "yes"
      BY <1>4, <2>2, <2>4
    <3>2. i \in Cm
      BY <2>1, <2>2, <3>1 DEF Consulted
    <3>3. Decider(policy, meta, now, op) = i
      <4>1. /\ Decider(policy, meta, now, op) \in Cm
            /\ \A j \in Cm : Decider(policy, meta, now, op) <= j
        BY <3>2, DeciderIsFirst
      <4>2. Decider(policy, meta, now, op) \in Nat
        BY <4>1, <1>2 DEF Consulted
      <4>. QED
        BY <4>1, <4>2, <3>2, <2>1, <2>2, <1>5
    <3>4. Classify(policy, meta, now, op) = Verdict(policy, meta, now, i)
      BY <1>3, <1>8, <3>2, <3>3 DEF Classify
    <3>5. Verdict(policy, meta, now, i) = Verdict(policy, r, now, i)
      BY <2>4, <3>1 DEF Verdict
    <3>. QED
      BY <2>3, <3>4, <3>5
  <2>5. CASE Evaluate(policy.rules[i].matcher, r, now) = "unknown"
    <3>1. Verdict(policy, r, now, i) = {}
      BY <2>5 DEF Verdict
    <3>. QED
      BY <2>3, <3>1
  <2>6. Evaluate(policy.rules[i].matcher, r, now) \in {"yes", "unknown"}
    BY <2>1 DEF Consulted, Evaluate
  <2>. QED
    BY <2>4, <2>5, <2>6
<1>. QED
  BY <1>6, <1>7, <1>8

\* Fail closed (I4): the capabilities granted on a partial reading of a bug
\* are among those granted knowing all of it, whatever the policy, the
\* operation and the fields that could not be read.
THEOREM FailsClosed ==
  ASSUME NEW policy \in Policy, NEW meta \in CompleteMeta, NEW blind,
         NEW resolved \in BOOLEAN, NEW now \in Int, NEW op \in Operation
  PROVE  Classify(policy, FromJson(meta, blind, resolved), now, op)
           \subseteq Classify(policy, meta, now, op)
BY ReadingKnowsLess, KnowingLessGrantsLess

\* A reading of every field, with the login the policy asks for, is as good
\* as all of the metadata: where no rule in scope asks who filed the bug, not
\* knowing changes nothing.
LEMMA FullReadingIsExact ==
  ASSUME NEW policy \in Policy, NEW meta \in CompleteMeta, NEW resolved \in BOOLEAN,
         NEW now, NeedsIdentity(policy) => resolved
  PROVE  Classify(policy, FromJson(meta, {}, resolved), now, "access")
           = Classify(policy, meta, now, "access")
<1>. DEFINE r == FromJson(meta, {}, resolved)
            Cr == Consulted(policy, r, now, "access")
            Cm == Consulted(policy, meta, now, "access")
<1>1. r.text = meta.text /\ r.created = meta.created /\ (resolved => r.mine = meta.mine)
  BY DEF FromJson, CompleteMeta
<1>2. ASSUME NEW i \in DOMAIN policy.rules, AppliesTo(policy.rules[i], "access")
      PROVE  Evaluate(policy.rules[i].matcher, r, now)
               = Evaluate(policy.rules[i].matcher, meta, now)
  <2>. DEFINE m == policy.rules[i].matcher
  <2>1. m.mine = {} \/ r.mine = meta.mine
    BY <1>1, <1>2 DEF NeedsIdentity
  <2>. HIDE DEF m, r
  <2>2. Excluded(m, r, now) <=> Excluded(m, meta, now)
    BY <1>1, <2>1 DEF Excluded
  <2>3. Undecided(m, r) <=> Undecided(m, meta)
    BY <1>1, <2>1 DEF Undecided
  <2>4. Evaluate(m, r, now) = Evaluate(m, meta, now)
    BY <2>2, <2>3 DEF Evaluate
  <2>. QED
    BY <2>4 DEF m, r
<1>. HIDE DEF r
<1>3. Cr = Cm
  BY <1>2 DEF Consulted
<1>4. TooYoung(policy, r, now) <=> TooYoung(policy, meta, now)
  BY <1>1 DEF TooYoung
<1>5. Decider(policy, r, now, "access") = Decider(policy, meta, now, "access")
  BY <1>3 DEF Decider
<1>6. ASSUME Cm # {}
      PROVE  Verdict(policy, r, now, Decider(policy, meta, now, "access"))
               = Verdict(policy, meta, now, Decider(policy, meta, now, "access"))
  <2>1. Decider(policy, meta, now, "access") \in Cm
    BY <1>6, DeciderIsFirst
  <2>. DEFINE i == Decider(policy, meta, now, "access")
  <2>2. i \in DOMAIN policy.rules /\ AppliesTo(policy.rules[i], "access")
    BY <2>1 DEF Consulted
  <2>. HIDE DEF i
  <2>3. Verdict(policy, r, now, i) = Verdict(policy, meta, now, i)
    BY <1>2, <2>2 DEF Verdict
  <2>. QED
    BY <2>3 DEF i
<1>7. Classify(policy, r, now, "access") = Classify(policy, meta, now, "access")
  BY <1>3, <1>4, <1>5, <1>6 DEF Classify
<1>. QED
  BY <1>7 DEF r

\* read_only strips every write from every grant (I9), on any reading.
THEOREM ReadOnlyGrantsNoWrite ==
  ASSUME NEW policy \in Policy, policy.read_only, NEW bug, NEW now, NEW op
  PROVE  Classify(policy, bug, now, op) \cap WriteCaps = {}
BY DEF Classify, DefaultVerdict, Verdict, Grant
=============================================================================
