------------------------------ MODULE GuardPolicy ------------------------------
(***************************************************************************)
(* The policy engine of bugwarden-core: how one bug's metadata is          *)
(* classified into the capabilities a client gets over it.  Pure           *)
(* operators; GuardRead composes them with a tool call.                    *)
(*                                                                         *)
(* An optional datum is a set with at most one element: {} is the Rust     *)
(* None, "absent or unreadable".  The ten textual criteria are abstracted  *)
(* to [field, accepts]: the criterion holds of the values it accepts,      *)
(* which is what a glob list, a substring list or group_restricted comes   *)
(* down to for one bug.  Days and instants are integers of one unit.       *)
(*                                                                         *)
(* An access decision is the set of capabilities granted: Access::Denied   *)
(* and a grant read_only has emptied allow the same things, nothing.  The  *)
(* name of the deciding rule goes to the audit record only and is left     *)
(* out.                                                                    *)
(***************************************************************************)
EXTENDS Integers, Sequences

CONSTANTS
  Fields,   \* the textual fields of BugMeta the criteria read
  Values,   \* what such a field may hold
  Instants, \* creation times, and spans of days
  Horizon   \* the largest span of days the clock can subtract from now

ASSUME HorizonAssumption == Horizon \in Nat
ASSUME InstantsAssumption == Instants \subseteq Int

ReadCaps == {"read", "summary", "comments", "history", "attachments"}

\* Capability::is_write
WriteCaps == {"comment", "status", "fields", "assign", "cc", "deps", "create", "attach"}

\* Capability::ALL
Capability == ReadCaps \cup WriteCaps

Operation == {"create", "access"}

Option(S) == {{}} \cup {{s} : s \in S}

\* BugMeta
Meta == [text : [Fields -> Option(Values)], created : Option(Instants), mine : Option(BOOLEAN)]

\* A bug all of whose metadata is known.
CompleteMeta == [text : [Fields -> {{v} : v \in Values}], created : {{t} : t \in Instants},
                 mine : {{TRUE}, {FALSE}}]

Matcher == [criteria : SUBSET [field : Fields, accepts : SUBSET Values],
            mine : Option(BOOLEAN), younger : Option(Instants)]

\* Rule; operations = {} is the key left out, and a written empty list.
Rule == [matcher : Matcher, action : {"allow", "deny", "restrict"},
         capabilities : SUBSET Capability, operations : SUBSET Operation]

Policy == [rules : Seq(Rule), default_action : {"allow", "deny"},
           min_bug_age_days : Instants, read_only : BOOLEAN]

-----------------------------------------------------------------------------
(* Matching one rule                                                       *)

\* age_cutoff: None when the span, or the instant it leads to, is not
\* representable.
Cutoff(now, days) == IF days \in -Horizon .. Horizon THEN {now - days} ELSE {}

\* Some criterion that could be read does not hold.
Excluded(m, bug, now) ==
  \/ \E c \in m.criteria : \E v \in bug.text[c.field] : v \notin c.accepts
  \/ \E want \in m.mine : \E is \in bug.mine : is # want
  \/ \E days \in m.younger : \E ct \in bug.created : \E cutoff \in Cutoff(now, days) :
       ct <= cutoff

\* Some criterion reads a field the metadata does not carry.
Undecided(m, bug) ==
  \/ \E c \in m.criteria : bug.text[c.field] = {}
  \/ m.mine # {} /\ bug.mine = {}
  \/ m.younger # {} /\ bug.created = {}

\* Matcher::evaluate: a definitive No wins over an unreadable field.
Evaluate(m, bug, now) ==
  IF Excluded(m, bug, now) THEN "no" ELSE IF Undecided(m, bug) THEN "unknown" ELSE "yes"

\* Rule::applies_to
AppliesTo(rule, op) == rule.operations = {} \/ op \in rule.operations

-----------------------------------------------------------------------------
(* Classifying a bug                                                       *)

\* The min_bug_age_days gate: an unknown age or cutoff counts as too young.
TooYoung(policy, bug, now) ==
  /\ policy.min_bug_age_days > 0
  /\ ~ \E ct \in bug.created : \E cutoff \in Cutoff(now, policy.min_bug_age_days) :
         ct <= cutoff

\* Policy::grant
Grant(policy, caps) == IF policy.read_only THEN caps \ WriteCaps ELSE caps

\* The rules the loop of classify() does not pass over.
Consulted(policy, bug, now, op) ==
  {i \in DOMAIN policy.rules : /\ AppliesTo(policy.rules[i], op)
                               /\ Evaluate(policy.rules[i].matcher, bug, now) # "no"}

\* The first of them.
Decider(policy, bug, now, op) ==
  CHOOSE i \in Consulted(policy, bug, now, op) :
    \A j \in Consulted(policy, bug, now, op) : i <= j

\* What rule i answers once consulted: one that cannot be decided denies,
\* whatever its action.
Verdict(policy, bug, now, i) ==
  LET rule == policy.rules[i]
  IN  CASE \/ rule.action = "deny"
           \/ Evaluate(rule.matcher, bug, now) = "unknown" -> {}
        [] OTHER -> Grant(policy, IF rule.action = "allow" THEN Capability
                                                           ELSE rule.capabilities)

DefaultVerdict(policy) ==
  IF policy.default_action = "allow" THEN Grant(policy, Capability) ELSE {}

\* Policy::classify
Classify(policy, bug, now, op) ==
  IF TooYoung(policy, bug, now) THEN {}
  ELSE IF Consulted(policy, bug, now, op) = {} THEN DefaultVerdict(policy)
  ELSE Verdict(policy, bug, now, Decider(policy, bug, now, op))

\* Access::allows: read implies summary, and nothing else is implied.
Allows(caps, cap) == cap \in caps \/ (cap = "summary" /\ "read" \in caps)

\* Policy::needs_identity
NeedsIdentity(policy) ==
  \E i \in DOMAIN policy.rules :
    AppliesTo(policy.rules[i], "access") /\ policy.rules[i].matcher.mine # {}

-----------------------------------------------------------------------------
(* Reading a bug                                                           *)

\* BugMeta::from_json: `blind` are the fields the JSON does not carry in a
\* readable shape; the authorship needs the caller's login as well.
FromJson(meta, blind, resolved) ==
  [text    |-> [f \in Fields |-> IF f \in blind THEN {} ELSE meta.text[f]],
   created |-> IF "creation_time" \in blind THEN {} ELSE meta.created,
   mine    |-> IF "creator" \in blind \/ ~resolved THEN {} ELSE meta.mine]

=============================================================================
