----------------------------- MODULE PolicySamples -----------------------------
(* Policies and bugs for the instances of the guard's modules: one policy  *)
(* per shape of rule the classification treats differently.                *)
EXTENDS GuardPolicy

Bug(product, group, created, mine) ==
  [text |-> [product |-> {product}, groups |-> {group}], created |-> {created}, mine |-> {mine}]

\* "tools" as a group list stands for an unrestricted bug.
Public == Bug("tools", "tools", -3, FALSE)
OwnRestricted == Bug("tools", "security", -3, TRUE)
KernelRecent == Bug("kernel", "tools", -2, TRUE)   \* crosses the age bound as time passes

On(criteria, mine, younger) == [criteria |-> criteria, mine |-> mine, younger |-> younger]

In(field, accepts) == [field |-> field, accepts |-> accepts]

RuleOf(matcher, action, capabilities, operations) ==
  [matcher |-> matcher, action |-> action, capabilities |-> capabilities,
   operations |-> operations]

PolicyOf(rules, default, age, read_only) ==
  [rules |-> rules, default_action |-> default, min_bug_age_days |-> age,
   read_only |-> read_only]

Embargo == RuleOf(On({In("groups", {"security"})}, {}, {}), "deny", {}, {})
OwnBugs == RuleOf(On({}, {TRUE}, {}), "allow", {}, {})
NotOthers == RuleOf(On({}, {FALSE}, {}), "deny", {}, {"access"})
SummaryOfKernel == RuleOf(On({In("product", {"kernel"})}, {}, {}), "restrict", {"summary"}, {})
FilingOnly == RuleOf(On({In("product", {"tools"})}, {}, {}), "restrict", {"create"}, {"create"})
ReadTools == RuleOf(On({In("product", {"tools"}), In("groups", {"tools"})}, {}, {}),
                    "restrict", {"read", "comment"}, {"access"})
ThreadsOfTools == RuleOf(On({In("product", {"tools"})}, {}, {}), "restrict",
                         {"summary", "comments", "history", "attachments"}, {"access"})
Fresh == RuleOf(On({}, {}, {2}), "deny", {}, {})
NoKernel == RuleOf(On({In("product", {"kernel"})}, {}, {}), "deny", {}, {})
TriageTools == RuleOf(On({In("product", {"tools"})}, {}, {}), "restrict",
                      {"summary", "status", "fields", "deps", "attach"}, {"access"})
=============================================================================
