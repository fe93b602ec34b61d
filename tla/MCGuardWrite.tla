----------------------------- MODULE MCGuardWrite -----------------------------
(* GuardWrite on an instance of two bugs, two custom fields, four records  *)
(* of a bug and seven policies, with one request per way a tool's payload  *)
(* can name a bug or be refused.                                           *)
EXTENDS GuardWrite, PolicySamples

MCBugs == {1, 2}
MCFields == {"product", "groups", "keywords", "priority"}
MCValues == {"tools", "kernel", "security", "kernel with an accent"}

\* A bug of PolicySamples with the fields only a create is judged by.
Whole(meta) ==
  [meta EXCEPT !.text = [f \in MCFields |-> IF f \in {"keywords", "priority"} THEN {"tools"}
                                            ELSE meta.text[f]]]
MCWorlds == {Whole(Public), Whole(OwnRestricted), Whole(KernelRecent), Gone}
MCInstants == -5 .. 9
MCBlinds == {{}, {"product", "creator"}}

MCCustomFields == {"cf_one", "cf_two"}
MCSchemas == {[cf_one |-> "BugId", cf_two |-> "Other"], [cf_one |-> "BugList", cf_two |-> "BugId"]}

MCNames == MCValues \cup {"kernel and a space", OddName}
MCTrimmed == [n \in MCNames \ {OddName} |-> IF n = "kernel and a space" THEN "kernel" ELSE n]

\* The collation calls the accented spelling equal to the stored one.
MCCollated == [v \in MCValues |-> IF v = "kernel with an accent" THEN {"kernel"} ELSE {v}]

NoSecurityKeyword ==
  RuleOf(On({In("keywords", {"security"})}, {}, {}), "deny", {}, {"create"})

MCPolicies ==
  { PolicyOf(<<Embargo>>, "allow", 0, FALSE),
    PolicyOf(<<TriageTools, SummaryOfKernel>>, "deny", 0, FALSE),
    PolicyOf(<<OwnBugs>>, "deny", 0, FALSE),
    PolicyOf(<<FilingOnly>>, "deny", 0, FALSE),
    PolicyOf(<<NoKernel, NoSecurityKeyword>>, "allow", 0, FALSE),
    PolicyOf(<<NoKernel>>, "allow", 1, FALSE),
    PolicyOf(<<NotOthers>>, "allow", 0, TRUE) }

NoFiling == [f \in MCFields |-> {}]
Values1(piece) == [many |-> FALSE, pieces |-> {piece}]
ListOf(pieces) == [many |-> TRUE, pieces |-> pieces]

None == [f \in {} |-> {}]

\* A request with everything left out but what its tool requires.
Bare(tool) ==
  [tool |-> tool, bug |-> 1, adds |-> {}, removes |-> {}, custom |-> None, plain |-> TRUE,
   alien |-> FALSE, big |-> FALSE, keyed |-> TRUE, filing |-> NoFiling]

Fields1(custom) == [Bare("update_bug_fields") EXCEPT !.custom = custom, !.plain = FALSE]
File(product, custom) ==
  [Bare("create_bug") EXCEPT !.filing = [NoFiling EXCEPT !["product"] = {product}],
                             !.custom = custom]

FileTagged(product) == [File(product, None) EXCEPT !.filing["keywords"] = {"tools"}]

MCRequests ==
  {Bare(t) : t \in DOMAIN Needs \ {"mark_as_duplicate", "update_bug_dependencies", "create_bug"}}
  \cup
  { [Bare("add_attachment") EXCEPT !.big = TRUE],
    [Bare("add_comment") EXCEPT !.keyed = FALSE],
    [Bare("update_bug_fields") EXCEPT !.plain = FALSE],
    [Bare("update_bug_fields") EXCEPT !.alien = TRUE, !.custom = [cf_one |-> Values1(2)]],
    [Bare("update_bug_fields") EXCEPT !.adds = {2}],
    [Bare("update_bug_fields") EXCEPT !.removes = {2}],
    Fields1([cf_one |-> Values1(2)]),
    Fields1([cf_one |-> Values1(Clear)]),
    Fields1([cf_one |-> ListOf({2, Clear})]),
    Fields1([cf_two |-> Values1(Odd)]),
    Fields1([cf_one |-> Values1(1), cf_two |-> Values1(2)]),
    [Bare("update_bug_dependencies") EXCEPT !.plain = FALSE],
    [Bare("update_bug_dependencies") EXCEPT !.adds = {2}, !.plain = FALSE],
    [Bare("update_bug_dependencies") EXCEPT !.removes = {1, 2}, !.plain = FALSE],
    [Bare("update_bug_dependencies") EXCEPT !.adds = {1}, !.plain = FALSE],
    [Bare("mark_as_duplicate") EXCEPT !.adds = {2}],
    [Bare("mark_as_duplicate") EXCEPT !.adds = {1}],
    File("tools", None),
    File("kernel", None),
    FileTagged("kernel and a space"),
    FileTagged("kernel with an accent"),
    [File("tools", None) EXCEPT !.filing["keywords"] = {OddName}],
    [File("tools", None) EXCEPT !.filing["keywords"] = {"kernel"},
                                !.filing["priority"] = {"tools"}],
    [File("tools", None) EXCEPT !.filing["groups"] = {"tools"}],
    File("tools", [cf_one |-> Values1(2)]),
    File("kernel", [cf_one |-> Values1(1), cf_two |-> Values1(2)]),
    File("tools", [cf_one |-> ListOf({1, 2})]),
    File("tools", [cf_two |-> Values1(Odd)]),
    [File("tools", [cf_one |-> Values1(1)]) EXCEPT !.alien = TRUE] }
=============================================================================
