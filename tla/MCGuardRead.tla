------------------------------ MODULE MCGuardRead ------------------------------
(* One call of any read tool (GuardRead and GuardViews) on an instance of  *)
(* two bugs, a bug of three versions or none, and four policies, one per   *)
(* shape of rule the classification treats differently.                    *)
EXTENDS GuardViews, PolicySamples

CONSTANTS b1, b2

MCFields == {"product", "groups"}
MCValues == {"tools", "kernel", "security"}

Both == {b1, b2}

MCWorlds == {[meta |-> Public, links |-> Both], [meta |-> OwnRestricted, links |-> {}],
             [meta |-> KernelRecent, links |-> Both], Gone}

MCPolicies ==
  { PolicyOf(<<Embargo, SummaryOfKernel>>, "allow", 2, FALSE),
    PolicyOf(<<OwnBugs, Embargo, NotOthers>>, "allow", 0, TRUE),
    PolicyOf(<<FilingOnly, ReadTools, ThreadsOfTools>>, "deny", 0, FALSE),
    PolicyOf(<<Fresh, Embargo>>, "allow", 0, FALSE) }

Symmetry == Permutations({b1, b2})

MCInstants == -5 .. 9

MCBlinds == {{}, {"product", "creation_time"}, {"groups", "creator"}}

Request(tool, private, head, tail) ==
  {[tool |-> tool, bug |-> b, include_private |-> private, head |-> head, tail |-> tail] :
     b \in Bugs}

MCViewRequests ==
  Request("bug_comments", TRUE, {1}, {1}) \cup Request("summarize_bug", FALSE, {}, {})
  \cup Request("bug_history", FALSE, {1}, {1})
  \cup Request("list_attachments", TRUE, {}, {})
  \cup Request("download_attachment", FALSE, {1}, {})

MCGlobals == {[allow_private_comments |-> FALSE, max_attachment_bytes |-> 0],
              [allow_private_comments |-> TRUE, max_attachment_bytes |-> 5]}

PartOf(field, pieces) == [field |-> field, pieces |-> pieces]
ItemOf(private, parts) == [private |-> private, parts |-> parts]

\* A private comment that names bugs beside a public one that does not, and
\* the other way round.
Comments ==
  { << ItemOf({FALSE}, {}), ItemOf({TRUE}, {PartOf("marker", Both)}), ItemOf({}, {}) >>,
    << ItemOf({}, {PartOf("marker", Both)}), ItemOf({TRUE}, {}), ItemOf({FALSE}, {}),
       ItemOf({FALSE}, {}) >> }

MCThreads ==
  [ bug_comments |-> Comments,
    summarize_bug |-> Comments,
    bug_history |->
      {<<ItemOf({}, {PartOf("list", Both \cup {Foreign}), PartOf("plain", {Foreign})}),
         ItemOf({}, {PartOf("cf_bug", {b1}), PartOf("cf_bug", {b2}), PartOf("cf_text", Both)}),
         ItemOf({}, {PartOf("url", Both)})>>,
       <<ItemOf({}, {PartOf("cf_list", Both)}), ItemOf({}, {}),
         ItemOf({}, {PartOf("cf_bug", {Foreign}), PartOf("list", {})}),
         ItemOf({}, {PartOf("list", Both), PartOf("plain", Both)})>>},
    list_attachments |-> {<<ItemOf({TRUE}, {}), ItemOf({FALSE}, {}), ItemOf({}, {})>>} ]

FileOf(owner, private, size, real, data) ==
  [owner |-> owner, private |-> private, size |-> size, real |-> real, data |-> data]

MCFiles ==
  UNION {{FileOf({b}, {FALSE}, {3}, 3, TRUE), FileOf({b}, {FALSE}, {3}, 9, TRUE),
          FileOf({b}, {}, {3}, 3, FALSE)} : b \in Bugs}
  \cup {FileOf({}, {FALSE}, {}, 3, TRUE)}

MCFieldKinds == [cf_bug |-> "BugId", cf_list |-> "BugList", cf_text |-> "Other"]

\* One was free text before it was made anew to hold a bug, another held bugs.
MCOutdated == [cf_bug |-> {"Other"}, cf_list |-> {"BugId"}, cf_text |-> {"BugList"}]
=============================================================================
