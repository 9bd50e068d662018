----------------------------- MODULE MCJobMerge -----------------------------
(* Four names: the merged summary of an earlier merge, one conventional    *)
(* name for each of two hosts, the first of which another job's file may   *)
(* also bear (its id begins with this one's and an underscore), and a name *)
(* the user chose.  Checkpoints know no outcome.                           *)
EXTENDS JobMerge

Node(host, exit, partial, peak) ==
  [host |-> host, exit |-> exit, partial |-> partial, peak |-> peak, used |-> peak]
Of(job, node) == [kind |-> "summary", job |-> job, node |-> node]
Broken == [kind |-> "broken"]
NotASummary(job) == [kind |-> "other", job |-> job]

Finals(host) == {Of("this", Node(host, e, FALSE, 2)) : e \in Codes \union {None}}
Checkpoints(host) == {Of("this", Node(host, None, TRUE, p)) : p \in {0, 2}}

Bodies ==
  <<{NoFile, NotASummary("this")},
    {NoFile, Broken, Of("other", Node("a", Success, FALSE, 2))}
      \union Finals("a") \union Checkpoints("a"),
    {NoFile, Broken} \union Finals("b") \union Checkpoints("b"),
    {NoFile, NotASummary("this"), Of("other", Node("b", None, FALSE, 0))}
      \union Finals("b") \union Checkpoints("a")>>

PerHost == [h \in Hosts |-> IF h = "a" THEN 2 ELSE 3]
Shared == [h \in Hosts |-> 4]
OutputTemplates == {PerHost, Shared}

Promised(names) == [i \in DOMAIN names |-> [name |-> names[i], plain |-> TRUE]]
Beforehand ==
  {[ok |-> FALSE],
   [ok |-> TRUE, job |-> "other", entries |-> Promised(<<4>>)],
   [ok |-> TRUE, job |-> "this",
    entries |-> Append(Promised(<<3>>), [name |-> 2, plain |-> FALSE])]}
=============================================================================
