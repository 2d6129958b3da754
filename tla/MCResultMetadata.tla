-------------------------- MODULE MCResultMetadata --------------------------
\* Metadata for TLC: two nodes that print the same two keys, one of them also in another
\* spelling, among things that are not metadata.
EXTENDS ResultMetadata

CONSTANTS a, b, ct, CT, sz

TwoNodes == {a, b}
AllTypes == {ct, CT, sz}
InLowerCase == [t \in AllTypes |-> IF t = CT THEN ct ELSE t]
Entry(t, v) == [type |-> t, value |-> v]
Outputs ==
  [n \in TwoNodes |->
     IF n = a THEN <<<<{}, {Entry(ct, 1), Entry(sz, 1)}, Junk, {Entry(sz, 3)}>>, Long, <<{Entry(sz, 3)}>>>>
     ELSE <<<<Junk, {Entry(sz, 3)}>>, <<{Entry(sz, 1)}, {Entry(sz, 2)}>>, <<{Entry(CT, 2)}>>>>]
Submitted == [n \in TwoNodes |-> IF n = a THEN 1 ELSE 2]
Request(kind, key, sort, size, page) ==
  [kind |-> kind, key |-> key, sort |-> sort, size |-> size, page |-> page]
Ended == [n \in TwoNodes |-> 3]
Asked ==
  {Request("results", ct, "-count", 1, 1), Request("results", sz, "-count", 1, 2),
   Request("results", sz, "meta.created_at", 2, 1), Request("results", sz, "count", 0, 1),
   Request("recent-results", sz, "-meta.created_at", 2, 1),
   Request("node-results", sz, "-count", 1, 1), Request("submissions", sz, "-count", 1, 1),
   Request("submissions", sz, "-count", 1, 0)}
=============================================================================
