-------------------------- MODULE MCImageLifecycle --------------------------
(* Small instances of ImageLifecycle for TLC: one or two images whose file *)
(* may hold one of two contents.                                           *)
EXTENDS ImageLifecycle

CONSTANTS good, bad

\* Feeds that carry the same rows for every image.
Everywhere(rows) == [i \in Ids |-> rows]
Row(sha)         == [sha |-> sha, deferral |-> FALSE]
Deferred(sha)    == [sha |-> sha, deferral |-> TRUE]

\* The feed publishes one hash, and later another, as a deferred row.
ChangedFeed == {Everywhere({Row(good)}), Everywhere({Deferred(bad)})}
\* The row may be withdrawn, too.
AnyFeed    == ChangedFeed \cup {Everywhere({})}

Quiet == [e \in Events |-> 0]

\* Assignments around a sweep, a release or a deletion.
SweepEvents ==
    {[Quiet EXCEPT !["assign"] = 2, !["release"] = 1, !["delete"] = 1]}

\* Jobs, runs and a quarantine that fail or are cut off, and a fleet that
\* changes meanwhile.
ConvergeEvents == {
    [Quiet EXCEPT !["fault"] = 1, !["restart"] = 1],
    [Quiet EXCEPT !["assign"] = 1, !["fleet"] = 1, !["restart"] = 1],
    [Quiet EXCEPT !["assign"] = 1, !["fault"] = 1]}
=============================================================================
