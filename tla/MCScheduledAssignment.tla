----------------------- MODULE MCScheduledAssignment -----------------------
(* Small instances of ScheduledAssignment for TLC.  Every occurrence       *)
(* assigns image i1 in the window [1, 2), so that the clock can be before, *)
(* inside and after it.                                                    *)
EXTENDS ScheduledAssignment, TLC

CONSTANTS i1, o1

Assign1  == [o \in Occs |-> {i1}]
Merge    == [o \in Occs |-> "merge"]
\* The first occurrence merges, any other replaces.
Mixed    == [o \in Occs |-> IF o = o1 THEN "merge" ELSE "replace"]
Opening  == [o \in Occs |-> 1]
Closing  == [o \in Occs |-> 2]

Quiet == [e \in Events |-> 0]

\* Hand assignments and quarantine around a job that may be interrupted, or
\* the authorities a commit depends on.
JobEvents == {
    [Quiet EXCEPT !["manual"] = 1, !["quarantine"] = 2],
    [Quiet EXCEPT !["manual"] = 1, !["quarantine"] = 1, !["crash"] = 1],
    [Quiet EXCEPT !["edit"] = 2, !["fleet"] = 2, !["revoke"] = 1,
                  !["crash"] = 1, !["back"] = 1]}
\* Two occurrences on one device.
OverlapEvents == {[Quiet EXCEPT !["manual"] = 1, !["crash"] = 1]}
\* Interruptions of a two-device occurrence.
InterruptionEvents ==
    {[Quiet EXCEPT !["stop"] = 1, !["crash"] = 1, !["fault"] = 1]}

\* What the disagreement needs.
SweepRace == {[Quiet EXCEPT !["manual"] = 1, !["quarantine"] = 1]}
=============================================================================
