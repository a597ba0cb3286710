--------------------------- MODULE MCScheduleStore ---------------------------
(* Small instances of ScheduleStore for TLC: weeks of two days of one      *)
(* unit, so that a schedule comes due in two weeks of a short run.         *)
EXTENDS ScheduleStore

\* A short weekly window and a one-off instant.
Short  == [kind |-> "recurring", weekday |-> 1, hour |-> 0, window |-> 1]
OneOff == [kind |-> "once", at |-> 2, window |-> 1]

\* One window length, so that slots expire in the order they are claimed in.
EqualWhens == {Short, OneOff}

\* Edits alone, or edits around a crash and a clock that is set back.
StoreEvents == {[edits |-> 3, crashes |-> 0, backs |-> 0],
                [edits |-> 2, crashes |-> 1, backs |-> 0],
                [edits |-> 2, crashes |-> 0, backs |-> 1]}
=============================================================================
