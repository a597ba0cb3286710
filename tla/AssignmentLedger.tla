-------------------------- MODULE AssignmentLedger --------------------------
(***************************************************************************)
(* What scheduled assignment promises, as docs/zensical/user-guide/        *)
(* scheduling.md states it: every attempt against one device leaves one    *)
(* durable outcome, work is idempotent per occurrence and device, and      *)
(* outcomes are kept as they stand.  No locks, receipts, claims or crashes *)
(* appear here; ScheduledAssignment implements this specification.         *)
(***************************************************************************)
EXTENDS Integers

CONSTANTS Occs, Devices

VARIABLES
    written,    \* how often the job of an occurrence on a device wrote policy
    outcome,    \* the job's durable outcome
    ended       \* occurrences that are over

ledger == <<written, outcome, ended>>

Jobs == Occs \X Devices

Init ==
    /\ written = [k \in Jobs |-> 0]
    /\ outcome = [k \in Jobs |-> "none"]
    /\ ended = {}

\* The job's one policy write, before its outcome and while it can be retried.
Write(k) ==
    /\ written[k] = 0
    /\ outcome[k] = "none"
    /\ written' = [written EXCEPT ![k] = 1]
    /\ UNCHANGED <<outcome, ended>>

\* The outcome is decided once; success is only reported of a write.
Report(k, r) ==
    /\ outcome[k] = "none"
    /\ r = "ok" => written[k] = 1
    /\ outcome' = [outcome EXCEPT ![k] = r]
    /\ UNCHANGED <<written, ended>>

\* An occurrence ends when all of its jobs have an outcome.
End(o) ==
    /\ \A d \in Devices : outcome[<<o, d>>] # "none"
    /\ ended' = ended \cup {o}
    /\ UNCHANGED <<written, outcome>>

Next ==
    \/ \E k \in Jobs : Write(k)
    \/ \E k \in Jobs, r \in {"ok", "skipped", "error"} : Report(k, r)
    \/ \E o \in Occs : End(o)

Spec == Init /\ [][Next]_ledger
=============================================================================
