------------------------- MODULE ScheduledAssignment -------------------------
(***************************************************************************)
(* The execution of bound assign occurrences: the device loop of           *)
(* server/schedule_runner.py, the receipts of server/schedules.py, the     *)
(* assign verb of _ScheduledExecutor in server/management_api.py and the   *)
(* assignment authority of server/assignment_service.py.                   *)
(*                                                                         *)
(* One runner thread serves the active occurrences.  For every device it   *)
(* records an intent, captures the device's manual generation, and in a    *)
(* later visit applies the assignment: check the live authorities under    *)
(* the role, membership and secrets locks, insert a claim, commit the      *)
(* catalog policy, store the result in the claim, and only then record the *)
(* terminal receipt and release the claim.  Each of these is a durable     *)
(* write of its own, and the process may die between any two of them.      *)
(* Operators meanwhile assign by hand, edit or delete schedules, retire,   *)
(* re-register and revoke devices, and the hash reconciler quarantines     *)
(* images and unassigns them.                                              *)
(*                                                                         *)
(* An ordered image list is a set here; the runner's retry delays and its  *)
(* dispatch budget are shorter than one unit of the clock.                 *)
(***************************************************************************)
EXTENDS Integers, FiniteSets

CONSTANTS
    Occs,         \* bound occurrences of assign schedules
    Devices,      \* their common target
    Images,
    Payload,      \* Payload[o]: the images of o's frozen definition
    Mode,         \* Mode[o]: "merge" or "replace"
    OpenAt, EndAt,\* the half-open window of o
    MaxAssigned,  \* catalog.MAX_ASSIGNED_IMAGES
    MaxTime,      \* bound: the clock stops here
    Limits,       \* bounds: the mixes of outside events a behaviour may see
    None          \* model value: an absent value

Events == {"edit", "manual", "fleet", "revoke", "quarantine", "back", "stop",
           "crash", "fault"}

ASSUME WindowAssumption ==
    /\ OpenAt \in [Occs -> Nat]
    /\ EndAt \in [Occs -> Nat]
    /\ MaxTime \in Nat
    /\ \A o \in Occs : OpenAt[o] < EndAt[o]

ASSUME PayloadAssumption ==
    /\ Payload \in [Occs -> SUBSET Images]
    /\ Mode \in [Occs -> {"merge", "replace"}]
    /\ MaxAssigned \in Nat

ASSUME LimitAssumption == Limits \subseteq [Events -> Nat]

Jobs == Occs \X Devices

Active   == {"pending", "running", "interrupted"}
Terminal == {"ok", "skipped", "error"}

Reasons == {"open", "runner_stopping", "window_not_open", "window_closed",
            "schedule_changed", "vanished", "device_revoked", "conflict",
            "assignment_authority_unavailable", "manual_override",
            "assignment_cap_exceeded", "image_quarantined", "execution_failed",
            "pending", "assignment_prepared", "assigned", "unchanged"}

\* What capture_schedule_state returns, an outcome, and what dispatch returns
\* for a device it has only prepared.
Capturing == [gen : Nat, reg : Nat, before : SUBSET Images]
Results   == [status : Terminal, reason : Reasons]
Prepared  == [status : {"prepared"}, reason : Reasons, capture : Capturing]

ReceiptRow == [status : Terminal \cup {"intent"}, reason : Reasons,
               capture : Capturing \cup {None}]
ClaimRow   == [req : Capturing, result : Results \cup {None}]

ASSUME NoneAssumption ==
    None \notin ReceiptRow \cup ClaimRow \cup Capturing \cup Results
                   \cup Prepared \cup Reasons

VARIABLES
    occ,        \* schedule-occurrences.json: the state of each occurrence
    receipts,   \* schedule-receipts/: the receipt of each job, or None
    claims,     \* assignment authority: the claim row of each job, or None
    manual,     \* assignment authority: manual generation and pending flag
    policy,     \* catalog policy: the images approved for each device
    sched,      \* the live definition, compared with the one o froze
    quarantined,\* images under hash quarantine
    sweep,      \* the hash reconciler inside _fire_quarantine
    reg,        \* fleet: registration id of each device, 0 when absent
    revoked,    \* devices whose secrets are revoked
    now,        \* the wall clock
    pc,         \* the runner thread: program counter
    run,        \* the runner thread: locals
    stop,       \* the runner's stop event
    mw,         \* one manual writer inside AssignmentService.apply
    budget,     \* outside events so far, see Limits
    commits,    \* history: successful policy writes of each job
    overridden  \* history: jobs whose device was assigned by hand after capture

durable == <<occ, receipts, claims, manual, policy, commits>>
world   == <<sched, quarantined, sweep, reg, revoked, now, stop, budget,
             overridden>>
vars    == <<durable, world, pc, run, mw>>

----------------------------------------------------------------------------
(* Results and receipts.                                                   *)

Result(status, reason) == [status |-> status, reason |-> reason]
Skipped(reason) == Result("skipped", reason)
Error(reason)   == Result("error", reason)

Receipt(result, capture) ==
    [status |-> result.status, reason |-> result.reason, capture |-> capture]

IsDone(k) == IF receipts[k] = None THEN FALSE
             ELSE receipts[k].status \in Terminal

CaptureOf(k) == IF receipts[k] = None THEN None ELSE receipts[k].capture

\* ReceiptStore.record: a terminal receipt is final.
Recorded(k, result) ==
    IF IsDone(k) THEN receipts
    ELSE [receipts EXCEPT ![k] = Receipt(result, CaptureOf(k))]

cur == <<run.o, run.d>>

Locals == [o |-> None, d |-> None, left |-> {}, todo |-> {}, complete |-> {},
           fresh |-> FALSE, why |-> None, result |-> None, before |-> {},
           tries |-> 0, unacked |-> {}]

IdleSweep == [todo |-> {}, d |-> None, keep |-> {}]

IdleWriter == [pc |-> "idle", d |-> None, ids |-> {}, before |-> {},
               prior |-> FALSE]

Init ==
    /\ occ = [o \in Occs |-> "pending"]
    /\ receipts = [k \in Jobs |-> None]
    /\ claims = [k \in Jobs |-> None]
    /\ manual = [d \in Devices |-> [gen |-> 0, pending |-> FALSE]]
    /\ policy \in [Devices -> {S \in SUBSET Images : Cardinality(S) <= 1}]
    /\ sched = [o \in Occs |-> "live"]
    /\ quarantined = {}
    /\ sweep = IdleSweep
    /\ reg = [d \in Devices |-> 1]
    /\ revoked = {}
    /\ now = 0
    /\ pc = "start"
    /\ run = Locals
    /\ stop = FALSE
    /\ mw = IdleWriter
    /\ budget = [e \in Events |-> 0]
    /\ commits = [k \in Jobs |-> 0]
    /\ overridden = {}

----------------------------------------------------------------------------
(* Locks.  apply() holds the role, membership and secrets locks from its   *)
(* live check to the end; a manual writer holds the membership lock.       *)

Applying == pc \in {"apply", "decide", "result"}
RoleFree == ~Applying
MembershipFree == ~Applying /\ mw.pc = "idle"

----------------------------------------------------------------------------
(* The runner.                                                             *)

\* ScheduleRunner._closed_reason; "open" stands for None.
ClosedReason(o) ==
    IF stop THEN "runner_stopping"
    ELSE IF now < OpenAt[o] THEN "window_not_open"
    ELSE IF now >= EndAt[o] THEN "window_closed"
    ELSE IF sched[o] # "live" THEN "schedule_changed"
    ELSE "open"

\* Mutant: start-up also clears the claims of the process before.
Recover_PurgeClaims ==
    /\ pc = "start"
    /\ ~stop
    /\ occ' = [o \in Occs |-> IF occ[o] = "running" THEN "interrupted" ELSE occ[o]]
    /\ claims' = [k \in Jobs |-> None]
    /\ pc' = "idle"
    /\ UNCHANGED <<receipts, manual, policy, commits, world, run, mw>>

\* recover: an occurrence found running was interrupted.
Recover ==
    /\ pc = "start"
    /\ ~stop
    /\ occ' = [o \in Occs |-> IF occ[o] = "running" THEN "interrupted" ELSE occ[o]]
    /\ pc' = "idle"
    /\ UNCHANGED <<receipts, claims, manual, policy, commits, world, run, mw>>

ActiveOccs == {o \in Occs : occ[o] \in Active}

\* _pass serves every active occurrence once before it begins again.
InOrder == IF run.left \cap ActiveOccs = {} THEN ActiveOccs
           ELSE run.left \cap ActiveOccs

\* _process_devices up to its loop.
Serve(o) ==
    /\ pc = "idle"
    /\ ~stop
    /\ o \in InOrder
    /\ occ' = [occ EXCEPT ![o] = "running"]
    /\ pc' = "loop"
    /\ run' = [Locals EXCEPT
                 !.o = o, !.left = InOrder \ {o}, !.todo = Devices,
                 !.complete = {d \in Devices : IsDone(<<o, d>>)},
                 !.unacked = run.unacked]
    /\ UNCHANGED <<receipts, claims, manual, policy, commits, world, mw>>

\* The head of the device loop.
Visit(d) ==
    /\ pc = "loop"
    /\ ~stop
    /\ d \in run.todo
    /\ run' = [run EXCEPT !.d = d, !.todo = @ \ {d}]
    /\ pc' = IF d \in run.complete THEN "ack" ELSE "visit"
    /\ UNCHANGED <<durable, world, mw>>

\* "wall clock moved backwards; do not dispatch or close".
VisitNotOpen ==
    /\ pc = "visit"
    /\ ClosedReason(run.o) = "window_not_open"
    /\ pc' = "loop"
    /\ UNCHANGED <<durable, world, run, mw>>

\* _finish_unsubmitted: a terminal receipt without any dispatch.
FinishUnsubmitted(reason) ==
    /\ receipts' = Recorded(cur, Skipped(reason))
    /\ pc' = "ack"
    /\ UNCHANGED <<occ, claims, manual, policy, commits, world, run, mw>>

\* _poll is next, with the closing reason it was called with.
GoPoll(reason) ==
    /\ pc' = "poll"
    /\ run' = [run EXCEPT !.why = reason]
    /\ UNCHANGED <<durable, world, mw>>

VisitClosed ==
    LET why == ClosedReason(run.o) IN
    /\ pc = "visit"
    /\ why \notin {"open", "window_not_open"}
    /\ IF receipts[cur] = None THEN FinishUnsubmitted(why) ELSE GoPoll(why)

\* receipts.begin for a first visit; an earlier intent is taken up again.
VisitOpen ==
    /\ pc = "visit"
    /\ ClosedReason(run.o) = "open"
    /\ run' = [run EXCEPT !.fresh = (receipts[cur] = None)]
    /\ receipts' = IF receipts[cur] = None
                   THEN Recorded(cur, Result("intent", "pending"))
                   ELSE receipts
    /\ pc' = "recheck"
    /\ UNCHANGED <<occ, claims, manual, policy, commits, world, mw>>

\* The second _admission_reason, after the intent is durable.
RecheckClosed ==
    LET why == ClosedReason(run.o) IN
    /\ pc = "recheck"
    /\ why # "open"
    /\ IF run.fresh THEN FinishUnsubmitted(why) ELSE GoPoll(why)

RecheckOpen ==
    /\ pc = "recheck"
    /\ ClosedReason(run.o) = "open"
    /\ pc' = "dispatch"
    /\ UNCHANGED <<durable, world, run, mw>>

\* The executor returns: _save comes next.
Return(result) ==
    /\ pc' = "save"
    /\ run' = [run EXCEPT !.result = result]

----------------------------------------------------------------------------
(* _dispatch_assignment, first visit: capture_schedule_state.              *)

CaptureRefusal ==
    IF reg[run.d] = 0 THEN Skipped("vanished")
    ELSE IF manual[run.d].pending THEN Error("assignment_authority_unavailable")
    ELSE IF reg[run.d] # 1 THEN Skipped("conflict")
    ELSE None

\* The capture itself; the registration bound to every target is 1.
Captured == [gen |-> manual[run.d].gen, reg |-> reg[run.d],
             before |-> policy[run.d]]

Capture ==
    /\ pc = "dispatch"
    /\ CaptureOf(cur) = None
    /\ MembershipFree
    /\ IF CaptureRefusal = None
       THEN Return([status |-> "prepared", reason |-> "assignment_prepared",
                    capture |-> Captured])
       ELSE Return(CaptureRefusal)
    /\ UNCHANGED <<durable, world, mw>>

----------------------------------------------------------------------------
(* _dispatch_assignment, later visit: AssignmentService.apply.             *)

\* Mutant: the device is identified by its name alone.
LiveRefusal_NameOnly ==
    IF reg[run.d] = 0 THEN "vanished"
    ELSE IF now < OpenAt[run.o] THEN "window_not_open"
    ELSE IF now >= EndAt[run.o] THEN "window_closed"
    ELSE IF sched[run.o] # "live" THEN "schedule_changed"
    ELSE IF run.d \in revoked THEN "device_revoked"
    ELSE "none"

\* apply's membership check and _check_live inside commit_guard.
LiveRefusal ==
    IF reg[run.d] = 0 THEN "vanished"
    ELSE IF now < OpenAt[run.o] THEN "window_not_open"
    ELSE IF now >= EndAt[run.o] THEN "window_closed"
    ELSE IF sched[run.o] # "live" THEN "schedule_changed"
    ELSE IF run.d \in revoked THEN "device_revoked"
    ELSE IF reg[run.d] # CaptureOf(cur).reg THEN "conflict"
    ELSE "none"

ApplyRefused ==
    /\ pc = "dispatch"
    /\ CaptureOf(cur) # None
    /\ MembershipFree
    /\ LiveRefusal # "none"
    /\ Return(Skipped(LiveRefusal))
    /\ UNCHANGED <<durable, world, mw>>

ApplyBegin ==
    /\ pc = "dispatch"
    /\ CaptureOf(cur) # None
    /\ MembershipFree
    /\ LiveRefusal = "none"
    /\ pc' = "apply"
    /\ run' = [run EXCEPT !.before = policy[run.d], !.tries = 0]
    /\ UNCHANGED <<durable, world, mw>>

\* _save_result into the claim.
Resolved(k, result) == [claims EXCEPT ![k].result = result]

\* Mutant: an unfinished claim is taken for a finished assignment.
ReplayClaim_Assume(capture) ==
    /\ claims' = claims
    /\ Return(IF claims[cur].result = None THEN Result("ok", "assigned")
              ELSE claims[cur].result)

\* _apply_guarded and reconcile_schedule_result on a claim that exists: a saved
\* result is replayed if the request is the same one, an unfinished claim is
\* closed as a conflict.
ReplayClaim(capture) ==
    LET claim == claims[cur] IN
    IF claim.result = None
    THEN /\ claims' = Resolved(cur, Skipped("conflict"))
         /\ Return(Skipped("conflict"))
    ELSE /\ claims' = claims
         /\ Return(IF claim.req = capture THEN claim.result
                   ELSE Skipped("conflict"))

ApplyReplay ==
    /\ pc = "apply"
    /\ claims[cur] # None
    /\ ReplayClaim(CaptureOf(cur))
    /\ UNCHANGED <<occ, receipts, manual, policy, commits, world, mw>>

\* Mutant: an unfinished claim is taken over and the work is done again.
ApplyClaim_TakeOver ==
    /\ pc = "apply"
    /\ claims' = [claims EXCEPT
                    ![cur] = [req |-> CaptureOf(cur), result |-> None]]
    /\ pc' = "decide"
    /\ UNCHANGED <<occ, receipts, manual, policy, commits, world, run, mw>>

ApplyClaim ==
    /\ pc = "apply"
    /\ claims[cur] = None
    /\ claims' = [claims EXCEPT
                    ![cur] = [req |-> CaptureOf(cur), result |-> None]]
    /\ pc' = "decide"
    /\ UNCHANGED <<occ, receipts, manual, policy, commits, world, run, mw>>

\* Mutant: a replacement, too, expects whatever is assigned now.
ExpectedIds_Current == run.before

\* The policy this attempt would write and the one it expects to replace.
WantedIds == IF Mode[run.o] = "merge" THEN run.before \cup Payload[run.o]
             ELSE Payload[run.o]
ExpectedIds == IF Mode[run.o] = "merge" THEN run.before
               ELSE CaptureOf(cur).before

\* Mutant: a manual write of unknown outcome is not looked at.
ApplyRefusal_NoPending ==
    IF manual[run.d].gen # CaptureOf(cur).gen THEN "manual_override"
    ELSE IF Cardinality(WantedIds) > MaxAssigned THEN "assignment_cap_exceeded"
    ELSE IF WantedIds \cap quarantined # {} THEN "image_quarantined"
    ELSE IF ExpectedIds = policy[run.d] THEN "none"
    ELSE IF Mode[run.o] = "merge" /\ run.tries = 0 THEN "rebase"
    ELSE "conflict"

\* The known refusals of _apply_guarded before any catalog write, with those
\* of catalog.set_policy.  A merge rebases once; a replacement keeps the
\* policy captured with its intent.
ApplyRefusal ==
    IF manual[run.d].gen # CaptureOf(cur).gen THEN "manual_override"
    ELSE IF manual[run.d].pending THEN "conflict"
    ELSE IF Cardinality(WantedIds) > MaxAssigned THEN "assignment_cap_exceeded"
    ELSE IF WantedIds \cap quarantined # {} THEN "image_quarantined"
    ELSE IF ExpectedIds = policy[run.d] THEN "none"
    ELSE IF Mode[run.o] = "merge" /\ run.tries = 0 THEN "rebase"
    ELSE "conflict"

\* The outcome is known; _save_result comes next, still under the locks.
Outcome(result) ==
    /\ pc' = "result"
    /\ run' = [run EXCEPT !.result = result]

DecideRefusal ==
    /\ pc = "decide"
    /\ ApplyRefusal \notin {"none", "rebase"}
    /\ Outcome(Skipped(ApplyRefusal))
    /\ UNCHANGED <<durable, world, mw>>

DecideRebase ==
    /\ pc = "decide"
    /\ ApplyRefusal = "rebase"
    /\ run' = [run EXCEPT !.before = policy[run.d], !.tries = 1]
    /\ UNCHANGED <<durable, world, pc, mw>>

\* set_policy succeeds (an unchanged policy counts as success).
DecideCommit ==
    /\ pc = "decide"
    /\ ApplyRefusal = "none"
    /\ policy' = [policy EXCEPT ![run.d] = WantedIds]
    /\ commits' = [commits EXCEPT ![cur] = @ + 1]
    /\ Outcome(Result("ok", IF WantedIds = policy[run.d] THEN "unchanged"
                            ELSE "assigned"))
    /\ UNCHANGED <<occ, receipts, claims, manual, world, mw>>

SaveResult ==
    /\ pc = "result"
    /\ claims' = Resolved(cur, run.result)
    /\ pc' = "save"
    /\ UNCHANGED <<occ, receipts, manual, policy, commits, world, run, mw>>

----------------------------------------------------------------------------
(* poll for an assign receipt: reconcile_schedule_result.                  *)

PollUnprepared ==
    /\ pc = "poll"
    /\ CaptureOf(cur) = None
    /\ Return(Error("conflict"))
    /\ UNCHANGED <<durable, world, mw>>

\* Mutant: the retry is deferred whatever the reason.
PollNothing_Defer ==
    /\ pc = "poll"
    /\ CaptureOf(cur) # None
    /\ claims[cur] = None
    /\ pc' = "loop"
    /\ UNCHANGED <<durable, world, run, mw>>

\* No claim: nothing was admitted.  _retry then defers or closes the job.
PollNothing ==
    /\ pc = "poll"
    /\ CaptureOf(cur) # None
    /\ MembershipFree
    /\ claims[cur] = None
    /\ IF run.why = "window_not_open"
       THEN pc' = "loop" /\ UNCHANGED <<durable, world, run, mw>>
       ELSE FinishUnsubmitted(run.why)

PollClaim ==
    /\ pc = "poll"
    /\ CaptureOf(cur) # None
    /\ MembershipFree
    /\ claims[cur] # None
    /\ ReplayClaim(CaptureOf(cur))
    /\ UNCHANGED <<occ, receipts, manual, policy, commits, world, mw>>

----------------------------------------------------------------------------
(* _save, _acknowledge and the end of the loop.                            *)

\* Mutant: the executor's status is stored as it is.
SavePrepared_Status ==
    /\ pc = "save"
    /\ run.result.status = "prepared"
    /\ receipts' = [receipts EXCEPT ![cur].capture = run.result.capture,
                                    ![cur].status = "prepared"]
    /\ pc' = "loop"
    /\ UNCHANGED <<occ, claims, manual, policy, commits, world, run, mw>>

\* A prepared receipt keeps its status, intent.
SavePrepared ==
    /\ pc = "save"
    /\ run.result.status = "prepared"
    /\ receipts' = [receipts EXCEPT ![cur].capture = run.result.capture]
    /\ pc' = "loop"
    /\ UNCHANGED <<occ, claims, manual, policy, commits, world, run, mw>>

SaveTerminal ==
    /\ pc = "save"
    /\ run.result.status \in Terminal
    /\ receipts' = Recorded(cur, run.result)
    /\ pc' = "ack"
    /\ UNCHANGED <<occ, claims, manual, policy, commits, world, run, mw>>

\* acknowledge_schedule_result deletes the claim.
Acknowledge ==
    /\ pc = "ack"
    /\ MembershipFree
    /\ claims' = [claims EXCEPT ![cur] = None]
    /\ run' = [run EXCEPT !.unacked = @ \ {cur}]
    /\ pc' = "loop"
    /\ UNCHANGED <<occ, receipts, manual, policy, commits, world, mw>>

\* The end of _process_devices.
FinalState(o) ==
    LET done == {receipts[<<o, d>>] : d \in Devices} IN
    IF \E r \in done : r.status = "error" THEN "failed"
    ELSE IF \E r \in done : r.reason = "schedule_changed" THEN "cancelled"
    ELSE "completed"

\* Mutant: every device has a receipt, final or not.
Settled_Recorded(o) == \A d \in Devices : receipts[<<o, d>>] # None

\* Every receipt is terminal and every acknowledgement went through.
Settled(o) ==
    /\ \A d \in Devices : IsDone(<<o, d>>)
    /\ \A d \in Devices : <<o, d>> \notin run.unacked

Finish ==
    /\ pc = "loop"
    /\ stop \/ run.todo = {}
    /\ occ' = IF Settled(run.o) THEN [occ EXCEPT ![run.o] = FinalState(run.o)]
              ELSE occ
    /\ pc' = "idle"
    /\ UNCHANGED <<receipts, claims, manual, policy, commits, world, run, mw>>

RunnerStep ==
    \/ Recover
    \/ \E o \in Occs : Serve(o)
    \/ \E d \in Devices : Visit(d)
    \/ VisitNotOpen \/ VisitClosed \/ VisitOpen
    \/ RecheckClosed \/ RecheckOpen
    \/ Capture \/ ApplyRefused \/ ApplyBegin \/ ApplyReplay \/ ApplyClaim
    \/ DecideRefusal \/ DecideRebase \/ DecideCommit \/ SaveResult
    \/ PollUnprepared \/ PollNothing \/ PollClaim
    \/ SavePrepared \/ SaveTerminal
    \/ Acknowledge
    \/ Finish

----------------------------------------------------------------------------
(* Outside events.                                                         *)

Spend(e) ==
    /\ budget' = [budget EXCEPT ![e] = @ + 1]
    /\ \E mix \in Limits : \A f \in Events : budget'[f] <= mix[f]

\* A catalog or authority write fails for a reason the code does not know: the
\* claim keeps no result, and the executor reports execution_failed.
ApplyFault ==
    /\ Applying
    /\ Spend("fault")
    /\ Return(Error("execution_failed"))
    /\ UNCHANGED <<durable, sched, quarantined, sweep, reg, revoked, now, stop,
                   overridden, mw>>

\* acknowledge raises: the job stays in _pending_acknowledgements.
AcknowledgeFault ==
    /\ pc = "ack"
    /\ Spend("fault")
    /\ run' = [run EXCEPT !.unacked = @ \cup {cur}]
    /\ pc' = "loop"
    /\ UNCHANGED <<durable, sched, quarantined, sweep, reg, revoked, now, stop,
                   overridden, mw>>

\* A manual replacement, first durable write: the outcome is uncertain.
ManualBegin(d, ids) ==
    /\ MembershipFree
    /\ reg[d] # 0
    /\ Spend("manual")
    /\ mw' = [pc |-> "pending", d |-> d, ids |-> ids, before |-> policy[d],
              prior |-> manual[d].pending]
    /\ manual' = [manual EXCEPT ![d].pending = TRUE]
    /\ UNCHANGED <<occ, receipts, claims, policy, commits, sched, quarantined,
                   sweep, reg, revoked, now, stop, overridden, pc, run>>

\* Jobs on d that captured its policy and are not finished.
OpenJobs(d) == {k \in Jobs : k[2] = d /\ CaptureOf(k) # None /\ ~IsDone(k)}

ManualCommit ==
    /\ mw.pc = "pending"
    /\ mw.ids \cap quarantined = {}
    /\ Cardinality(mw.ids) <= MaxAssigned
    /\ mw.before = policy[mw.d]
    /\ policy' = [policy EXCEPT ![mw.d] = mw.ids]
    /\ overridden' = overridden \cup OpenJobs(mw.d)
    /\ mw' = [mw EXCEPT !.pc = "written"]
    /\ UNCHANGED <<occ, receipts, claims, manual, commits, sched, quarantined,
                   sweep, reg, revoked, now, stop, budget, pc, run>>

\* A known refusal (a stale expectation, a quarantined image) restores the flag.
ManualRefuse ==
    /\ mw.pc = "pending"
    /\ manual' = [manual EXCEPT ![mw.d].pending = mw.prior]
    /\ mw' = IdleWriter
    /\ UNCHANGED <<occ, receipts, claims, policy, commits, world, pc, run>>

\* Last durable write: a new manual generation, certain again.
ManualDone ==
    /\ mw.pc = "written"
    /\ manual' = [manual EXCEPT ![mw.d] = [gen |-> @.gen + 1, pending |-> FALSE]]
    /\ mw' = IdleWriter
    /\ UNCHANGED <<occ, receipts, claims, policy, commits, world, pc, run>>

\* put_schedule and patch_schedule, away from the frozen definition (a pause is
\* one way) or back to it.
EditSchedule(o) ==
    /\ MembershipFree
    /\ sched[o] # "gone"
    /\ Spend("edit")
    /\ sched' = [sched EXCEPT ![o] = IF @ = "live" THEN "edited" ELSE "live"]
    /\ UNCHANGED <<durable, quarantined, sweep, reg, revoked, now, stop,
                   overridden, pc, run, mw>>

\* delete_schedule: a recreated schedule has another generation.
DeleteSchedule(o) ==
    /\ RoleFree
    /\ sched[o] # "gone"
    /\ Spend("edit")
    /\ sched' = [sched EXCEPT ![o] = "gone"]
    /\ UNCHANGED <<durable, quarantined, sweep, reg, revoked, now, stop,
                   overridden, pc, run, mw>>

\* retire_device: the fleet row goes, then the catalog policy, whose purge may
\* fail and leave the policy behind.
RetireDevice(d) ==
    /\ MembershipFree
    /\ reg[d] # 0
    /\ Spend("fleet")
    /\ reg' = [reg EXCEPT ![d] = 0]
    /\ policy' \in {policy, [policy EXCEPT ![d] = {}]}
    /\ UNCHANGED <<occ, receipts, claims, manual, commits, sched, quarantined,
                   sweep, revoked, now, stop, overridden, pc, run, mw>>

\* fleet.upsert of an absent name mints a new registration id; its secrets may
\* be the revoked ones until onboarding mints others.
RegisterDevice(d) ==
    /\ MembershipFree
    /\ reg[d] = 0
    /\ Spend("fleet")
    /\ reg' = [reg EXCEPT ![d] = 2 + budget["fleet"]]
    /\ revoked' \in {revoked, revoked \ {d}}
    /\ UNCHANGED <<durable, sched, quarantined, sweep, now, stop, overridden,
                   pc, run, mw>>

\* _revoke_device_secrets, under the secrets lock.
RevokeDevice(d) ==
    /\ ~Applying
    /\ d \notin revoked
    /\ Spend("revoke")
    /\ revoked' = revoked \cup {d}
    /\ UNCHANGED <<durable, sched, quarantined, sweep, reg, now, stop,
                   overridden, pc, run, mw>>

\* The hash reconciler quarantines an image; set_policy refuses it from now on.
QuarantineImage(i) ==
    /\ i \notin quarantined
    /\ Spend("quarantine")
    /\ quarantined' = quarantined \cup {i}
    /\ UNCHANGED <<durable, sched, sweep, reg, revoked, now, stop, overridden,
                   pc, run, mw>>

\* release_quarantine: an operator accepts the image after all.
ReleaseImage(i) ==
    /\ i \in quarantined
    /\ Spend("quarantine")
    /\ quarantined' = quarantined \ {i}
    /\ UNCHANGED <<durable, sched, sweep, reg, revoked, now, stop, overridden,
                   pc, run, mw>>

\* _fire_quarantine for an image: the devices that hold it now.
SweepBegin(i) ==
    LET affected == {d \in Devices : i \in policy[d]} IN
    /\ sweep = IdleSweep
    /\ i \in quarantined
    /\ affected # {}
    /\ sweep' = [sweep EXCEPT !.todo = affected]
    /\ UNCHANGED <<durable, sched, quarantined, reg, revoked, now, stop, budget,
                   overridden, pc, run, mw>>

\* Its read of one device's policy, less the quarantined images.
SweepRead(d) ==
    /\ sweep.d = None
    /\ d \in sweep.todo
    /\ sweep' = [todo |-> sweep.todo \ {d}, d |-> d,
                 keep |-> policy[d] \ quarantined]
    /\ UNCHANGED <<durable, sched, quarantined, reg, revoked, now, stop, budget,
                   overridden, pc, run, mw>>

\* Its unconditional set_policy, under the image-policy lock alone; refused when
\* one of the images it keeps has been quarantined meanwhile.
SweepWrite ==
    /\ sweep.d # None
    /\ policy' = IF sweep.keep \cap quarantined = {}
                 THEN [policy EXCEPT ![sweep.d] = sweep.keep] ELSE policy
    /\ sweep' = [sweep EXCEPT !.d = None, !.keep = {}]
    /\ UNCHANGED <<occ, receipts, claims, manual, commits, sched, quarantined,
                   reg, revoked, now, stop, budget, overridden, pc, run, mw>>

Tick ==
    /\ now < MaxTime
    /\ now' = now + 1
    /\ UNCHANGED <<durable, sched, quarantined, sweep, reg, revoked, stop,
                   budget, overridden, pc, run, mw>>

ClockBack ==
    /\ now > 0
    /\ Spend("back")
    /\ now' = now - 1
    /\ UNCHANGED <<durable, sched, quarantined, sweep, reg, revoked, stop,
                   overridden, pc, run, mw>>

\* A graceful shutdown begins: ScheduleRunner.stop.
Stop ==
    /\ ~stop
    /\ Spend("stop")
    /\ stop' = TRUE
    /\ UNCHANGED <<durable, sched, quarantined, sweep, reg, revoked, now,
                   overridden, pc, run, mw>>

\* What a new process starts from.
FreshProcess ==
    /\ pc' = "start"
    /\ run' = Locals
    /\ mw' = IdleWriter
    /\ sweep' = IdleSweep
    /\ stop' = FALSE
    /\ UNCHANGED <<durable, sched, quarantined, reg, revoked, now, overridden>>

\* The stopped runner has left its loop; the server is started again.
Restart ==
    /\ stop
    /\ pc \in {"start", "idle"}
    /\ mw.pc = "idle"
    /\ FreshProcess
    /\ UNCHANGED budget

\* The process dies at any point.
Crash ==
    /\ Spend("crash")
    /\ FreshProcess

WriterStep == ManualCommit \/ ManualRefuse \/ ManualDone

OutsideStep ==
    \/ ApplyFault \/ AcknowledgeFault
    \/ \E d \in Devices, ids \in SUBSET Images : ManualBegin(d, ids)
    \/ WriterStep
    \/ \E o \in Occs : EditSchedule(o) \/ DeleteSchedule(o)
    \/ \E d \in Devices :
          RetireDevice(d) \/ RegisterDevice(d) \/ RevokeDevice(d) \/ SweepRead(d)
    \/ \E i \in Images : QuarantineImage(i) \/ ReleaseImage(i) \/ SweepBegin(i)
    \/ SweepWrite
    \/ Tick \/ ClockBack
    \/ Stop \/ Restart \/ Crash

Next == RunnerStep \/ OutsideStep

Spec == Init /\ [][Next]_vars

\* The runner thread keeps running, a manual writer leaves its locks, a stopped
\* server is started again and time passes; nothing else is owed.
Fairness ==
    /\ WF_vars(RunnerStep)
    /\ WF_vars(WriterStep)
    /\ WF_vars(Restart)
    /\ WF_vars(Tick)

FairSpec == Spec /\ Fairness

----------------------------------------------------------------------------
(* Properties.                                                             *)

LocalsType ==
    [o : Occs \cup {None}, d : Devices \cup {None}, left : SUBSET Occs,
     todo : SUBSET Devices, complete : SUBSET Devices, fresh : BOOLEAN,
     why : Reasons \cup {None}, result : Results \cup Prepared \cup {None},
     before : SUBSET Images, tries : Nat, unacked : SUBSET Jobs]

WriterType ==
    [pc : {"idle", "pending", "written"}, d : Devices \cup {None},
     ids : SUBSET Images, before : SUBSET Images, prior : BOOLEAN]

SweepType == [todo : SUBSET Devices, d : Devices \cup {None},
              keep : SUBSET Images]

TypeOK ==
    /\ occ \in [Occs -> Active \cup {"completed", "cancelled", "failed"}]
    /\ receipts \in [Jobs -> ReceiptRow \cup {None}]
    /\ claims \in [Jobs -> ClaimRow \cup {None}]
    /\ manual \in [Devices -> [gen : Nat, pending : BOOLEAN]]
    /\ policy \in [Devices -> SUBSET Images]
    /\ sched \in [Occs -> {"live", "edited", "gone"}]
    /\ quarantined \subseteq Images
    /\ sweep \in SweepType
    /\ reg \in [Devices -> Nat]
    /\ revoked \subseteq Devices
    /\ now \in Nat
    /\ pc \in {"start", "idle", "loop", "visit", "recheck", "dispatch", "poll",
               "apply", "decide", "result", "save", "ack"}
    /\ run \in LocalsType
    /\ stop \in BOOLEAN
    /\ mw \in WriterType
    /\ budget \in [Events -> Nat]
    /\ commits \in [Jobs -> Nat]
    /\ overridden \subseteq Jobs

\* "Work is idempotent per occurrence and device, so a restart mid window cannot
\* double-assign": whatever is interrupted and retried, a job writes the
\* catalog policy at most once.
AtMostOneCommit == \A k \in Jobs : commits[k] <= 1

\* The abstract specification, with the receipts as outcomes.
OutcomeOf(k) == IF IsDone(k) THEN receipts[k].status ELSE "none"

Ledger == INSTANCE AssignmentLedger
            WITH written <- commits,
                 outcome <- [k \in Jobs |-> OutcomeOf(k)],
                 ended <- {o \in Occs : occ[o] \notin Active}

\* The runner, the receipts and the claims together implement the ledger: one
\* write, one final outcome per job that tells the truth about success, and
\* an end that is an end.
ImplementsLedger == Ledger!Spec

\* Until a job that wrote the policy has its terminal receipt, its claim is
\* there to tell the next process.
UnreportedCommitHasClaim ==
    \A k \in Jobs : commits[k] > 0 /\ ~IsDone(k) => claims[k] # None

\* "Manual work wins": no job writes a device's policy once an operator has
\* assigned that device by hand after the job captured it, even when the
\* manual writer died before its generation was counted.
OperatorIntentWins ==
    [][\A k \in Jobs : commits'[k] # commits[k] => k \notin overridden]_vars

\* A policy write happens only while the definition is in force and the device
\* is the registration the occurrence was bound to, with live credentials.
CommitUnderLiveAuthority ==
    [][\A k \in Jobs : commits'[k] # commits[k] =>
          /\ sched[k[1]] = "live"
          /\ reg[k[2]] = 1
          /\ k[2] \notin revoked]_vars

\* A merge never loses an image and a replacement never erases a policy the job
\* had not captured, quarantine unassignments included.
CommitKeepsOthersWork ==
    [][\A k \in Jobs : commits'[k] # commits[k] =>
          IF Mode[k[1]] = "merge" THEN policy[k[2]] \subseteq policy'[k[2]]
          ELSE policy[k[2]] = CaptureOf(k).before]_vars

\* An occurrence ends only with a terminal receipt for every target.
EndedMeansEveryDeviceReported ==
    \A o \in Occs : occ[o] \notin Active => \A d \in Devices : IsDone(<<o, d>>)

\* The docstring of reconcile_schedule_result: recovery "must not hide a result
\* already made durable immediately before a crash".  A job whose claim holds a
\* success gets an ok receipt.
SavedResultReported ==
    [][\A k \in Jobs :
          /\ claims[k] # None
          /\ claims[k].result # None
          /\ claims[k].result.status = "ok"
          /\ ~IsDone(k) /\ IsDone(k)'
          => receipts'[k].status = "ok"]_vars

\* scheduling.md: "Every device it never reached gets a `window_closed` outcome",
\* and a restart resumes an interrupted occurrence.  A shutdown closes no job.
ShutdownClosesNothing ==
    \A k \in Jobs : IsDone(k) => receipts[k].reason # "runner_stopping"

\* The docstring of _acknowledge: after a crash "completed receipts retry this
\* acknowledgement on later passes".  No claim outlives its occurrence.
ClaimsReleasedAtEnd ==
    \A k \in Jobs : occ[k[1]] \notin Active => claims[k] = None

\* The comment in _process_devices: "wall clock moved backwards; do not dispatch
\* or close".
ClockStepClosesNothing ==
    \A k \in Jobs : IsDone(k) => receipts[k].reason # "window_not_open"

\* The docstring of _fire_quarantine: it auto-unassigns by "set_policy minus the
\* id, minus any OTHER already-quarantined id also sitting in that device's
\* set".  The sweep takes nothing else away and puts nothing back.
SweepRemovesOnlyQuarantined ==
    [][sweep.d # None /\ policy'[sweep.d] # policy[sweep.d] /\ sweep'.d = None
       => policy'[sweep.d] = policy[sweep.d] \ quarantined]_vars

\* Every occurrence ends, over crashes, shutdowns and failing calls.
EveryOccurrenceEnds == \A o \in Occs : <>(occ[o] \notin Active)

============================================================================
