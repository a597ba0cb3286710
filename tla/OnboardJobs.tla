----------------------------- MODULE OnboardJobs -----------------------------
(***************************************************************************)
(* Onboarding and removal of devices: the deployment records that say what *)
(* IRIS put on a box (deployment_records.py), the job queue whose workers   *)
(* run the install and removal recipes (gui_onboard.py), the submissions of *)
(* an operator and of a scheduled occurrence (management_api.py), device    *)
(* deletion and the restart of the console.                                 *)
(***************************************************************************)
EXTENDS Integers, FiniteSets, Sequences, SequencesExt

CONSTANTS
    Devices,        \* the devices of the inventory
    Workers,        \* max_concurrent: worker threads
    MaxQueued,      \* _MAX_QUEUED_JOBS
    MaxJobs,        \* bound: jobs ever admitted
    MaxReg,         \* bound: registrations of one device
    MaxTries,       \* MAX_RECEIPT_ATTEMPTS
    JobScenarios    \* platforms and bounds on each kind of mishap, one choice per behaviour

ASSUME OnboardAssumption ==
    {Workers, MaxQueued, MaxJobs, MaxReg, MaxTries} \subseteq Nat \ {0}

VARIABLES
    recs,       \* deployment records, a record's id is its position
    jobs,       \* the job table, a job's id is its position
    manualQ, schedQ,    \* ids waiting for a worker
    retiring,   \* cancelled jobs whose planned record is not yet retired
    fleet,      \* the registration of each device, 0 when it is not in the fleet
    box,        \* what is on each device
    receipt,    \* the occurrence's receipt for each device
    window,     \* whether the occurrence may still be admitted
    closing,    \* the service is shutting down
    req,        \* an operator's submission that has read but not yet admitted
    plan,       \* the runner's dispatch that has read but not yet admitted
    deleting,   \* a device deletion between two of its steps
    budget      \* mishaps left

jobVars == <<recs, jobs, manualQ, schedQ, retiring, fleet, box, receipt, window,
             closing, req, plan, deleting, budget>>

\* The platform of a device: "guestshell", "router" or "iox".
Platform(d) == budget.plat[d]
Idle == [kind |-> "none"]
RecIds == 1..Len(recs)
JobIds == 1..Len(jobs)
TerminalRec == {"removed", "superseded", "abandoned"}
StaleOnActivation == {"unknown", "drifted", "needs-reconcile"}
RecoverableStates == StaleOnActivation \cup {"applying"}
EndedJob == {"done", "error", "cancelled", "gone"}

Transitions == [
    planned   |-> {"applying", "unknown", "needs-reconcile", "removed", "abandoned"},
    applying  |-> {"active", "unknown", "needs-reconcile", "removed", "abandoned"},
    active    |-> {"drifted", "needs-reconcile", "applying", "removed", "superseded",
                   "abandoned"},
    unknown   |-> {"applying", "drifted", "needs-reconcile", "abandoned"},
    drifted   |-> {"applying", "needs-reconcile", "abandoned"}] @@
    [s \in {"needs-reconcile"} |-> {"applying", "abandoned"}] @@
    [s \in TerminalRec |-> {}]

-----------------------------------------------------------------------------
(* The record store: every operation is one locked read, check and write. *)

RecsOf(rs, d, S) == {r \in 1..Len(rs) : rs[r].dev = d /\ rs[r].st \in S}
Live(rs, d) == {r \in 1..Len(rs) : rs[r].dev = d /\ rs[r].st \notin TerminalRec}

ActiveFor(rs, d) == RecsOf(rs, d, {"active"})
\* The record a teardown may be authorised from; empty when there is none,
\* more than one element when the store refuses to choose.
Recoverable(rs, d) ==
    IF ActiveFor(rs, d) # {} THEN ActiveFor(rs, d) ELSE RecsOf(rs, d, RecoverableStates)

SupersedeOthers(rs, d, keep) ==
    [r \in 1..Len(rs) |->
        IF r = keep \/ rs[r].dev # d THEN rs[r]
        ELSE IF rs[r].st = "active" THEN [rs[r] EXCEPT !.st = "superseded"]
        ELSE IF rs[r].st \in StaleOnActivation THEN [rs[r] EXCEPT !.st = "abandoned"]
        ELSE rs[r]]

CanMove(rs, r, s) == IF r = 0 THEN TRUE ELSE s \in Transitions[rs[r].st]
Moved(rs, r, s) ==
    IF r = 0 \/ ~CanMove(rs, r, s) THEN rs
    ELSE LET new == [rs EXCEPT ![r].st = s] IN
         IF s = "active" THEN SupersedeOthers(new, rs[r].dev, r) ELSE new

NewRec(d, s, sched, pred) ==
    [dev |-> d, st |-> s, sched |-> sched, from |-> "none", jrn |-> "none", pred |-> pred,
     adopted |-> s = "active"]

\* retire_planned: only a plan; the attempt it succeeded comes back.
RetirePlanned(rs, r) ==
    IF r = 0 \/ rs[r].st # "planned" THEN rs
    ELSE LET p == rs[r].pred
             back == IF p = 0 THEN rs ELSE [rs EXCEPT ![p].st = "unknown"]
         IN  [back EXCEPT ![r].st = "removed"]

RetireDevice(rs, d) ==
    [r \in 1..Len(rs) |-> IF r \in Live(rs, d) THEN [rs[r] EXCEPT !.st = "abandoned"]
                                               ELSE rs[r]]

\* Mutant: an attempt that a restart interrupted is taken for never begun.
RecoverInterrupted_Removed(rs) ==
    [r \in 1..Len(rs) |-> IF rs[r].st \in {"planned", "applying"}
                          THEN [rs[r] EXCEPT !.st = "removed"] ELSE rs[r]]
\* Mutant: an interrupted record gets a state of its own, which no transition knows.
RecoverInterrupted_NewState(rs) ==
    [r \in 1..Len(rs) |-> IF rs[r].st \in {"planned", "applying"}
                          THEN [rs[r] EXCEPT !.st = "interrupted"] ELSE rs[r]]
\* recover_interrupted, at process start, before any request is served.
RecoverInterrupted(rs) ==
    [r \in 1..Len(rs) |->
        IF rs[r].st \in {"planned", "applying"}
        THEN [rs[r] EXCEPT !.from = rs[r].st, !.st = "unknown"] ELSE rs[r]]

\* Mutant: a scheduled admission does not look at the records there are.
AdmitRefusal_Blind(rs, d, resume) == FALSE
\* admit_scheduled: refused, the interrupted record taken up again, or a new
\* one (the successor of a finished IOx attempt when there is one).
AdmitRefusal(rs, d, resume) ==
    LET live == Live(rs, d) IN
    \/ Platform(d) = "router" /\ \E r \in live : rs[r].st \in RecoverableStates \cup {"active"}
    \/ \E r \in live : rs[r].st = "unknown" /\ ~rs[r].sched
    \/ \E r \in live : r # resume
    \/ /\ resume # 0
       /\ \/ rs[resume].st \notin {"planned", "unknown"}
          \/ rs[resume].jrn = "open"
          \/ rs[resume].jrn = "closed" /\ rs[resume].st # "unknown"

AdmitScheduled(rs, d, resume) ==
    IF resume = 0 THEN [rs |-> Append(rs, NewRec(d, "planned", TRUE, 0)), id |-> Len(rs) + 1]
    ELSE IF rs[resume].jrn = "none"
    THEN [rs |-> IF rs[resume].from = "planned"
                 THEN [rs EXCEPT ![resume].st = "planned"] ELSE rs, id |-> resume]
    ELSE [rs |-> Append([rs EXCEPT ![resume].st = "abandoned"],
                        NewRec(d, "planned", TRUE, resume)), id |-> Len(rs) + 1]

\* update_planned, or update_scheduled_recovery for a resumed apply.
MayRefresh(rs, r) ==
    \/ rs[r].st = "planned"
    \/ rs[r].st = "unknown" /\ rs[r].from = "applying" /\ rs[r].sched

-----------------------------------------------------------------------------
(* Admission. *)

NewJob(d, act, sched, rec, force, resume, reg) ==
    [dev |-> d, act |-> act, sched |-> sched, st |-> "queued", pc |-> "queue", rec |-> rec,
     force |-> force, resume |-> resume, reg |-> reg, abort |-> FALSE, reap |-> 0,
     out |-> "none"]

JobsOf(d) == {j \in JobIds : jobs[j].dev = d /\ jobs[j].st \notin EndedJob}
Waiting == {j \in JobIds : jobs[j].st = "queued"}
Occupied == {j \in JobIds : jobs[j].pc \notin {"queue", "idle"}}
SchedLimit == Workers \div 2
ManualReservation == (Workers + 1) \div 2
Room == Len(jobs) + (IF req = Idle THEN 0 ELSE 1) + (IF plan = Idle THEN 0 ELSE 1) < MaxJobs

\* _cancel_queued_locked.
Cancelled(js, S) == [j \in 1..Len(js) |->
    IF j \in S
    THEN [js[j] EXCEPT !.st = "cancelled", !.pc = IF @ = "queue" THEN "idle" ELSE @]
    ELSE js[j]]
Unqueued(q, S) == SelectSeq(q, LAMBDA j : j \notin S)

\* The operator asks: the handler reads the fleet and the records ...
SubmitRead(d, act, force) ==
    /\ req = Idle /\ fleet[d] # 0 /\ Room
    /\ force => act = "undeploy"
    /\ act = "onboard" /\ Platform(d) = "router" => Recoverable(recs, d) = {}
    /\ act = "undeploy" /\ ~force => Cardinality(Recoverable(recs, d)) = 1
    /\ req' = [kind |-> act, dev |-> d, force |-> force, reg |-> fleet[d],
               rec |-> IF act = "undeploy" /\ ~force
                       THEN CHOOSE r \in Recoverable(recs, d) : TRUE ELSE 0]
    /\ UNCHANGED <<recs, jobs, manualQ, schedQ, retiring, fleet, box, receipt, window,
                   closing, plan, deleting, budget>>

\* ... (a record whose teardown cannot be rendered is set aside at once) ...
SubmitUnrenderable(d) ==
    /\ fleet[d] # 0 /\ budget.io > 0 /\ Cardinality(Recoverable(recs, d)) = 1
    /\ recs' = Moved(recs, CHOOSE r \in Recoverable(recs, d) : TRUE, "needs-reconcile")
    /\ budget' = [budget EXCEPT !.io = @ - 1]
    /\ UNCHANGED <<jobs, manualQ, schedQ, retiring, fleet, box, receipt, window, closing,
                   req, plan, deleting>>

\* Mutant: the busy guard looks only for a job of the same kind.
Busy_SameOnly(d, act) == {j \in JobsOf(d) : jobs[j].act = act}
Busy(d, act) == JobsOf(d)
\* ... and the admission lock decides: a live job of the same kind is joined,
\* of the other kind refuses; a queued scheduled job gives way.
SubmitAdmit ==
    LET d == req.dev
        yielding == {j \in JobsOf(d) : jobs[j].st = "queued" /\ jobs[j].sched}
        busy == Busy(d, req.kind) \ yielding
        iox == Platform(d) = "iox"
        retired == FoldLeft(LAMBDA rs, j : IF j \in yielding
                                           THEN RetirePlanned(rs, jobs[j].rec) ELSE rs,
                            recs, [j \in 1..Len(jobs) |-> j])
        creates == req.kind = "onboard" /\ ~iox
    IN  /\ req # Idle /\ req' = Idle
        /\ IF closing \/ busy # {} \/ Cardinality(Waiting \ yielding) >= MaxQueued
           THEN UNCHANGED <<recs, jobs, manualQ, schedQ>>
           ELSE /\ recs' = IF creates
                           THEN Append(retired, NewRec(d, "planned", FALSE, 0)) ELSE retired
                /\ jobs' = Append(Cancelled(jobs, yielding),
                                  NewJob(d, req.kind, FALSE,
                                         IF creates THEN Len(recs) + 1 ELSE req.rec,
                                         req.force, 0, req.reg))
                /\ manualQ' = Append(manualQ, Len(jobs) + 1)
                /\ schedQ' = Unqueued(schedQ, yielding)
        /\ UNCHANGED <<retiring, fleet, box, receipt, window, closing, plan, deleting, budget>>

\* Adoption has no busy guard: an active record for a box IRIS finds in place.
Adopt(d) ==
    /\ fleet[d] # 0 /\ Platform(d) # "router" /\ ActiveFor(recs, d) = {}
    /\ budget.adopt > 0
    /\ recs' = Append(SupersedeOthers(recs, d, 0), NewRec(d, "active", FALSE, 0))
    /\ budget' = [budget EXCEPT !.adopt = @ - 1]
    /\ UNCHANGED <<jobs, manualQ, schedQ, retiring, fleet, box, receipt, window, closing,
                   req, plan, deleting>>

\* cancel_queued: the jobs under the lock, their records afterwards.
CancelQueued(S) ==
    /\ S # {} /\ S \subseteq Waiting
    /\ jobs' = Cancelled(jobs, S)
    /\ manualQ' = Unqueued(manualQ, S) /\ schedQ' = Unqueued(schedQ, S)
    /\ retiring' = retiring \cup {j \in S : jobs[j].act = "onboard" /\ jobs[j].rec # 0}

OperatorCancels ==
    /\ budget.stop > 0 /\ budget' = [budget EXCEPT !.stop = @ - 1]
    /\ \E S \in SUBSET Waiting : CancelQueued(S)
    /\ UNCHANGED <<recs, fleet, box, receipt, window, closing, req, plan, deleting>>

RetireCancelled(j) ==
    /\ j \in retiring /\ retiring' = retiring \ {j}
    /\ recs' = RetirePlanned(recs, jobs[j].rec)
    /\ UNCHANGED <<jobs, manualQ, schedQ, fleet, box, receipt, window, closing, req, plan,
                   deleting, budget>>

\* abort: a running job is told to stop before its recipe, or the recipe is
\* signalled.
Abortable(j) == jobs[j].st = "running" /\ ~jobs[j].abort
OperatorAborts(j) ==
    /\ Abortable(j) /\ budget.stop > 0
    /\ jobs' = [jobs EXCEPT ![j].abort = TRUE]
    /\ budget' = [budget EXCEPT !.stop = @ - 1]
    /\ UNCHANGED <<recs, manualQ, schedQ, retiring, fleet, box, receipt, window, closing,
                   req, plan, deleting>>

-----------------------------------------------------------------------------
(* A worker: one job from the queue to its last step. *)

Settled(d) == receipt[d].st \in {"ok", "skipped", "error"}
\* Mutant: the registration the occurrence was planned for is not compared.
AuthorityHolds_AnyRegistration(d, reg) == window = "open" /\ ~Settled(d) /\ fleet[d] # 0
\* _check_live, under the role, membership and revocation locks.
AuthorityHolds(d, reg) == window = "open" /\ ~Settled(d) /\ fleet[d] = reg

Goto1(j, pc) == [jobs EXCEPT ![j].pc = pc]
Ending(j, out) == [jobs EXCEPT ![j].pc = "finish", ![j].out = out]
WorkerOnly == UNCHANGED <<manualQ, schedQ, retiring, fleet, receipt, window, closing, req,
                          plan, deleting>>

\* _reserve_work_locked: operators' jobs first, scheduled ones in at most half
\* of the workers.
ReserveWork ==
    /\ Cardinality(Occupied) < Workers
    /\ \/ /\ manualQ # <<>>
          /\ jobs' = Goto1(Head(manualQ), "reserved")
          /\ manualQ' = Tail(manualQ) /\ UNCHANGED schedQ
       \/ /\ manualQ = <<>> /\ schedQ # <<>>
          /\ Cardinality({j \in Occupied : jobs[j].sched}) < SchedLimit
          /\ jobs' = Goto1(Head(schedQ), "reserved")
          /\ schedQ' = Tail(schedQ) /\ UNCHANGED manualQ
    /\ UNCHANGED <<recs, retiring, fleet, box, receipt, window, closing, req, plan,
                   deleting, budget>>

\* _execute_reserved: a scheduled job is authorised again before it runs.
ExecuteReserved(j) ==
    /\ jobs[j].pc = "reserved"
    /\ jobs[j].sched => deleting = Idle
    /\ jobs' = IF jobs[j].st # "queued" THEN Goto1(j, "idle")
               ELSE IF jobs[j].sched /\ ~AuthorityHolds(jobs[j].dev, jobs[j].reg)
               THEN [jobs EXCEPT ![j].st = "cancelled", ![j].pc = "drop"]
               ELSE [jobs EXCEPT ![j].st = "running", ![j].pc = "env"]
    /\ WorkerOnly /\ UNCHANGED <<recs, box, budget>>

DropPlanned(j) ==
    /\ jobs[j].pc = "drop" /\ jobs' = Goto1(j, "idle")
    /\ recs' = RetirePlanned(recs, jobs[j].rec)
    /\ WorkerOnly /\ UNCHANGED <<box, budget>>

\* Mutant: the failed job's planned record is left behind.
FailEarly_Keep(j) == jobs' = Ending(j, "error") /\ UNCHANGED recs
\* Everything that fails before the recipe: the device was not touched, so an
\* onboarding's planned record is retired.
FailEarly(j) ==
    /\ jobs' = Ending(j, "error")
    /\ recs' = IF jobs[j].act = "onboard" THEN RetirePlanned(recs, jobs[j].rec) ELSE recs

\* Environment, platform and read-only preflight. A router that already carries
\* a Guest Shell is refused.
Preflight(j) ==
    LET d == jobs[j].dev
        binds == jobs[j].act = "onboard" /\ Platform(d) # "iox"
    IN  /\ jobs[j].pc = "env"
        /\ \/ FailEarly(j)
           \/ /\ fleet[d] # 0
              /\ binds => MayRefresh(recs, jobs[j].rec)
              /\ binds /\ Platform(d) = "router" => box[d].st = "clean"
              /\ jobs' = Goto1(j, "check") /\ UNCHANGED recs
        /\ WorkerOnly /\ UNCHANGED <<box, budget>>

CheckAbort(j) ==
    /\ jobs[j].pc = "check"
    /\ IF jobs[j].abort THEN FailEarly(j)
       ELSE /\ jobs' = Goto1(j, IF Platform(jobs[j].dev) = "iox" THEN "ctrl" ELSE "mint")
            /\ UNCHANGED recs
    /\ WorkerOnly /\ UNCHANGED <<box, budget>>

\* The IOx controller reads the board; then its prepare callback admits the
\* record, under the same authority as an admission.
ControllerPreflight(j) ==
    /\ jobs[j].pc = "ctrl"
    /\ \/ jobs' = [jobs EXCEPT ![j].pc = "post", ![j].out = "bad"]
       \/ ~jobs[j].abort /\ jobs' = Goto1(j, "prep")
    /\ WorkerOnly /\ UNCHANGED <<recs, box, budget>>

ControllerPrepare(j) ==
    LET d == jobs[j].dev
        allowed == /\ jobs[j].st = "running" /\ ~jobs[j].abort
                   /\ jobs[j].sched => /\ AuthorityHolds(d, jobs[j].reg)
                                       /\ ~AdmitRefusal(recs, d, jobs[j].resume)
        got == IF jobs[j].act = "undeploy" THEN [rs |-> recs, id |-> jobs[j].rec]
               ELSE IF jobs[j].sched THEN AdmitScheduled(recs, d, jobs[j].resume)
               ELSE [rs |-> Append(recs, NewRec(d, "planned", FALSE, 0)), id |-> Len(recs) + 1]
    IN  /\ jobs[j].pc = "prep"
        /\ jobs[j].sched => deleting = Idle
        /\ IF allowed
           THEN recs' = got.rs /\ jobs' = [jobs EXCEPT ![j].pc = "bind", ![j].rec = got.id]
           ELSE UNCHANGED recs /\ jobs' = [jobs EXCEPT ![j].pc = "post", ![j].out = "bad"]
        /\ WorkerOnly /\ UNCHANGED <<box, budget>>

ControllerBind(j) ==
    LET r == jobs[j].rec IN
    /\ jobs[j].pc = "bind"
    /\ IF jobs[j].act = "onboard" /\ ~MayRefresh(recs, r)
       THEN /\ jobs' = [jobs EXCEPT ![j].pc = "post", ![j].out = "bad"]
            /\ recs' = RetirePlanned(recs, r)
       ELSE jobs' = Goto1(j, "mint") /\ UNCHANGED recs
    /\ WorkerOnly /\ UNCHANGED <<box, budget>>

\* Token and bootstrap, then the durable "applying" mark, then the recipe.
Apply1(j) ==
    LET r == jobs[j].rec
        iox == Platform(jobs[j].dev) = "iox"
        marked == Moved(recs, r, "applying")
    IN  /\ jobs[j].pc = "mint"
        /\ \/ ~iox /\ jobs[j].act = "onboard" /\ FailEarly(j)
           \/ /\ CanMove(recs, r, "applying") /\ jobs' = Goto1(j, "script")
              /\ recs' = IF iox /\ r # 0 THEN [marked EXCEPT ![r].jrn = "open"] ELSE marked
           \/ /\ ~CanMove(recs, r, "applying") /\ UNCHANGED recs
              /\ jobs' = IF iox THEN [jobs EXCEPT ![j].pc = "post", ![j].out = "bad"]
                         ELSE Ending(j, "stale")
        /\ WorkerOnly /\ UNCHANGED <<box, budget>>

Target(j) == IF jobs[j].act = "onboard" THEN "iris" ELSE "clean"
\* What an interrupted recipe may leave; a removal adds nothing to a clean box.
Remains(j) == IF jobs[j].act = "undeploy" /\ box[jobs[j].dev].st = "clean" THEN {"clean"}
              ELSE {box[jobs[j].dev].st, "partial", Target(j)}
\* The recipe ends: by itself, killed, or by losing the device half way.
RecipeReturns(j) ==
    LET d == jobs[j].dev
        r == jobs[j].rec IN
    /\ jobs[j].pc = "script"
    /\ \E out \in {"ok", "bad"}, left \in Remains(j) :
          /\ out = "ok" => left = Target(j)
          /\ jobs' = [jobs EXCEPT ![j].pc = "post", ![j].out = out]
          /\ box' = [box EXCEPT ![d] = [st |-> left, reg |-> IF jobs[j].act = "onboard"
                                                           THEN jobs[j].reg ELSE @.reg]]
          /\ \/ UNCHANGED recs
             \/ r # 0 /\ recs[r].jrn = "open" /\ recs' = [recs EXCEPT ![r].jrn = "closed"]
    /\ WorkerOnly /\ UNCHANGED budget

\* The record after the recipe; a store that cannot be written leaves it.
SettleRecord(j) ==
    LET r == jobs[j].rec
        d == jobs[j].dev
        ok == jobs[j].out = "ok"
        kept == ok /\ jobs[j].force /\ Platform(d) # "iox"
    IN  /\ jobs[j].pc = "post" /\ jobs' = Goto1(j, "finish")
        /\ \/ /\ recs' = IF kept THEN RetireDevice(recs, d)
                          ELSE Moved(recs, r, IF ~ok THEN "needs-reconcile"
                                              ELSE IF jobs[j].act = "onboard" THEN "active"
                                              ELSE "removed")
              /\ UNCHANGED budget
           \/ /\ budget.io > 0 /\ budget' = [budget EXCEPT !.io = @ - 1, !.failed = TRUE]
              /\ UNCHANGED recs
        /\ WorkerOnly /\ UNCHANGED box

\* _finish: the log is written, then the job reports its result.
FinishJob(j) ==
    /\ jobs[j].pc = "finish"
    /\ jobs' = [jobs EXCEPT ![j].pc = "idle", ![j].abort = FALSE, ![j].resume = 0,
                            ![j].st = IF jobs[j].out = "ok" THEN "done" ELSE "error"]
    /\ WorkerOnly /\ UNCHANGED <<recs, box, budget>>

\* reap_overdue_jobs: terminate, kill, and at last give the job up while its
\* worker may still be in the recipe. The IOx controller is only cancelled. Only a
\* step that waits for the device can outlast the deadline and the grace periods.
Reap(j) ==
    /\ budget.slow /\ jobs[j].st = "running" /\ jobs[j].pc \in {"env", "ctrl", "script"}
    /\ jobs[j].reap < IF Platform(jobs[j].dev) = "iox" THEN 1 ELSE 3
    /\ jobs' = [jobs EXCEPT ![j].reap = jobs[j].reap + 1, ![j].abort = TRUE,
                            ![j].st = IF jobs[j].reap + 1 = 3 THEN "error" ELSE "running"]
    /\ IF jobs[j].reap + 1 = 3
       THEN budget.giveup > 0 /\ budget' = [budget EXCEPT !.giveup = @ - 1, !.gaveup = TRUE]
       ELSE UNCHANGED budget
    /\ WorkerOnly /\ UNCHANGED <<recs, box>>

-----------------------------------------------------------------------------
(* The occurrence of an onboarding schedule: one runner thread. *)

SnapshotReg == 1
JobResult(j) ==
    CASE jobs[j].st \in {"queued", "running"} -> "submitted"
      [] jobs[j].st = "done" -> "ok"
      [] jobs[j].st = "cancelled" -> "skipped"
      [] OTHER -> "error"
Owned(d) == {r \in Live(recs, d) : recs[r].sched}
OwnJobs(d) == {j \in JobIds : jobs[j].dev = d /\ jobs[j].sched /\ jobs[j].st # "gone"}
Receipt(d, st) == [receipt EXCEPT ![d].st = st]
RunnerOnly == UNCHANGED <<retiring, fleet, box, window, closing, req, deleting, budget>>

\* _dispatch_onboard up to the admission.
RunnerDispatch(d) ==
    LET own == Owned(d) IN
    /\ plan = Idle /\ window = "open" /\ receipt[d].st \in {"none", "intent"} /\ Room
    /\ \/ Cardinality(own) > 1 /\ receipt' = Receipt(d, "error") /\ UNCHANGED plan
       \/ /\ \E r \in own : own = {r} /\ recs[r].st = "active"
          /\ receipt' = Receipt(d, "ok") /\ UNCHANGED plan
       \/ /\ Cardinality(own) <= 1 /\ \A r \in own : recs[r].st # "active"
          /\ \/ /\ \/ fleet[d] # SnapshotReg
                   \/ OwnJobs(d) = {} /\ JobsOf(d) # {}
                /\ receipt' = Receipt(d, "skipped") /\ UNCHANGED plan
             \/ /\ fleet[d] = SnapshotReg /\ OwnJobs(d) # {}
                /\ LET j == CHOOSE k \in OwnJobs(d) : \A i \in OwnJobs(d) : i <= k
                   IN  receipt' = [receipt EXCEPT ![d].st = JobResult(j), ![d].job = j]
                /\ UNCHANGED plan
             \/ /\ fleet[d] = SnapshotReg /\ JobsOf(d) = {} /\ OwnJobs(d) = {}
                /\ receipt' = Receipt(d, "intent")
                /\ plan' = [kind |-> "admit", dev |-> d,
                            resume |-> IF \E r \in own : recs[r].st \in {"planned", "unknown"}
                                       THEN CHOOSE r \in own : TRUE ELSE 0]
    /\ UNCHANGED <<recs, jobs, manualQ, schedQ>> /\ RunnerOnly

\* The admission, with the role, membership and revocation locks held.
RunnerAdmit ==
    LET d == plan.dev
        iox == Platform(d) = "iox"
        got == IF iox THEN [rs |-> recs, id |-> 0] ELSE AdmitScheduled(recs, d, plan.resume)
        refused(st) == /\ receipt' = Receipt(d, st) /\ plan' = Idle
                       /\ UNCHANGED <<recs, jobs, schedQ>>
        busy == JobsOf(d) # {}
        full == \/ Cardinality(Waiting) >= MaxQueued
                \/ Cardinality({j \in Waiting : jobs[j].sched}) >= MaxQueued - ManualReservation
    IN  /\ plan # Idle /\ plan.kind = "admit" /\ deleting = Idle
        /\ IF \/ ~AuthorityHolds(d, SnapshotReg)
              \/ SchedLimit = 0 \/ busy
              \/ ~iox /\ ~full /\ ~closing /\ AdmitRefusal(recs, d, plan.resume)
           THEN refused("skipped")
           ELSE IF closing THEN refused("error")
           ELSE IF full THEN refused("intent")
           ELSE /\ recs' = got.rs
                /\ jobs' = Append(jobs, NewJob(d, "onboard", TRUE, got.id, FALSE,
                                              plan.resume, SnapshotReg))
                /\ schedQ' = Append(schedQ, Len(jobs) + 1)
                /\ plan' = [kind |-> "save", dev |-> d, job |-> Len(jobs) + 1]
                /\ UNCHANGED receipt
        /\ UNCHANGED manualQ /\ RunnerOnly

\* The receipt is saved after the job was admitted.
RunnerSave ==
    /\ plan # Idle /\ plan.kind = "save" /\ plan' = Idle
    /\ receipt' = [receipt EXCEPT ![plan.dev].st = JobResult(plan.job),
                                  ![plan.dev].job = plan.job]
    /\ UNCHANGED <<recs, jobs, manualQ, schedQ>> /\ RunnerOnly

\* Mutant: the receipt of a job that is gone waits for it.
ReconcileReceipt_Wait(d) == "submitted"
\* _reconcile_onboard: what the records say of a job that is no longer there.
ReconcileReceipt(d) ==
    LET own == Owned(d) IN
    IF Cardinality(own) > 1 THEN "error"
    ELSE IF \E r \in own : recs[r].st = "active" THEN "ok"
    ELSE IF \E r \in own : recs[r].st = "applying" THEN "submitted"
    ELSE IF \E r \in own : /\ recs[r].st \in {"planned", "unknown"}
                            /\ ~(recs[r].st = "unknown" /\ Platform(d) = "router")
    THEN "retry"
    ELSE IF Live(recs, d) # {} THEN "skipped" ELSE "retry"

\* _poll, _retry and the settlement of what was never submitted.
RunnerPoll(d) ==
    LET j == receipt[d].job
        present == j # 0 /\ jobs[j].st # "gone"
        any == IF present THEN {j} ELSE OwnJobs(d)
        answer == IF any # {} THEN JobResult(CHOOSE k \in any : \A i \in any : i <= k)
                  ELSE ReconcileReceipt(d)
    IN  /\ plan = Idle
        /\ \/ receipt[d].st = "submitted"
           \/ window = "closed" /\ receipt[d].st = "intent"
        /\ answer = "submitted" => receipt[d].st # "submitted"
        /\ receipt' = IF answer # "retry" THEN Receipt(d, answer)
                      ELSE IF window = "closed" THEN Receipt(d, "skipped")
                      ELSE IF receipt[d].att >= MaxTries THEN Receipt(d, "error")
                      ELSE [receipt EXCEPT ![d] = [st |-> "intent", job |-> 0, att |-> @.att + 1]]
        /\ UNCHANGED <<recs, jobs, manualQ, schedQ, plan>> /\ RunnerOnly

RunnerExpires(d) ==
    /\ plan = Idle /\ window = "closed" /\ receipt[d].st = "none"
    /\ receipt' = Receipt(d, "skipped")
    /\ UNCHANGED <<recs, jobs, manualQ, schedQ, plan>> /\ RunnerOnly

\* _cancel_closed: the queued jobs of an occurrence whose window is over.
RunnerCancels(d) ==
    /\ plan = Idle /\ window = "closed" /\ receipt[d].st = "submitted" /\ receipt[d].job # 0
    /\ CancelQueued({receipt[d].job})
    /\ UNCHANGED <<recs, fleet, box, receipt, window, closing, req, plan, deleting, budget>>

CloseWindow ==
    /\ window = "open" /\ window' = "closed"
    /\ UNCHANGED <<recs, jobs, manualQ, schedQ, retiring, fleet, box, receipt, closing, req,
                   plan, deleting, budget>>

-----------------------------------------------------------------------------
(* Deletion (the membership lock is held over its three steps), the return *)
(* of a device, shutdown and restart.                                      *)

DeleteDevice(d) ==
    /\ deleting = Idle /\ fleet[d] # 0 /\ budget.del > 0
    /\ fleet' = [fleet EXCEPT ![d] = 0]
    /\ deleting' = [kind |-> "records", dev |-> d]
    /\ budget' = [budget EXCEPT !.del = @ - 1]
    /\ UNCHANGED <<recs, jobs, manualQ, schedQ, retiring, box, receipt, window, closing, req, plan>>

DeleteRecords ==
    /\ deleting # Idle /\ deleting.kind = "records"
    /\ deleting' = [deleting EXCEPT !.kind = "jobs"]
    /\ recs' = RetireDevice(recs, deleting.dev)
    /\ UNCHANGED <<jobs, manualQ, schedQ, retiring, fleet, box, receipt, window, closing, req,
                   plan, budget>>

\* cancel_device.
DeleteJobs ==
    LET mine == JobsOf(deleting.dev)
        waiting == mine \cap Waiting
        stopped == Cancelled(jobs, waiting)
    IN  /\ deleting # Idle /\ deleting.kind = "jobs" /\ deleting' = Idle
        /\ jobs' = [j \in JobIds |-> IF j \in mine \ waiting
                                     THEN [stopped[j] EXCEPT !.abort = TRUE] ELSE stopped[j]]
        /\ manualQ' = Unqueued(manualQ, waiting) /\ schedQ' = Unqueued(schedQ, waiting)
        /\ retiring' = retiring \cup {j \in waiting : jobs[j].act = "onboard" /\ jobs[j].rec # 0}
        /\ UNCHANGED <<recs, fleet, box, receipt, window, closing, req, plan, budget>>

Register(d) ==
    /\ deleting = Idle /\ fleet[d] = 0 /\ budget.reg < MaxReg
    /\ budget' = [budget EXCEPT !.reg = @ + 1]
    /\ fleet' = [fleet EXCEPT ![d] = budget.reg + 1]
    /\ UNCHANGED <<recs, jobs, manualQ, schedQ, retiring, box, receipt, window, closing, req,
                   plan, deleting>>

\* shutdown: nothing is admitted any more, what is queued is cancelled.
Shutdown ==
    /\ ~closing /\ closing' = TRUE /\ budget.crash > 0
    /\ jobs' = Cancelled(jobs, Waiting) /\ manualQ' = <<>> /\ schedQ' = <<>>
    /\ retiring' = retiring \cup {j \in Waiting : jobs[j].act = "onboard" /\ jobs[j].rec # 0}
    /\ UNCHANGED <<recs, fleet, box, receipt, window, req, plan, deleting, budget>>

\* The process starts again, after a shutdown or a crash: the job table is gone,
\* recipes die with it, and interrupted records become "unknown".
Restart ==
    /\ budget.crash > 0 /\ budget' = [budget EXCEPT !.crash = @ - 1]
    /\ jobs' = [j \in JobIds |-> [NewJob(jobs[j].dev, "onboard", FALSE, 0, FALSE, 0, 0)
                                  EXCEPT !.st = "gone", !.pc = "idle"]]
    /\ \E cut \in SUBSET {j \in JobIds : jobs[j].pc = "script" /\ "partial" \in Remains(j)} :
          box' = [d \in Devices |-> IF \E j \in cut : jobs[j].dev = d
                                    THEN [st |-> "partial",
                                          reg |-> LET j == CHOOSE j \in cut : jobs[j].dev = d IN
                                                  IF jobs[j].act = "onboard" THEN jobs[j].reg
                                                  ELSE box[d].reg]
                                    ELSE box[d]]
    /\ recs' = RecoverInterrupted(recs)
    /\ manualQ' = <<>> /\ schedQ' = <<>> /\ retiring' = {} /\ closing' = FALSE
    /\ req' = Idle /\ plan' = Idle /\ deleting' = Idle
    /\ UNCHANGED <<fleet, receipt, window>>

-----------------------------------------------------------------------------
JobsInit ==
    /\ budget \in JobScenarios
    /\ recs = <<>> /\ jobs = <<>> /\ manualQ = <<>> /\ schedQ = <<>> /\ retiring = {}
    /\ fleet = [d \in Devices |-> SnapshotReg]
    /\ box = [d \in Devices |-> [st |-> "clean", reg |-> SnapshotReg]]
    /\ receipt = [d \in Devices |-> [st |-> IF budget.sched THEN "none" ELSE "skipped",
                                     job |-> 0, att |-> 1]]
    /\ window = "open" /\ closing = FALSE
    /\ req = Idle /\ plan = Idle /\ deleting = Idle

WorkerStep(j) ==
    \/ ExecuteReserved(j) \/ DropPlanned(j) \/ Preflight(j) \/ CheckAbort(j)
    \/ ControllerPreflight(j) \/ ControllerPrepare(j) \/ ControllerBind(j) \/ Apply1(j)
    \/ SettleRecord(j) \/ FinishJob(j)
RunnerStep ==
    \/ RunnerAdmit \/ RunnerSave
    \/ \E d \in Devices : RunnerDispatch(d) \/ RunnerPoll(d) \/ RunnerExpires(d)
                          \/ RunnerCancels(d)

JobsNext ==
    \/ \E d \in Devices : \/ \E act \in {"onboard", "undeploy"}, f \in BOOLEAN : SubmitRead(d, act, f)
                          \/ SubmitUnrenderable(d) \/ Adopt(d) \/ DeleteDevice(d) \/ Register(d)
    \/ SubmitAdmit \/ OperatorCancels \/ ReserveWork \/ RunnerStep \/ CloseWindow
    \/ \E j \in JobIds : \/ RetireCancelled(j) \/ OperatorAborts(j) \/ WorkerStep(j)
                          \/ RecipeReturns(j) \/ Reap(j)
    \/ DeleteRecords \/ DeleteJobs \/ Shutdown \/ Restart

JobsSpec == JobsInit /\ [][JobsNext]_jobVars
-----------------------------------------------------------------------------
JobStates == {"queued", "running"} \cup EndedJob
\* Types; and the workers never exceed the pool, the scheduled ones never its half.
OnboardTypeOK ==
    /\ \A r \in RecIds : recs[r].dev \in Devices /\ recs[r].st \in DOMAIN Transitions
    /\ \A j \in JobIds : jobs[j].st \in JobStates /\ jobs[j].rec \in 0..Len(recs)
    /\ Cardinality(Occupied) <= Workers
    /\ Cardinality({j \in Occupied : jobs[j].sched}) <= SchedLimit
    /\ fleet \in [Devices -> 0..MaxReg] /\ window \in {"open", "closed"}
    /\ retiring \subseteq JobIds

\* Two recipes never work on one device at the same time, except where the reaper
\* gave up a recipe that survived its kill (busy guard of _admit, reap_overdue_jobs).
NoTwoRecipes ==
    \A i, j \in JobIds : /\ i # j /\ jobs[i].dev = jobs[j].dev
                         /\ jobs[i].pc = "script" /\ jobs[j].pc = "script"
                         => 3 \in {jobs[i].reap, jobs[j].reap}

\* A box that carries anything of IRIS under its present registration has a record
\* an undeploy may be authorised from (or a planned one that hands the place back to
\* its predecessor when it is retired), through every crash and failed write.
ConfiguredIsRecorded ==
    \A d \in Devices :
        /\ fleet[d] # 0 /\ box[d].st # "clean" /\ box[d].reg = fleet[d]
        /\ ~budget.gaveup
        => \/ Recoverable(recs, d) # {}
           \/ \E r \in RecsOf(recs, d, {"planned"}) : recs[r].pred # 0

\* A record in flight belongs to a job in flight: "planned" to one that has not begun
\* its recipe, "applying" to one inside it, as long as the store could be written.
InFlightIsOwned ==
    ~budget.failed =>
    \A r \in RecIds :
        /\ recs[r].st = "planned" => \E j \in JobIds : jobs[j].rec = r
               /\ (jobs[j].st \in {"queued", "running"} \/ jobs[j].reap = 3
                   \/ jobs[j].pc = "drop" \/ j \in retiring)
        /\ recs[r].st = "applying" => \E j \in JobIds : jobs[j].rec = r
               /\ jobs[j].pc \in {"script", "post"}

Starting(j) == jobs[j].pc = "mint" /\ jobs'[j].pc = "script" /\ jobs[j].reap # 3
\* A scheduled recipe never runs over a deployment somebody else made, unless it was
\* adopted after the job was admitted.
ScheduledNewOnly ==
    \A j \in JobIds : Starting(j) /\ jobs[j].sched =>
       \A r \in Live(recs, jobs[j].dev) : r = jobs[j].rec \/ recs[r].adopted

\* A scheduled recipe never runs against a device that was deleted and registered
\* again since the occurrence was planned.
ScheduledSameRegistration ==
    \A j \in JobIds : Starting(j) /\ jobs[j].sched =>
       fleet[jobs[j].dev] \in {0, SnapshotReg}

\* Every job ends, even when its recipe hangs, and every receipt of the occurrence
\* is settled, through cancellation, deletion, shutdown and restart.  Holds again
\* and again.
JobsAndReceiptsEnd ==
    /\ \A i \in JobIds : jobs[i].st \in EndedJob
    /\ \A d \in Devices : Settled(d)

\* deployment_records.py says that with "applying" among the recoverable states a
\* device whose onboarding died is not stranded: an undeploy job is never refused
\* for a record that no other job is working on.
StrandedIsUndeployable ==
    \A j \in JobIds : jobs[j].act = "undeploy" /\ jobs[j].out = "stale" =>
        ~ /\ recs[jobs[j].rec].st = "applying"
          /\ \A i \in JobIds \ {j} : jobs[i].rec = jobs[j].rec => jobs[i].pc = "idle"

\* _supersede_other_actives says that records in flight fail closed by themselves when
\* another record's activation made them stale: a removal that ran to its end does not
\* leave an active record behind.
RemovedLeavesNoActive ==
    [][\A r \in RecIds : recs[r].st = "applying" /\ recs'[r].st = "removed"
          => ActiveFor(recs', recs[r].dev) = {}]_jobVars

\* What holds in every state of the queue and the records.
JobsSafe ==
  /\ OnboardTypeOK
  /\ NoTwoRecipes
  /\ ConfiguredIsRecorded
  /\ InFlightIsOwned
=============================================================================
