-------------------------- MODULE HostMaintenance --------------------------
(***************************************************************************)
(* The host maintenance worker of the managed installer: backups of a      *)
(* deployment (backup.py, backup_capture.py), restores (restore.py,        *)
(* restore_storage.py), credential rotations (credential_maintenance.py)   *)
(* and the deletion of saved backups (lifecycle_retention.py), run one at  *)
(* a time by lifecycle_worker.py.                                          *)
(*                                                                         *)
(* Every operation stops the services, works on their storage and starts   *)
(* them again; each keeps a record on disk that a later, explicitly        *)
(* requested recovery of the SAME operation reads.  The worker may be      *)
(* killed between any two writes, and a step may fail.                     *)
(*                                                                         *)
(* A request is a number; Requests[j] is its action.  A backup made by     *)
(* request j is saved under j; a rotation that has to repeat its own       *)
(* backup saves it under j + Again.  Contents are a generation number:     *)
(* c of the data a component holds, f of the replay floor and audit        *)
(* history in the state volume, a number per credential file.              *)
(***************************************************************************)
EXTENDS Integers, FiniteSets

CONSTANTS RequestPlans,  \* the operators' plans: sequences of actions, one per request
          MaxWrites,     \* bound: times the running server changes its data
          WorkFaults,    \* bound: steps that fail
          WorkCrashes    \* bound: times the worker is killed

ASSUME MaintenanceAssumption ==
  /\ MaxWrites \in Nat /\ WorkFaults \in Nat /\ WorkCrashes \in Nat

VARIABLES requests,  \* the plan of this behaviour
          host,      \* svcs, data, cred: running services, storage, credential files; top: the highest floor served
          book,      \* the worker's files: jobs, saved archives, cap, stat, rst, rot, del
          wk,        \* the worker's thread
          mleft      \* writes, faults and crashes left

maintVars == <<requests, host, book, wk, mleft>>

Services == {"console", "iris"}
Components == {"state", "images"}
CredFiles == {"secret", "compose"}
Archives == {"data", "recovery"}
Ids == DOMAIN requests
Again == 10
Bids == Ids \cup {j + Again : j \in Ids}

Gone == [c |-> 0, f |-> 0]
NoArchive == [there |-> FALSE, c |-> 0, g |-> 0, still |-> FALSE]
NoPlan == [set |-> FALSE, before |-> [x \in Components |-> Gone], after |-> [x \in Components |-> Gone]]
NoCapture == [id |-> 0, phase |-> "none", pubs |-> {}, clean |-> FALSE, run |-> {}]
NoRestore == [phase |-> "none", mut |-> FALSE, pub |-> FALSE, clean |-> FALSE, plan |-> NoPlan,
              staged |-> {}, kept |-> {}]
NoRotation == [phase |-> "none", mut |-> FALSE, clean |-> FALSE, bid |-> 0, gen |-> 0]
NoDelete == [id |-> 0, b |-> 0, st |-> "none", pair |-> {}, ready |-> FALSE, removing |-> {}, rows |-> {},
             prepared |-> FALSE]
Resting == [at |-> "idle", j |-> 0, rec |-> FALSE, err |-> FALSE, todo |-> {}, bad |-> {}]

----------------------------------------------------------------------------
(* The guards that every operation passes before it touches anything.      *)

Pending(j) == book.jobs[j].st \in {"running", "recovery"}
Deleting == book.del.st \in {"running", "recovery"}
CapturePending == book.cap.phase \notin {"none", "settled-captured", "settled-failed"}

\* backup_capture.guard: no other capture is open, and the status file has its owner.
CaptureGuard(j) ==
  /\ CapturePending => book.cap.id = j
  /\ \A k \in Ids : (book.jobs[k].act = "backup" /\ Pending(k)) => k = j
  /\ (book.stat.state = "stopping" \/ book.stat.restart # {})
       => (CapturePending /\ book.cap.id = j /\ book.stat.set = j)

\* restore.guard: no restore but j's own is unfinished, no deletion is.
RestoreGuard(j) ==
  /\ ~Deleting
  /\ \A k \in Ids \ {j} : book.rst[k].phase \in {"none", "restored", "refused"}

\* Mutant: a retired request ID is free again.
RetentionGuard_Reuse(j) == book.jobs[j].st # "retention" /\ ~Deleting

\* Retention.guard: the ID was never retired, and no deletion is pending.
RetentionGuard(j) == book.jobs[j].st \notin {"retired", "retention"} /\ ~Deleting

\* Mutant: a restore is admitted beside an operation that needs recovery.
Admits_Beside(j) == wk.at = "idle" /\ RetentionGuard(j) /\ \A k \in Ids \ {j} : book.jobs[k].st # "running"

Admits(j) == wk.at = "idle" /\ RetentionGuard(j) /\ \A k \in Ids \ {j} : ~Pending(k)

New(j) == book.jobs[j].st \in {"none", "retired"}
Work(p, j, r) == wk' = [Resting EXCEPT !.at = p, !.j = j, !.rec = r]
Enrol(j, a, b) ==
  book' = [book EXCEPT !.jobs[j] = [act |-> a, st |-> "running", b |-> b, auth |-> FALSE]]
Rerun(j) == book' = [book EXCEPT !.jobs[j].st = "running"]
Captured(b) == b \in Ids /\ book.jobs[b].act = "backup" /\ book.jobs[b].st = "captured"

SubmitBackup(j) ==
  /\ requests[j] = "backup" /\ New(j) /\ Admits(j)
  /\ Enrol(j, "backup", j) /\ Work("bk.plan", j, FALSE)
  /\ UNCHANGED <<requests, host, mleft>>

SubmitVerify(j) ==
  /\ requests[j] = "verify" /\ New(j) /\ Admits(j)
  /\ \E b \in Ids : Captured(b) /\ Enrol(j, "verify", b)
  /\ Work("vf", j, FALSE)
  /\ UNCHANGED <<requests, host, mleft>>

SubmitBackupRecovery(j) ==
  /\ requests[j] = "backup" /\ book.jobs[j].st = "recovery" /\ Admits(j)
  /\ Rerun(j) /\ Work("st.check", j, TRUE)
  /\ UNCHANGED <<requests, host, mleft>>

SubmitRestore(j) ==
  /\ requests[j] = "restore" /\ Admits(j)
  /\ \/ New(j) /\ (\E b \in Ids : Captured(b) /\ Enrol(j, "restore", b)) /\ Work("rs.open", j, FALSE)
     \/ book.jobs[j].st = "recovery" /\ Rerun(j) /\ Work("rs.open", j, TRUE)
  /\ UNCHANGED <<requests, host, mleft>>

SubmitRotation(j) ==
  /\ requests[j] = "rotate" /\ Admits(j)
  /\ \/ New(j) /\ Enrol(j, "rotate", 0) /\ Work("ro.open", j, FALSE)
     \/ book.jobs[j].st = "recovery" /\ Rerun(j) /\ Work("ro.open", j, TRUE)
  /\ UNCHANGED <<requests, host, mleft>>

----------------------------------------------------------------------------
(* Steps of the thread.                                                    *)

On3(p) == wk.at = p
Job == book.jobs[wk.j]
Managed == Job.act = "backup"
Bid == IF Managed THEN wk.j ELSE book.rot[wk.j].bid
Onto(p) == wk' = [wk EXCEPT !.at = p]
Break(p) == wk' = [wk EXCEPT !.at = p, !.err = TRUE]
Trouble == mleft.faults > 0 /\ mleft' = [mleft EXCEPT !.faults = @ - 1]
Frame == UNCHANGED requests
Calm == UNCHANGED <<requests, host, mleft>>
Finish(s) ==
  /\ book' = [book EXCEPT !.jobs[wk.j].st = s]
  /\ wk' = Resting
StopNext == host' = [host EXCEPT !.svcs = @ \ {IF "console" \in @ THEN "console" ELSE "iris"}]
StartNext == host' = [host EXCEPT !.svcs = @ \cup {IF "iris" \in @ THEN "console" ELSE "iris"}]
Phase3(x) == book' = [book EXCEPT !.cap.phase = IF Managed THEN x ELSE @]

\* perform of a verification: both archives are read, nothing is changed.
PerformVerify ==
  /\ On3("vf") /\ UNCHANGED <<requests, host>>
  /\ \/ (\A a \in Archives : book.saved[Job.b][a].there) /\ Finish("verified") /\ UNCHANGED mleft
     \/ Trouble /\ Finish("failed")

----------------------------------------------------------------------------
(* backup.create: with a capture record when the backup is a job of its    *)
(* own, without one when a rotation takes it.                              *)

Away == IF Managed THEN "bk.done" ELSE "ro.done"

BkPlan ==
  /\ On3("bk.plan") /\ UNCHANGED <<requests, host>>
  /\ \/ /\ CaptureGuard(IF Managed THEN wk.j ELSE 0) /\ RestoreGuard(0)
        /\ book' = IF Managed THEN [book EXCEPT !.cap = [NoCapture EXCEPT !.id = wk.j, !.phase = "prepared",
                                                                       !.run = host.svcs]]
                   ELSE book
        /\ wk' = [wk EXCEPT !.at = IF Managed THEN "bk.begun" ELSE "bk.export", !.todo = host.svcs]
        /\ UNCHANGED mleft
     \/ ~(CaptureGuard(IF Managed THEN wk.j ELSE 0) /\ RestoreGuard(0)) /\ Break(Away) /\ UNCHANGED <<book, mleft>>
     \/ Trouble /\ Break(Away) /\ UNCHANGED book

BkBegun ==
  /\ On3("bk.begun") /\ Calm
  /\ book' = [book EXCEPT !.jobs[wk.j].auth = TRUE] /\ Onto("bk.export")

BkExport ==
  /\ On3("bk.export") /\ UNCHANGED <<requests, host>>
  /\ \/ /\ book' = [book EXCEPT !.stat = [state |-> "stopping", set |-> Bid, restart |-> {}],
                                !.cap.phase = IF Managed THEN "exporting" ELSE @]
        /\ Onto("bk.stop") /\ UNCHANGED mleft
     \/ Trouble /\ Break(Away) /\ Phase3("exporting")

\* Mutant: a writer that would not stop is captured all the same.
BkStop_Forced ==
  /\ On3("bk.stop") /\ Frame
  /\ \/ host.svcs # {} /\ StopNext /\ Phase3("stopping") /\ UNCHANGED <<wk, mleft>>
     \/ /\ UNCHANGED <<host, mleft>>
        /\ book' = [book EXCEPT !.cap = IF Managed THEN [@ EXCEPT !.phase = "capturing", !.clean = TRUE] ELSE @]
        /\ Onto("bk.recovery")

BkStop ==
  /\ On3("bk.stop") /\ Frame
  /\ \/ host.svcs # {} /\ StopNext /\ Phase3("stopping") /\ UNCHANGED <<wk, mleft>>
     \/ /\ host.svcs = {} /\ UNCHANGED <<host, mleft>>
        /\ book' = [book EXCEPT !.cap = IF Managed THEN [@ EXCEPT !.phase = "capturing", !.clean = TRUE] ELSE @]
        /\ Onto("bk.recovery")
     \/ /\ Trouble /\ UNCHANGED host /\ Phase3("restarting") /\ Break("bk.restart")

Copy3 == [there |-> TRUE, c |-> host.data["state"].c, g |-> host.cred["secret"], still |-> "iris" \notin host.svcs]

\* One encrypted set is published by a rename; only then does the record say so.
BkArchive(a) ==
  /\ On3(IF a = "data" THEN "bk.data" ELSE "bk.recovery") /\ UNCHANGED <<requests, host>>
  /\ \/ book' = [book EXCEPT !.saved[Bid][a] = Copy3] /\ UNCHANGED mleft
        /\ Onto(IF a = "data" THEN "bk.data.record" ELSE "bk.recovery.record")
     \/ Trouble /\ Phase3("restarting") /\ Break("bk.restart")

BkPublished(a) ==
  /\ On3(IF a = "data" THEN "bk.data.record" ELSE "bk.recovery.record") /\ Calm
  /\ book' = [book EXCEPT !.cap.pubs = IF Managed THEN @ \cup {a} ELSE @]
  /\ Onto(IF a = "recovery" THEN "bk.data" ELSE "bk.restart")

\* The finally block: the services that were running are started again.
BkRestart ==
  /\ On3("bk.restart") /\ Frame
  /\ IF wk.todo = {} THEN Onto("bk.status") /\ UNCHANGED <<host, book, mleft>>
     ELSE LET s == IF "iris" \in wk.todo THEN "iris" ELSE "console" IN
       /\ Phase3("restarting")
       /\ \/ host' = [host EXCEPT !.svcs = @ \cup {s}] /\ UNCHANGED mleft
             /\ wk' = [wk EXCEPT !.todo = @ \ {s}]
          \/ Trouble /\ UNCHANGED host /\ wk' = [wk EXCEPT !.todo = @ \ {s}, !.bad = @ \cup ({s} \ host.svcs)]

BkStatus ==
  /\ On3("bk.status") /\ Calm
  /\ book' = [book EXCEPT !.stat = [@ EXCEPT !.state = IF wk.err THEN "failed" ELSE "captured", !.restart = wk.bad]]
  /\ Onto("bk.settle")

BkSettle ==
  /\ On3("bk.settle") /\ Calm
  /\ IF wk.bad # {} THEN Phase3("restarting") ELSE Phase3(IF wk.err THEN "settled-failed" ELSE "settled-captured")
  /\ wk' = [wk EXCEPT !.at = IF Managed \/ wk.err \/ wk.bad # {} THEN Away ELSE "ro.bind",
                      !.err = @ \/ wk.bad # {}]

\* perform: the outcome the job is given.
BkDone ==
  /\ On3("bk.done") /\ Calm
  /\ Finish(IF ~wk.err THEN "captured"
            ELSE IF \/ book.cap.id = wk.j /\ CapturePending
                    \/ book.cap.id # wk.j /\ Job.auth
                    \/ book.stat.restart # {} \/ book.stat.state = "stopping"
                 THEN "recovery" ELSE "failed")

----------------------------------------------------------------------------
(* Recovery of an interrupted backup: backup.recover, Capture.settle.      *)

Complete == book.cap.clean /\ book.cap.pubs = Archives /\ \A a \in Archives : book.saved[wk.j][a].there

StCheck ==
  /\ On3("st.check") /\ UNCHANGED <<requests, host>>
  /\ \/ ~CaptureGuard(wk.j) /\ Finish("recovery") /\ UNCHANGED mleft
     \/ Trouble /\ Finish("recovery")
     \/ /\ CaptureGuard(wk.j) /\ book.cap.id # wk.j /\ UNCHANGED mleft
        /\ Finish(IF Job.auth THEN "recovery" ELSE "failed")
     \/ /\ CaptureGuard(wk.j) /\ book.cap.id = wk.j /\ UNCHANGED mleft
        /\ book' = [book EXCEPT !.cap.phase = "restarting"]
        /\ wk' = [wk EXCEPT !.at = "st.start", !.todo = book.cap.run, !.err = ~Complete]

StStart ==
  /\ On3("st.start") /\ Frame
  /\ IF wk.todo = {} THEN Onto("st.phase") /\ UNCHANGED <<host, book, mleft>>
     ELSE LET s == IF "iris" \in wk.todo THEN "iris" ELSE "console" IN
       \/ /\ host' = [host EXCEPT !.svcs = @ \cup {s}] /\ UNCHANGED <<book, mleft>>
          /\ wk' = [wk EXCEPT !.todo = @ \ {s}]
       \/ Trouble /\ Finish("recovery") /\ UNCHANGED host

StPhase ==
  /\ On3("st.phase") /\ Calm /\ Onto("st.status")
  /\ book' = [book EXCEPT !.cap.phase = IF wk.err THEN "settled-failed" ELSE "settled-captured"]

StStatus ==
  /\ On3("st.status") /\ Calm /\ Onto("st.done")
  /\ book' = [book EXCEPT !.stat = [state |-> IF wk.err THEN "failed" ELSE "captured", set |-> wk.j, restart |-> {}]]

StDone == On3("st.done") /\ Calm /\ Finish(IF wk.err THEN "failed" ELSE "captured")

----------------------------------------------------------------------------
(* restore.Transaction.run.                                                *)

Rst == book.rst[wk.j]
RsSave(r) == book' = [book EXCEPT !.rst[wk.j] = r]
BothThere(b) == \A a \in Archives : book.saved[b][a].there

RsOpen ==
  /\ On3("rs.open") /\ UNCHANGED <<requests, host>>
  /\ \/ Rst.phase = "restored" /\ Onto("rs.done") /\ UNCHANGED <<book, mleft>>
     \/ Trouble /\ Break("rs.done") /\ UNCHANGED book
     \/ /\ Rst.phase # "restored" /\ UNCHANGED mleft
        /\ IF RestoreGuard(wk.j) /\ CaptureGuard(0) /\ BothThere(Job.b)
              /\ (Rst.phase = "none" => ~(wk.rec /\ Job.auth))
           THEN /\ RsSave(IF Rst.phase = "none" THEN [NoRestore EXCEPT !.phase = "verified"] ELSE Rst)
                /\ Onto("rs.begun")
           ELSE Break("rs.done") /\ UNCHANGED book

RsBegun ==
  /\ On3("rs.begun") /\ Calm /\ Onto("rs.stop")
  /\ book' = [book EXCEPT !.jobs[wk.j].auth = TRUE, !.rst[wk.j].phase = "stopping"]

RsStop ==
  /\ On3("rs.stop") /\ Frame
  /\ \/ host.svcs # {} /\ StopNext /\ UNCHANGED <<book, wk, mleft>>
     \/ /\ host.svcs = {} /\ UNCHANGED <<host, mleft>> /\ Onto("rs.prepare")
        /\ RsSave([Rst EXCEPT !.phase = "stopped", !.clean = TRUE])
     \/ Trouble /\ UNCHANGED <<host, book>> /\ Break("rs.except")

\* What the backup says, with the floors and the audit history of today.
Overlay(b) ==
  [state |-> [c |-> book.saved[b]["data"].c, f |-> host.data["state"].f],
   images |-> [c |-> book.saved[b]["data"].c, f |-> 0]]

\* state_authority, _config_generation: a backup of other credentials is refused.
SameGeneration(b) == \A x \in CredFiles : host.cred[x] = book.saved[b]["data"].g

RsPrepare ==
  /\ On3("rs.prepare") /\ UNCHANGED <<requests, host>>
  /\ \/ (Rst.pub \/ Rst.plan.set) /\ Onto(IF Rst.pub THEN "rs.start" ELSE "rs.publish") /\ UNCHANGED <<book, mleft>>
     \/ /\ ~Rst.pub /\ ~Rst.plan.set /\ SameGeneration(Job.b) /\ Onto("rs.publish") /\ UNCHANGED mleft
        /\ RsSave([Rst EXCEPT !.phase = "staged", !.staged = Components,
                              !.plan = [set |-> TRUE, before |-> host.data, after |-> Overlay(Job.b)]])
     \/ ~Rst.pub /\ ~Rst.plan.set /\ ~SameGeneration(Job.b) /\ Break("rs.except") /\ UNCHANGED <<book, mleft>>
     \/ ~Rst.pub /\ ~Rst.plan.set /\ Trouble /\ Break("rs.except") /\ UNCHANGED book

\* restore_storage.publish, one rename at a time: the original is set aside, then the candidate takes its place.
Aside(x) == host.data[x] = Rst.plan.before[x] /\ x \in Rst.staged /\ x \notin Rst.kept
Ready3(x) == host.data[x] = Gone /\ x \in Rst.staged /\ x \in Rst.kept
InPlace(x) == x \in Rst.kept /\ x \notin Rst.staged /\ host.data[x] = Rst.plan.after[x]

RsPublish ==
  /\ On3("rs.publish") /\ Frame
  /\ \/ ~Rst.mut /\ RsSave([Rst EXCEPT !.mut = TRUE, !.phase = "publishing"]) /\ UNCHANGED <<host, wk, mleft>>
     \/ /\ Rst.mut /\ UNCHANGED mleft
        /\ LET left3 == {x \in Components : ~InPlace(x)}
               x == IF "images" \in left3 THEN "images" ELSE "state" IN
           \/ /\ left3 = {} /\ Onto("rs.start") /\ UNCHANGED host
              /\ RsSave([Rst EXCEPT !.pub = TRUE, !.phase = "published"])
           \/ /\ left3 # {} /\ Aside(x) /\ UNCHANGED wk
              /\ host' = [host EXCEPT !.data[x] = Gone] /\ RsSave([Rst EXCEPT !.kept = @ \cup {x}])
           \/ /\ left3 # {} /\ Ready3(x) /\ UNCHANGED wk
              /\ host' = [host EXCEPT !.data[x] = Rst.plan.after[x]] /\ RsSave([Rst EXCEPT !.staged = @ \ {x}])
           \/ left3 # {} /\ ~Aside(x) /\ ~Ready3(x) /\ Break("rs.except") /\ UNCHANGED <<host, book>>
     \/ Trouble /\ Rst.mut /\ Break("rs.except") /\ UNCHANGED <<host, book>>

\* _start: the server, then the Console, each to health.
RsStart ==
  /\ On3("rs.start") /\ Frame
  /\ \/ host.svcs # Services /\ StartNext /\ UNCHANGED <<wk, mleft>> /\ RsSave([Rst EXCEPT !.phase = "restarting"])
     \/ host.svcs = Services /\ RsSave([Rst EXCEPT !.phase = "restored"]) /\ Onto("rs.done") /\ UNCHANGED <<host, mleft>>
     \/ Trouble /\ Break("rs.except") /\ UNCHANGED <<host, book>>

\* Mutant: whatever failed, the original services are started again.
RsExcept_Resume ==
  /\ On3("rs.except") /\ Frame
  /\ \/ host.svcs # Services /\ StartNext /\ UNCHANGED <<book, wk, mleft>>
     \/ /\ host.svcs = Services /\ UNCHANGED <<host, mleft>>
        /\ RsSave([Rst EXCEPT !.phase = "refused"]) /\ Onto("rs.done")

\* The exception path: before anything was replaced the original services come back, after that they stay down.
RsExcept ==
  /\ On3("rs.except") /\ Frame
  /\ IF ~Rst.mut /\ Rst.clean
     THEN \/ host.svcs # Services /\ StartNext /\ UNCHANGED <<book, wk, mleft>>
          \/ /\ host.svcs = Services /\ UNCHANGED <<host, mleft>>
             /\ RsSave([Rst EXCEPT !.phase = "refused"]) /\ Onto("rs.done")
          \/ Trouble /\ Onto("rs.fence") /\ UNCHANGED <<host, book>>
     ELSE Onto("rs.fence") /\ UNCHANGED <<host, book, mleft>>

RsFence ==
  /\ On3("rs.fence") /\ Frame
  /\ \/ host.svcs # {} /\ StopNext /\ UNCHANGED <<book, wk, mleft>>
     \/ host.svcs = {} /\ UNCHANGED <<host, mleft>> /\ RsSave([Rst EXCEPT !.phase = "recovery-required"]) /\ Onto("rs.done")
     \/ Trouble /\ UNCHANGED host /\ RsSave([Rst EXCEPT !.phase = "recovery-required"]) /\ Onto("rs.done")

RsDone ==
  /\ On3("rs.done") /\ Calm
  /\ Finish(IF ~wk.err THEN "restored"
            ELSE IF Rst.phase = "refused" \/ (Rst.phase = "none" /\ ~wk.rec /\ ~Job.auth) THEN "failed"
            ELSE "recovery")

----------------------------------------------------------------------------
(* credential_maintenance.Transaction.run.                                 *)

Rot == book.rot[wk.j]
RoSave(r) == book' = [book EXCEPT !.rot[wk.j] = r]
Half(b) == (\E a \in Archives : book.saved[b][a].there) /\ ~BothThere(b)

\* Mutant: a rotation keeps the half of a backup its first attempt left.
RoOpen_Keep ==
  /\ On3("ro.open") /\ UNCHANGED <<requests, host>>
  /\ \/ Rot.phase = "rotated" /\ Onto("ro.done") /\ UNCHANGED <<book, mleft>>
     \/ Trouble /\ Break("ro.done") /\ UNCHANGED book
     \/ /\ Rot.phase # "rotated" /\ UNCHANGED mleft
        /\ IF ~RestoreGuard(0) \/ Rot.phase = "refused" \/ wk.rec = (Rot.phase = "none")
           THEN Break("ro.done") /\ UNCHANGED book
           ELSE /\ RoSave(IF Rot.phase = "none" THEN [NoRotation EXCEPT !.phase = "backup-pending", !.bid = wk.j]
                          ELSE Rot)
                /\ Onto("ro.backup")

RoOpen ==
  /\ On3("ro.open") /\ UNCHANGED <<requests, host>>
  /\ \/ Rot.phase = "rotated" /\ Onto("ro.done") /\ UNCHANGED <<book, mleft>>
     \/ Trouble /\ Break("ro.done") /\ UNCHANGED book
     \/ /\ Rot.phase # "rotated" /\ UNCHANGED mleft
        /\ IF ~RestoreGuard(0) \/ Rot.phase = "refused" \/ wk.rec = (Rot.phase = "none")
              \/ \E k \in Ids \ {wk.j} : book.rot[k].phase \notin {"none", "rotated", "refused"}
           THEN Break("ro.done") /\ UNCHANGED book
           ELSE /\ RoSave(IF Rot.phase = "none" THEN [NoRotation EXCEPT !.phase = "backup-pending", !.bid = wk.j]
                          ELSE IF Rot.phase = "backup-pending" /\ Half(Rot.bid)
                          THEN [Rot EXCEPT !.bid = wk.j + Again] ELSE Rot)
                /\ Onto("ro.backup")

RoBackup ==
  /\ On3("ro.backup") /\ Calm /\ UNCHANGED book
  /\ Onto(IF Rot.phase = "backup-pending" /\ \A a \in Archives : ~book.saved[Rot.bid][a].there
          THEN "bk.plan" ELSE "ro.bind")

\* The proof of the backup, and on recovery the stop of whatever runs.
RoBind ==
  /\ On3("ro.bind") /\ Frame
  /\ \/ BothThere(Rot.bid) /\ wk.rec /\ host.svcs # {} /\ StopNext /\ UNCHANGED <<book, wk, mleft>>
     \/ /\ BothThere(Rot.bid) /\ (wk.rec => host.svcs = {}) /\ CaptureGuard(0) /\ RestoreGuard(0)
        /\ RoSave([Rot EXCEPT !.phase = "stopping"]) /\ Onto("ro.stop") /\ UNCHANGED <<host, mleft>>
     \/ /\ ~BothThere(Rot.bid) \/ ~CaptureGuard(0) \/ ~RestoreGuard(0)
        /\ Break("ro.done") /\ UNCHANGED <<host, book, mleft>>
     \/ Trouble /\ Break("ro.done") /\ UNCHANGED <<host, book>>

RoStop ==
  /\ On3("ro.stop") /\ Frame
  /\ \/ host.svcs # {} /\ StopNext /\ UNCHANGED <<book, wk, mleft>>
     \/ /\ host.svcs = {} /\ UNCHANGED <<host, mleft>>
        /\ RoSave([Rot EXCEPT !.clean = TRUE]) /\ Onto(IF Rot.mut THEN "ro.apply" ELSE "ro.check")
     \/ Trouble /\ Break("ro.except") /\ UNCHANGED <<host, book>>

\* The stopped-state check: refused means the original services, verified.
RoCheck ==
  /\ On3("ro.check") /\ UNCHANGED <<requests, host>>
  /\ \/ RoSave([Rot EXCEPT !.mut = TRUE, !.phase = "applying"]) /\ Onto("ro.apply") /\ UNCHANGED mleft
     \/ Trouble /\ RoSave([Rot EXCEPT !.phase = "preflight-refused"]) /\ Break("ro.resume")

RoResume ==
  /\ On3("ro.resume") /\ Frame
  /\ \/ host.svcs # Services /\ StartNext /\ UNCHANGED <<book, wk, mleft>>
     \/ host.svcs = Services /\ RoSave([Rot EXCEPT !.phase = "refused"]) /\ Onto("ro.done") /\ UNCHANGED <<host, mleft>>
     \/ Trouble /\ Onto("ro.except") /\ UNCHANGED <<host, book>>

\* _age_apply and its like: candidates are staged under one saved plan, then written file by file.
RoApply ==
  /\ On3("ro.apply") /\ Frame
  /\ \/ Rot.gen = 0 /\ RoSave([Rot EXCEPT !.gen = host.cred["compose"] + 1]) /\ UNCHANGED <<host, wk, mleft>>
     \/ /\ Rot.gen # 0 /\ UNCHANGED <<book, mleft>>
        /\ LET old3 == {x \in CredFiles : host.cred[x] # Rot.gen} IN
           IF old3 = {} THEN Onto("ro.start") /\ UNCHANGED host
           ELSE /\ host' = [host EXCEPT !.cred[IF "secret" \in old3 THEN "secret" ELSE "compose"] = Rot.gen]
                /\ UNCHANGED wk
     \/ Trouble /\ Break("ro.except") /\ UNCHANGED <<host, book>>

RoStart ==
  /\ On3("ro.start") /\ Frame
  /\ \/ host.svcs # Services /\ StartNext /\ UNCHANGED <<wk, mleft>>
        /\ RoSave([Rot EXCEPT !.phase = IF "iris" \in host.svcs THEN "restarting-console" ELSE "restarting-server"])
     \/ host.svcs = Services /\ RoSave([Rot EXCEPT !.phase = "rotated"]) /\ Onto("ro.done") /\ UNCHANGED <<host, mleft>>
     \/ Trouble /\ Break("ro.except") /\ UNCHANGED <<host, book>>

RoExcept ==
  /\ On3("ro.except") /\ Frame
  /\ \/ host.svcs # {} /\ StopNext /\ UNCHANGED <<book, wk, mleft>>
     \/ host.svcs = {} /\ UNCHANGED <<host, mleft>> /\ RoSave([Rot EXCEPT !.phase = "recovery-required"]) /\ Onto("ro.done")
     \/ Trouble /\ UNCHANGED host /\ RoSave([Rot EXCEPT !.phase = "recovery-required"]) /\ Onto("ro.done")

\* perform_rotation; adopting the new recovery identity may still fail after the rotation.
RoDone ==
  /\ On3("ro.done") /\ UNCHANGED <<requests, host>>
  /\ \/ /\ UNCHANGED mleft
        /\ Finish(IF ~wk.err THEN "rotated"
                  ELSE IF Rot.phase = "none" \/ (Rot.phase = "refused" /\ ~Rot.mut) THEN "failed" ELSE "recovery")
     \/ ~wk.err /\ Trouble /\ Finish("recovery")

----------------------------------------------------------------------------
(* Deletion of a saved backup and retirement of finished rows.             *)

Del == book.del
\* _operation_safe: a backup without a capture record of its own (it failed before
\* it made one) is judged by the status file; a later capture finds earlier ones settled.
Safe(j) ==
  LET jb == book.jobs[j] IN
  CASE jb.act = "backup"  -> IF book.cap.id = j THEN ~CapturePending
                             ELSE jb.st = "failed" => book.stat.restart = {} /\ book.stat.state # "stopping"
    [] jb.act = "restore" -> IF book.rst[j].phase = "none" THEN jb.st = "failed" /\ ~jb.auth
                             ELSE IF jb.st = "failed" THEN book.rst[j].phase = "refused" /\ ~book.rst[j].mut
                             ELSE book.rst[j].phase = "restored"
    [] jb.act = "rotate"  -> IF book.rot[j].phase = "none" THEN jb.st = "failed"
                             ELSE IF jb.st = "failed" THEN book.rot[j].phase = "refused" /\ ~book.rot[j].mut
                             ELSE book.rot[j].phase = "rotated"
    [] OTHER -> TRUE
Owners(b) == {j \in Ids : book.jobs[j].st \notin {"none", "retired", "retention"} /\
                \/ book.jobs[j].act = "backup" /\ j = b
                \/ book.jobs[j].act = "rotate" /\ book.rot[j].phase # "none" /\ b \in {j, book.rot[j].bid}}
Deletable(j) == Safe(j) /\ \/ book.jobs[j].st \in {"captured", "rotated"}
                           \/ book.jobs[j].act = "backup" /\ book.jobs[j].st = "failed"
Exists(b) == {a \in Archives : book.saved[b][a].there}

\* Mutant: a row may go before its archives.
Eligible_Rows(j, b) ==
  book.jobs[j].st \in {"captured", "verified", "failed", "restored", "rotated"} /\ Safe(j)

\* A row may go when its operation has ended and its archives are gone (or are the ones being deleted).
Eligible(j, b) ==
  /\ book.jobs[j].st \in {"captured", "verified", "failed", "restored", "rotated"}
  /\ Safe(j)
  /\ book.jobs[j].act = "backup" /\ j # b => book.jobs[j].st # "captured" /\ Exists(j) = {}
  /\ book.jobs[j].act = "rotate" => \A x \in {j, j + Again} \ {b} : Exists(x) = {}

SubmitDelete(j) ==
  /\ requests[j] = "delete" /\ New(j) /\ Admits(j) /\ ~Pending(j)
  /\ \E b \in Bids :
       /\ Exists(b) # {} /\ Cardinality(Owners(b)) = 1 /\ \A k \in Owners(b) : Deletable(k)
       /\ Exists(b) = Archives \/ \A k \in Owners(b) : book.jobs[k].act = "backup" /\ book.jobs[k].st = "failed"
       /\ book' = [book EXCEPT !.jobs[j].st = "retention",
                               !.del = [NoDelete EXCEPT !.id = j, !.b = b, !.st = "running"]]
  /\ Work("dl.pair", j, FALSE)
  /\ UNCHANGED <<requests, host, mleft>>

ResumeDelete ==
  /\ wk.at = "idle" /\ Del.st = "recovery" /\ \A k \in Ids : ~Pending(k)
  /\ book' = [book EXCEPT !.del.st = "running"] /\ Work("dl.pair", Del.id, TRUE)
  /\ UNCHANGED <<requests, host, mleft>>

Stuck3 == book' = [book EXCEPT !.del.st = "recovery"] /\ wk' = Resting

\* Mutant: a resumed deletion reviews what is left of the pair.
DlPair_Again ==
  /\ On3("dl.pair") /\ UNCHANGED <<requests, host>>
  /\ \/ /\ UNCHANGED mleft /\ Onto("dl.remove")
        /\ book' = [book EXCEPT !.del = [@ EXCEPT !.pair = Exists(Del.b), !.ready = TRUE]]
     \/ Trouble /\ Stuck3

DlPair ==
  /\ On3("dl.pair") /\ UNCHANGED <<requests, host>>
  /\ \/ /\ UNCHANGED mleft /\ Onto("dl.remove")
        /\ book' = [book EXCEPT !.del = IF @.ready THEN @ ELSE [@ EXCEPT !.pair = Exists(Del.b), !.ready = TRUE]]
     \/ Trouble /\ Stuck3

\* _remove_pair: the intent is written before each directory goes.
DlRemove ==
  /\ On3("dl.remove") /\ UNCHANGED <<requests, host>>
  /\ LET here3 == Exists(Del.b) \cap Del.pair
         a == IF "data" \in here3 THEN "data" ELSE "recovery" IN
     \/ /\ Del.pair \ here3 \subseteq Del.removing /\ here3 = {} /\ Exists(Del.b) = {}
        /\ Onto("dl.rows") /\ UNCHANGED <<book, mleft>>
     \/ /\ here3 # {} /\ a \notin Del.removing /\ UNCHANGED <<wk, mleft>>
        /\ book' = [book EXCEPT !.del.removing = @ \cup {a}]
     \/ /\ here3 # {} /\ a \in Del.removing /\ UNCHANGED <<wk, mleft>>
        /\ book' = [book EXCEPT !.saved[Del.b][a] = NoArchive]
     \/ ~(Del.pair \ here3 \subseteq Del.removing) /\ Stuck3 /\ UNCHANGED mleft
     \/ Trouble /\ Stuck3

\* store.archive: tombstones and the row change are one transaction.
DlRows ==
  /\ On3("dl.rows") /\ UNCHANGED <<requests, host, mleft>>
  /\ LET rows3 == {k \in Ids : book.jobs[k].st \notin {"none", "retired", "retention"} /\
                     \/ book.jobs[k].b = Del.b
                     \/ k \in Owners(Del.b) /\ Eligible(k, Del.b)} IN
     IF \A k \in rows3 : Eligible(k, Del.b)
     THEN /\ book' = [book EXCEPT !.del.rows = rows3, !.del.prepared = TRUE]
          /\ Onto("dl.reconcile")
     ELSE Stuck3

Reconciled3(bk) ==
  IF bk.del.prepared
  THEN [bk EXCEPT !.jobs = [k \in Ids |-> IF k \in bk.del.rows THEN [bk.jobs[k] EXCEPT !.st = "retired"] ELSE bk.jobs[k]],
                  !.del = [@ EXCEPT !.st = "completed", !.prepared = FALSE]]
  ELSE bk

DlReconcile == On3("dl.reconcile") /\ Calm /\ book' = Reconciled3(book) /\ wk' = Resting

\* retire-history: one finished row, whose archives are gone, becomes a tombstone.
RetireRow(j) ==
  /\ wk.at = "idle" /\ ~Deleting /\ \A k \in Ids : ~Pending(k)
  /\ Eligible(j, 0)
  /\ book' = [book EXCEPT !.jobs[j].st = "retired"]
  /\ UNCHANGED <<requests, host, wk, mleft>>

----------------------------------------------------------------------------
(* The running server, the death of the worker and its next start.         *)

Serve ==
  /\ "iris" \in host.svcs /\ mleft.writes > 0
  /\ LET n == host.top + 1 IN
     host' = [host EXCEPT !.data = [state |-> [c |-> n, f |-> n], images |-> [c |-> n, f |-> 0]], !.top = n]
  /\ mleft' = [mleft EXCEPT !.writes = @ - 1]
  /\ UNCHANGED <<requests, book, wk>>

WorkerKilled ==
  /\ wk.at \notin {"idle", "off"} /\ mleft.crashes > 0
  /\ mleft' = [mleft EXCEPT !.crashes = @ - 1]
  /\ wk' = [Resting EXCEPT !.at = "off"]
  /\ UNCHANGED <<requests, host, book>>

Interrupted3(jb) ==
  IF jb.st = "running" THEN [jb EXCEPT !.st = IF jb.act = "verify" THEN "failed" ELSE "recovery"] ELSE jb

\* Mutant: an interrupted operation is written off at the next start.
WorkerStarts_Forget ==
  /\ wk.at = "off" /\ wk' = Resting /\ UNCHANGED <<requests, host, mleft>>
  /\ LET rec == Reconciled3(book) IN
     book' = [rec EXCEPT !.jobs = [k \in Ids |-> IF rec.jobs[k].st = "running" THEN [rec.jobs[k] EXCEPT !.st = "failed"]
                                                ELSE rec.jobs[k]],
                         !.del.st = IF @ = "running" THEN "completed" ELSE @]

\* Worker.__init__ with Retention.__init__.
WorkerStarts ==
  /\ wk.at = "off" /\ wk' = Resting /\ UNCHANGED <<requests, host, mleft>>
  /\ LET rec == Reconciled3(book) IN
     book' = [rec EXCEPT !.jobs = [k \in Ids |-> Interrupted3(rec.jobs[k])],
                         !.del.st = IF @ = "running" THEN "recovery" ELSE @]

----------------------------------------------------------------------------
MaintInit ==
  /\ requests \in RequestPlans
  /\ host = [svcs |-> Services, data |-> [state |-> [c |-> 1, f |-> 1], images |-> [c |-> 1, f |-> 0]],
             cred |-> [x \in CredFiles |-> 1], top |-> 1]
  /\ book = [jobs |-> [j \in Ids |-> [act |-> requests[j], st |-> "none", b |-> 0, auth |-> FALSE]],
             saved |-> [b \in Bids |-> [a \in Archives |-> NoArchive]],
             cap |-> NoCapture, stat |-> [state |-> "none", set |-> 0, restart |-> {}],
             rst |-> [j \in Ids |-> NoRestore], rot |-> [j \in Ids |-> NoRotation], del |-> NoDelete]
  /\ wk = Resting
  /\ mleft = [writes |-> MaxWrites, faults |-> WorkFaults, crashes |-> WorkCrashes]

BackupSteps ==
  \/ BkPlan \/ BkBegun \/ BkExport \/ BkStop \/ (\E a \in Archives : BkArchive(a) \/ BkPublished(a))
  \/ BkRestart \/ BkStatus \/ BkSettle \/ BkDone
SettleSteps == StCheck \/ StStart \/ StPhase \/ StStatus \/ StDone
RestoreSteps ==
  RsOpen \/ RsBegun \/ RsStop \/ RsPrepare \/ RsPublish \/ RsStart \/ RsExcept \/ RsFence \/ RsDone
RotationSteps ==
  RoOpen \/ RoBackup \/ RoBind \/ RoStop \/ RoCheck \/ RoResume \/ RoApply \/ RoStart \/ RoExcept \/ RoDone
DeleteSteps == DlPair \/ DlRemove \/ DlRows \/ DlReconcile
ThreadSteps == PerformVerify \/ BackupSteps \/ SettleSteps \/ RestoreSteps \/ RotationSteps \/ DeleteSteps
Resubmit == ResumeDelete \/ \E j \in Ids : book.jobs[j].st = "recovery" /\
              (SubmitBackupRecovery(j) \/ SubmitRestore(j) \/ SubmitRotation(j))

MaintNext ==
  \/ \E j \in Ids : SubmitBackup(j) \/ SubmitVerify(j) \/ SubmitBackupRecovery(j) \/ SubmitRestore(j)
                    \/ SubmitRotation(j) \/ SubmitDelete(j) \/ RetireRow(j)
  \/ ResumeDelete \/ ThreadSteps \/ Serve \/ WorkerKilled \/ WorkerStarts

MaintSpec == MaintInit /\ [][MaintNext]_maintVars

----------------------------------------------------------------------------
JobStates3 == {"none", "running", "recovery", "captured", "verified", "failed", "restored", "rotated", "retired",
               "retention"}

\* Everything the worker keeps has its shape; a capture record names a backup of the plan.
MaintTypeOK ==
  /\ host.svcs \subseteq Services
  /\ \A x \in Components : host.data[x].c \in 0..(MaxWrites + 1) /\ host.data[x].f \in 0..(MaxWrites + 1)
  /\ \A j \in Ids : book.jobs[j].st \in JobStates3 /\ book.jobs[j].b \in Bids \cup {0}
  /\ book.cap.id \in Ids \cup {0} /\ book.cap.run \subseteq Services /\ book.cap.pubs \subseteq Archives
  /\ Del.pair \subseteq Archives /\ Del.removing \subseteq Del.pair
  /\ wk.at # "idle" => (wk.at = "off" \/ wk.j \in Ids)

\* A backup reported captured has both of its archives, both cut while the server was down
\* (backup.py:333-349, backup_capture.py:397-408), however often it was interrupted and recovered.
CapturedIsWhole ==
  \A j \in Ids : (Captured(j) /\ ~(Deleting /\ Del.b = j)) =>
    \A a \in Archives : book.saved[j][a].there /\ book.saved[j][a].still
                        /\ book.saved[j][a].c = book.saved[j]["data"].c

\* The server never runs on storage that is half replaced, on credential files of two generations, or
\* with an older replay floor or audit history than it had before (restore.py:457-512, 705-717, 732-750).
ServesOneGeneration ==
  "iris" \in host.svcs =>
    /\ host.data["state"] # Gone /\ host.data["images"].c = host.data["state"].c
    /\ host.data["state"].f = host.top
    /\ \A x \in CredFiles : host.cred[x] = host.cred["secret"]

\* When no operation runs or asks for recovery the services are up: a job is never closed as failed over
\* stopped services (lifecycle_worker.py:214-229, 420-438, 598-630).
QuietMeansServing ==
  ((\A j \in Ids : ~Pending(j)) /\ ~Deleting /\ wk.at # "off") => host.svcs = Services

\* Two operations never hold the deployment at once, not even across a restart of the worker
\* (lifecycle_worker.py:163-192, 353-391, 466-495, lifecycle_retention.py:53-61).
OneOperation ==
  Cardinality({j \in Ids : Pending(j)}) + (IF Deleting THEN 1 ELSE 0) <= 1

\* An archive on the host keeps the row that says whose it is, so that it can be deleted later
\* (lifecycle_retention.py:127-140, 478-497).
ArchivesAreOwned == \A b \in Bids : Exists(b) # {} => Owners(b) # {}

\* A request ID whose row was retired never starts an operation again (lifecycle_retention.py:53-58).
RetiredStaysRetired ==
  \A j \in Ids : book.jobs[j].st = "retired" => book'.jobs[j].st = "retired"

\* The status file of an interrupted capture has lost its owner: every capture plan refuses from now on.
StatusOrphaned ==
  (book.stat.state = "stopping" \/ book.stat.restart # {}) /\ ~(CapturePending /\ book.cap.id = book.stat.set)

\* The original was written to after the plan of an unfinished restore was made.
PlanIsStale ==
  \E j \in Ids : book.jobs[j].st \in {"running", "recovery"} /\ book.rst[j].plan.set /\ ~book.rst[j].pub
    /\ \E x \in Components : host.data[x] \notin {Gone, book.rst[j].plan.before[x], book.rst[j].plan.after[x]}

\* Whatever is interrupted ends when its recovery is repeated, with the services up, unless the evidence
\* it needs was lost (backup_capture.py:336-395, restore.py:599-750, credential_maintenance.py:247-388).
\* Holds again and again.
MaintenanceEnds ==
  \/ (\A j \in Ids : ~Pending(j)) /\ ~Deleting /\ host.svcs = Services
  \/ StatusOrphaned \/ PlanIsStale

\* The recovery of an operation that needs it passes the capture guard.
RecoveryIsAdmitted ==
  \A j \in Ids : (book.jobs[j].st = "recovery") =>
    CaptureGuard(IF book.jobs[j].act = "backup" THEN j ELSE 0)

\* What holds in every state of the host and the worker's files.
MaintenanceSafe ==
  /\ MaintTypeOK
  /\ CapturedIsWhole
  /\ ServesOneGeneration
  /\ QuietMeansServing
  /\ OneOperation
  /\ ArchivesAreOwned
============================================================================
