----------------------- MODULE ScheduledAssignmentSteps -----------------------
(***************************************************************************)
(* Proofs of what a policy write of a scheduled job may never do, for every *)
(* set of occurrences, devices and images and every number of outside      *)
(* events: it is made under live authority, it does not undo an operator's *)
(* later assignment, and it erases no policy the job had not seen.         *)
(***************************************************************************)
EXTENDS ScheduledAssignmentProofs

----------------------------------------------------------------------------
(* What the invariant of the receipts and claims does not say: where the    *)
(* captures come from, what the locks of apply() keep still, and how a      *)
(* manual write is remembered until its generation is counted.              *)

\* A capture is of the registration the occurrence was bound to, and not from
\* the future.
CapturesBound ==
    \A k \in Jobs : CaptureOf(k) # None =>
        /\ CaptureOf(k).reg = 1
        /\ CaptureOf(k).gen <= manual[k[2]].gen

\* So is the capture that the runner is about to save, and it is the job's first.
CaptureInHand ==
    pc = "save" /\ run.result \in Prepared =>
        /\ CaptureOf(cur) = None
        /\ run.result.capture.reg = 1
        /\ run.result.capture.gen <= manual[run.d].gen

\* What the live check saw holds while apply() keeps its locks.
LiveWhileApplying ==
    Applying => sched[run.o] = "live" /\ reg[run.d] = 1 /\ run.d \notin revoked

\* A job whose device was assigned by hand sees the pending flag or a later
\* generation.
Remembered(k, gen, pending) == pending \/ CaptureOf(k).gen < gen
IntentRemembered ==
    \A k \in overridden :
        CaptureOf(k) # None /\ Remembered(k, manual[k[2]].gen, manual[k[2]].pending)

\* A manual writer has set the flag, and the flag it would put back is enough for
\* the writes before its own.
WriterFlag ==
    /\ mw.pc # "idle" => manual[mw.d].pending
    /\ mw.pc = "pending" =>
         \A k \in overridden : k[2] = mw.d => Remembered(k, manual[mw.d].gen, mw.prior)

Authority ==
    /\ CapturesBound /\ CaptureInHand /\ LiveWhileApplying
    /\ IntentRemembered /\ WriterFlag

----------------------------------------------------------------------------
(* Steps of the runner.                                                     *)

LEMMA JobParts == \A k \in Jobs : k = <<k[1], k[2]>> /\ k[1] \in Occs /\ k[2] \in Devices
BY DEF Jobs

\* A step of the runner that neither captures nor begins to apply.
LEMMA RunnerFrame ==
    ASSUME Authority, \A k \in Jobs : CaptureOf(k)' = CaptureOf(k),
           overridden \subseteq Jobs,
           UNCHANGED <<manual, overridden, mw, sched, reg, revoked>>,
           Applying' => Applying /\ run'.o = run.o /\ run'.d = run.d,
           pc' = "save" => run'.result \in Results
    PROVE  Authority'
<1>1. CapturesBound'
  BY DEF Authority, CapturesBound
<1>2. CaptureInHand'
  BY DEF CaptureInHand, Prepared, Results, Terminal
<1>3. LiveWhileApplying'
  BY DEF Authority, LiveWhileApplying
<1>4. IntentRemembered' /\ WriterFlag'
  BY DEF Authority, IntentRemembered, WriterFlag, Remembered
<1> QED BY <1>1, <1>2, <1>3, <1>4 DEF Authority

\* ReceiptStore.record keeps the capture.
LEMMA RecordKeepsCapture ==
    ASSUME Inductive, NEW k \in Jobs, NEW r,
           r.status \in Terminal \cup {"intent"}, r.reason \in Reasons,
           receipts' = Recorded(k, r)
    PROVE  \A j \in Jobs : CaptureOf(j)' = CaptureOf(j)
<1>1. CASE IsDone(k)
  BY <1>1 DEF Recorded, CaptureOf
<1>2. CASE ~IsDone(k)
  <2>1. /\ receipts'[k] = Receipt(r, CaptureOf(k)) /\ receipts'[k] # None
        /\ \A j \in Jobs : j # k => receipts'[j] = receipts[j]
    BY <1>2, RecordedReceipt DEF Inductive
  <2>2. receipts'[k].capture = CaptureOf(k)
    BY <2>1 DEF Receipt
  <2> QED BY <2>1, <2>2 DEF CaptureOf
<1> QED BY <1>1, <1>2

LEMMA LoopAuthority ==
    ASSUME Inductive, Authority,
           \/ Recover \/ VisitNotOpen \/ RecheckOpen \/ Acknowledge \/ AcknowledgeFault \/ Finish
           \/ \E o \in Occs : Serve(o)
           \/ \E d \in Devices : Visit(d)
    PROVE  Authority'
<1>1. /\ UNCHANGED <<receipts, manual, overridden, mw, sched, reg, revoked>>
      /\ pc' \notin {"apply", "decide", "result", "save"}
  BY DEF Recover, VisitNotOpen, RecheckOpen, Acknowledge, AcknowledgeFault, Finish, Serve, Visit,
         durable, world
<1>2. \A k \in Jobs : CaptureOf(k)' = CaptureOf(k)
  BY <1>1 DEF CaptureOf
<1>3. overridden \subseteq Jobs
  BY DEF Inductive, TypeOK
<1> QED BY <1>1, <1>2, <1>3, RunnerFrame DEF Applying

LEMMA AdmissionAuthority ==
    ASSUME Inductive, Authority, VisitClosed \/ VisitOpen \/ RecheckClosed \/ PollNothing
    PROVE  Authority'
<1>1. /\ UNCHANGED <<manual, overridden, mw, sched, reg, revoked>>
      /\ pc' \notin {"apply", "decide", "result", "save"}
  BY DEF VisitClosed, VisitOpen, RecheckClosed, PollNothing, FinishUnsubmitted, GoPoll, durable, world
<1>2. cur \in Jobs
  BY CurIsJob DEF VisitClosed, VisitOpen, RecheckClosed, PollNothing, Visiting
<1>3. \/ receipts' = receipts
      \/ \E why \in Reasons : receipts' = Recorded(cur, Skipped(why))
      \/ receipts' = Recorded(cur, Result("intent", "pending"))
  <2>1. CASE VisitClosed
    BY <2>1, ClosedReasonType DEF VisitClosed, FinishUnsubmitted, GoPoll, durable
  <2>2. CASE VisitOpen
    BY <2>2 DEF VisitOpen
  <2>3. CASE RecheckClosed
    BY <2>3, ClosedReasonType DEF RecheckClosed, FinishUnsubmitted, GoPoll, durable
  <2>4. CASE PollNothing
    <3>1. run.why \in Reasons
      BY <2>4 DEF PollNothing, Inductive, TypeOK, LocalsType, WorkIsOpen
    <3> QED BY <2>4, <3>1 DEF PollNothing, FinishUnsubmitted, durable
  <2> QED BY <2>1, <2>2, <2>3, <2>4
<1>4. \A k \in Jobs : CaptureOf(k)' = CaptureOf(k)
  <2>1. CASE receipts' = receipts
    BY <2>1 DEF CaptureOf
  <2>2. ASSUME NEW why \in Reasons, receipts' = Recorded(cur, Skipped(why))
        PROVE  \A k \in Jobs : CaptureOf(k)' = CaptureOf(k)
    <3>1. Skipped(why).status \in Terminal \cup {"intent"} /\ Skipped(why).reason \in Reasons
      BY DEF Skipped, Result, Terminal
    <3> QED BY <1>2, <2>2, <3>1, RecordKeepsCapture
  <2>3. CASE receipts' = Recorded(cur, Result("intent", "pending"))
    <3>1. /\ Result("intent", "pending").status \in Terminal \cup {"intent"}
          /\ Result("intent", "pending").reason \in Reasons
      BY DEF Result, Reasons
    <3> QED BY <1>2, <2>3, <3>1, RecordKeepsCapture
  <2> QED BY <1>3, <2>1, <2>2, <2>3
<1>5. overridden \subseteq Jobs
  BY DEF Inductive, TypeOK
<1> QED BY <1>1, <1>4, <1>5, RunnerFrame DEF Applying

LEMMA AnswerAuthority ==
    ASSUME Inductive, Authority,
           \/ ApplyRefused \/ ApplyReplay \/ ApplyClaim \/ DecideRefusal \/ DecideRebase
           \/ DecideCommit \/ SaveResult \/ PollUnprepared \/ PollClaim \/ ApplyFault
    PROVE  Authority'
<1>1. /\ UNCHANGED <<receipts, manual, overridden, mw, sched, reg, revoked>>
  BY DEF ApplyRefused, ApplyReplay, ApplyClaim, DecideRefusal, DecideRebase, DecideCommit,
         SaveResult, PollUnprepared, PollClaim, ApplyFault, durable, world
<1>2. \A k \in Jobs : CaptureOf(k)' = CaptureOf(k)
  BY <1>1 DEF CaptureOf
<1>3. overridden \subseteq Jobs /\ run \in LocalsType
  BY DEF Inductive, TypeOK
<1>4. Applying' => Applying /\ run'.o = run.o /\ run'.d = run.d
  BY <1>3 DEF Applying, ApplyRefused, ApplyReplay, ApplyClaim, DecideRefusal, DecideRebase, DecideCommit,
         SaveResult, PollUnprepared, PollClaim, ApplyFault, Return, Outcome, ReplayClaim, LocalsType
<1>5. pc' = "save" => run'.result \in Results
  <2>1. CASE ApplyRefused
    BY <1>3, <2>1, RefusalTypes, ResultTypes DEF ApplyRefused, Return, LocalsType
  <2>2. CASE ApplyReplay \/ PollClaim
    <3>1. cur \in Jobs
      BY <2>2, CurIsJob DEF ApplyReplay, PollClaim, Visiting
    <3>2. claims[cur] \in ClaimRow
      BY <2>2, <3>1 DEF ApplyReplay, PollClaim, Inductive, TypeOK
    <3>3. claims[cur].result # None => claims[cur].result \in Results
      BY <3>2 DEF ClaimRow
    <3>4. Skipped("conflict") \in Results
      BY ResultTypes DEF Reasons
    <3> QED BY <1>3, <2>2, <3>3, <3>4 DEF ApplyReplay, PollClaim, ReplayClaim, Return, LocalsType
  <2>3. CASE ApplyClaim \/ DecideRefusal \/ DecideRebase \/ DecideCommit
    BY <2>3 DEF ApplyClaim, DecideRefusal, DecideRebase, DecideCommit, Outcome
  <2>4. CASE SaveResult
    BY <2>4 DEF SaveResult, Inductive, WorkIsOpen
  <2>5. CASE PollUnprepared
    <3>1. Error("conflict") \in Results
      BY ResultTypes DEF Reasons
    <3> QED BY <1>3, <2>5, <3>1 DEF PollUnprepared, Return, LocalsType
  <2>6. CASE ApplyFault
    <3>1. Error("execution_failed") \in Results
      BY ResultTypes DEF Reasons
    <3> QED BY <1>3, <2>6, <3>1 DEF ApplyFault, Return, LocalsType
  <2> QED BY <2>1, <2>2, <2>3, <2>4, <2>5, <2>6
<1> QED BY <1>1, <1>2, <1>3, <1>4, <1>5, RunnerFrame

\* Inside a visit, what is in the runner's hands is the current job's.
LEMMA CaptureAuthority == ASSUME Inductive, Authority, Capture PROVE Authority'
<1>1. /\ UNCHANGED <<receipts, manual, overridden, mw, sched, reg, revoked>> /\ pc' = "save"
      /\ CaptureOf(cur) = None
  BY DEF Capture, Return, durable, world
<1>2. \A k \in Jobs : CaptureOf(k)' = CaptureOf(k)
  BY <1>1 DEF CaptureOf
<1>3. overridden \subseteq Jobs /\ run \in LocalsType /\ cur \in Jobs /\ run.d \in Devices
  BY CurIsJob DEF Inductive, TypeOK, Capture, Visiting
<1>4. ~Applying'
  BY <1>1 DEF Applying
<1>5. CASE CaptureRefusal # None
  <2>1. CaptureRefusal \in Results
    <3>1. /\ Skipped("vanished") \in Results /\ Skipped("conflict") \in Results
          /\ Error("assignment_authority_unavailable") \in Results
      BY ResultTypes DEF Reasons
    <3> QED BY <1>5, <3>1 DEF CaptureRefusal
  <2>2. run'.result \in Results
    BY <1>3, <1>5, <2>1 DEF Capture, Return, LocalsType
  <2> QED BY <1>1, <1>2, <1>3, <1>4, <2>2, RunnerFrame
<1>6. CASE CaptureRefusal = None
  <2>1. reg[run.d] = 1
    BY <1>6, NoneAssumption, ResultTypes DEF CaptureRefusal, Reasons
  <2>2. manual[run.d].gen \in Nat
    BY <1>3 DEF Inductive, TypeOK
  <2>3. /\ run'.result = [status |-> "prepared", reason |-> "assignment_prepared", capture |-> Captured]
        /\ run'.d = run.d /\ run'.o = run.o
    BY <1>3, <1>6 DEF Capture, Return, LocalsType
  <2>4. run'.result.capture = Captured
    BY <2>3
  <2>5. run'.result.capture.reg = 1 /\ run'.result.capture.gen = manual[run.d].gen
    BY <2>1, <2>4 DEF Captured
  <2>6. CaptureInHand'
    <3>1. CaptureOf(cur)' = None
      BY <1>1, <2>3 DEF CaptureOf, cur
    <3> QED BY <1>1, <2>2, <2>3, <2>5, <3>1 DEF CaptureInHand
  <2>7. CapturesBound' /\ LiveWhileApplying'
    BY <1>1, <1>2, <1>4 DEF Authority, CapturesBound, LiveWhileApplying
  <2>8. IntentRemembered' /\ WriterFlag'
    BY <1>1, <1>2, <1>3 DEF Authority, IntentRemembered, WriterFlag, Remembered
  <2> QED BY <2>6, <2>7, <2>8 DEF Authority
<1> QED BY <1>5, <1>6

LEMMA BeginAuthority == ASSUME Inductive, Authority, ApplyBegin PROVE Authority'
<1>1. /\ UNCHANGED <<receipts, manual, overridden, mw, sched, reg, revoked>> /\ pc' = "apply"
      /\ CaptureOf(cur) # None
  BY DEF ApplyBegin, durable, world
<1>2. \A k \in Jobs : CaptureOf(k)' = CaptureOf(k)
  BY <1>1 DEF CaptureOf
<1>3. overridden \subseteq Jobs /\ run \in LocalsType /\ cur \in Jobs /\ run.d \in Devices
  BY CurIsJob DEF Inductive, TypeOK, ApplyBegin, Visiting
<1>4. run'.o = run.o /\ run'.d = run.d
  BY <1>3 DEF ApplyBegin, LocalsType
<1>5. CaptureOf(cur).reg = 1
  BY <1>1, <1>3 DEF Authority, CapturesBound
<1>6. sched[run.o] = "live" /\ reg[run.d] = 1 /\ run.d \notin revoked
  BY <1>5 DEF ApplyBegin, LiveRefusal
<1>7. LiveWhileApplying'
  BY <1>1, <1>4, <1>6 DEF LiveWhileApplying
<1>8. CapturesBound' /\ CaptureInHand'
  BY <1>1, <1>2 DEF Authority, CapturesBound, CaptureInHand
<1>9. IntentRemembered' /\ WriterFlag'
  BY <1>1, <1>2, <1>3 DEF Authority, IntentRemembered, WriterFlag, Remembered
<1> QED BY <1>7, <1>8, <1>9 DEF Authority

\* _save of a capture: no job is overridden that had none.
LEMMA SavePreparedAuthority == ASSUME Inductive, Authority, SavePrepared PROVE Authority'
<1>1. /\ UNCHANGED <<manual, overridden, mw, sched, reg, revoked, run>> /\ pc' = "loop" /\ pc = "save"
      /\ receipts' = [receipts EXCEPT ![cur].capture = run.result.capture]
  BY DEF SavePrepared, world
<1>2. overridden \subseteq Jobs /\ cur \in Jobs /\ run.d \in Devices /\ receipts[cur] # None
  BY <1>1, CurIsJob DEF Inductive, TypeOK, Visiting, WorkIsOpen
<1>3. run.result \in Prepared
  <2>1. run.result \in Results \cup Prepared
    BY <1>1 DEF Inductive, TypeOK, LocalsType, WorkIsOpen
  <2>2. run.result \notin Results
    BY DEF SavePrepared, Results, Terminal
  <2> QED BY <2>1, <2>2
<1>4. CaptureOf(cur) = None /\ run.result.capture.reg = 1 /\ run.result.capture.gen <= manual[run.d].gen
  BY <1>1, <1>3 DEF Authority, CaptureInHand
<1>5. receipts[cur] \in ReceiptRow /\ receipts \in [Jobs -> ReceiptRow \cup {None}]
  BY <1>2 DEF Inductive, TypeOK
<1>6. run.result.capture \in Capturing
  BY <1>3 DEF Prepared
<1>7. /\ receipts'[cur] = [receipts[cur] EXCEPT !.capture = run.result.capture]
      /\ \A j \in Jobs : j # cur => receipts'[j] = receipts[j]
  BY <1>1, <1>2, <1>5
<1>8. receipts'[cur] \in ReceiptRow /\ receipts'[cur].capture = run.result.capture
  BY <1>5, <1>6, <1>7 DEF ReceiptRow
<1>9. receipts'[cur] # None
  BY <1>8, NoneAssumption
<1>10. \A j \in Jobs : j # cur => CaptureOf(j)' = CaptureOf(j)
  BY <1>7 DEF CaptureOf
<1>11. \A j \in Jobs : j = cur => CaptureOf(j)' = run.result.capture
  BY <1>8, <1>9 DEF CaptureOf
<1>12. cur \notin overridden
  BY <1>4 DEF Authority, IntentRemembered
<1>13. CapturesBound'
  <2> SUFFICES ASSUME NEW k \in Jobs, CaptureOf(k)' # None
               PROVE  CaptureOf(k)'.reg = 1 /\ CaptureOf(k)'.gen <= manual[k[2]].gen
    BY <1>1 DEF CapturesBound
  <2>1. CASE k = cur
    <3>1. k[2] = run.d
      BY <2>1 DEF cur
    <3> QED BY <1>4, <1>11, <2>1, <3>1
  <2>2. CASE k # cur
    BY <1>10, <2>2 DEF Authority, CapturesBound
  <2> QED BY <2>1, <2>2
<1>14. CaptureInHand' /\ LiveWhileApplying'
  BY <1>1 DEF CaptureInHand, LiveWhileApplying, Applying
<1>15. \A k \in overridden : CaptureOf(k)' = CaptureOf(k)
  BY <1>2, <1>10, <1>12
<1>16. IntentRemembered' /\ WriterFlag'
  BY <1>1, <1>15 DEF Authority, IntentRemembered, WriterFlag, Remembered
<1> QED BY <1>13, <1>14, <1>16 DEF Authority

LEMMA SaveTerminalAuthority == ASSUME Inductive, Authority, SaveTerminal PROVE Authority'
<1>1. /\ UNCHANGED <<manual, overridden, mw, sched, reg, revoked, run>> /\ pc' = "ack" /\ pc = "save"
      /\ receipts' = Recorded(cur, run.result)
  BY DEF SaveTerminal, world
<1>2. overridden \subseteq Jobs /\ cur \in Jobs
  BY <1>1, CurIsJob DEF Inductive, TypeOK, Visiting
<1>3. run.result \in Results
  BY <1>1 DEF SaveTerminal, Inductive, TypeOK, LocalsType, WorkIsOpen, Prepared, Terminal
<1>4. \A k \in Jobs : CaptureOf(k)' = CaptureOf(k)
  <2>1. run.result.status \in Terminal \cup {"intent"} /\ run.result.reason \in Reasons
    BY <1>3 DEF Results
  <2> QED BY <1>1, <1>2, <2>1, RecordKeepsCapture
<1> QED BY <1>1, <1>2, <1>4, RunnerFrame DEF Applying

----------------------------------------------------------------------------
(* Steps of the others.                                                     *)

\* A step that is about neither the receipts, the manual generations nor the
\* authorities of a job being applied.
LEMMA WorldFrame ==
    ASSUME Inductive, Authority, UNCHANGED <<receipts, manual, overridden, mw, pc, run>>,
           Applying => UNCHANGED <<sched, reg, revoked>>
    PROVE  Authority'
<1>1. \A k \in Jobs : CaptureOf(k)' = CaptureOf(k)
  BY DEF CaptureOf
<1>2. overridden \subseteq Jobs
  BY DEF Inductive, TypeOK
<1>3. CapturesBound'
  BY <1>1 DEF Authority, CapturesBound
<1>4. CaptureInHand'
  BY DEF Authority, CaptureInHand, CaptureOf, cur
<1>5. LiveWhileApplying'
  BY DEF Authority, LiveWhileApplying, Applying
<1>6. IntentRemembered' /\ WriterFlag'
  BY <1>1, <1>2 DEF Authority, IntentRemembered, WriterFlag, Remembered
<1> QED BY <1>3, <1>4, <1>5, <1>6 DEF Authority

LEMMA WorldAuthority ==
    ASSUME Inductive, Authority,
           \/ \E o \in Occs : EditSchedule(o) \/ DeleteSchedule(o)
           \/ \E d \in Devices :
                 RetireDevice(d) \/ RegisterDevice(d) \/ RevokeDevice(d) \/ SweepRead(d)
           \/ \E i \in Images : QuarantineImage(i) \/ ReleaseImage(i) \/ SweepBegin(i)
           \/ SweepWrite \/ Tick \/ ClockBack \/ Stop
    PROVE  Authority'
<1>1. ASSUME NEW o \in Occs, EditSchedule(o) \/ DeleteSchedule(o) PROVE Authority'
  BY <1>1, WorldFrame DEF EditSchedule, DeleteSchedule, MembershipFree, RoleFree, durable
<1>2. ASSUME NEW d \in Devices, RetireDevice(d) \/ RegisterDevice(d) \/ RevokeDevice(d) \/ SweepRead(d)
      PROVE  Authority'
  BY <1>2, WorldFrame DEF RetireDevice, RegisterDevice, RevokeDevice, SweepRead, MembershipFree, durable
<1>3. ASSUME NEW i \in Images, QuarantineImage(i) \/ ReleaseImage(i) \/ SweepBegin(i) PROVE Authority'
  BY <1>3, WorldFrame DEF QuarantineImage, ReleaseImage, SweepBegin, durable
<1>4. CASE SweepWrite \/ Tick \/ ClockBack \/ Stop
  BY <1>4, WorldFrame DEF SweepWrite, Tick, ClockBack, Stop, durable
<1> QED BY <1>1, <1>2, <1>3, <1>4

\* The process ends: what is durable remembers the operator.
LEMMA ProcessAuthority == ASSUME Inductive, Authority, Restart \/ Crash PROVE Authority'
<1>1. /\ UNCHANGED <<receipts, manual, overridden>> /\ pc' = "start" /\ mw'.pc = "idle"
  BY DEF Restart, Crash, FreshProcess, durable, IdleWriter
<1>2. \A k \in Jobs : CaptureOf(k)' = CaptureOf(k)
  BY <1>1 DEF CaptureOf
<1>3. overridden \subseteq Jobs
  BY DEF Inductive, TypeOK
<1>4. CapturesBound' /\ CaptureInHand' /\ LiveWhileApplying'
  BY <1>1, <1>2 DEF Authority, CapturesBound, CaptureInHand, LiveWhileApplying, Applying
<1>5. IntentRemembered' /\ WriterFlag'
  BY <1>1, <1>2, <1>3 DEF Authority, IntentRemembered, WriterFlag, Remembered
<1> QED BY <1>4, <1>5 DEF Authority

\* A manual writer: the captures and the runner stay where they are.
LEMMA WriterFrame ==
    ASSUME Inductive, Authority, UNCHANGED <<receipts, sched, reg, revoked, pc, run>>,
           \A d \in Devices : manual'[d].gen \in Nat /\ manual[d].gen <= manual'[d].gen
    PROVE  /\ \A k \in Jobs : CaptureOf(k)' = CaptureOf(k)
           /\ CapturesBound' /\ CaptureInHand' /\ LiveWhileApplying'
<1>1. \A k \in Jobs : CaptureOf(k)' = CaptureOf(k)
  BY DEF CaptureOf
<1>2. \A d \in Devices : manual[d].gen \in Nat
  BY DEF Inductive, TypeOK
<1>3. CapturesBound'
  <2> SUFFICES ASSUME NEW k \in Jobs, CaptureOf(k) # None
               PROVE  CaptureOf(k).reg = 1 /\ CaptureOf(k).gen <= manual'[k[2]].gen
    BY <1>1 DEF CapturesBound
  <2>1. CaptureOf(k) \in Capturing
    BY CaptureType DEF Inductive
  <2>2. CaptureOf(k).gen \in Nat
    BY <2>1 DEF Capturing
  <2>3. CaptureOf(k).reg = 1 /\ CaptureOf(k).gen <= manual[k[2]].gen /\ k[2] \in Devices
    BY JobParts DEF Authority, CapturesBound
  <2> QED BY <1>2, <2>2, <2>3
<1>4. CaptureInHand'
  <2> SUFFICES ASSUME pc = "save", run.result \in Prepared
               PROVE  /\ CaptureOf(cur) = None /\ run.result.capture.reg = 1
                      /\ run.result.capture.gen <= manual'[run.d].gen
    BY DEF CaptureInHand, CaptureOf, cur
  <2>1. /\ CaptureOf(cur) = None /\ run.result.capture.reg = 1
        /\ run.result.capture.gen <= manual[run.d].gen
    BY DEF Authority, CaptureInHand
  <2>2. run.d \in Devices
    BY CurIsJob DEF Visiting
  <2>3. run.result.capture \in Capturing
    BY DEF Prepared
  <2>4. run.result.capture.gen \in Nat
    BY <2>3 DEF Capturing
  <2> QED BY <1>2, <2>1, <2>2, <2>4
<1>5. LiveWhileApplying'
  BY DEF Authority, LiveWhileApplying, Applying
<1> QED BY <1>1, <1>3, <1>4, <1>5

LEMMA ManualBeginAuthority ==
    ASSUME Inductive, Authority, NEW d \in Devices, NEW ids \in SUBSET Images, ManualBegin(d, ids)
    PROVE  Authority'
<1>1. /\ UNCHANGED <<receipts, sched, reg, revoked, pc, run, overridden>>
      /\ manual' = [manual EXCEPT ![d].pending = TRUE]
      /\ mw'.pc = "pending" /\ mw'.d = d /\ mw'.prior = manual[d].pending
  BY DEF ManualBegin
<1>2. manual \in [Devices -> [gen : Nat, pending : BOOLEAN]] /\ overridden \subseteq Jobs
  BY DEF Inductive, TypeOK
<1>3. /\ manual'[d].pending /\ \A e \in Devices : manual'[e].gen = manual[e].gen
      /\ \A e \in Devices : e # d => manual'[e] = manual[e]
  BY <1>1, <1>2
<1>4. \A e \in Devices : manual'[e].gen \in Nat /\ manual[e].gen <= manual'[e].gen
  BY <1>2, <1>3
<1>5. /\ \A k \in Jobs : CaptureOf(k)' = CaptureOf(k)
      /\ CapturesBound' /\ CaptureInHand' /\ LiveWhileApplying'
  BY <1>1, <1>4, WriterFrame
<1>6. ASSUME NEW k \in overridden
      PROVE  /\ CaptureOf(k)' # None
             /\ (manual'[k[2]].pending \/ CaptureOf(k)'.gen < manual'[k[2]].gen)
             /\ (k[2] = d => manual[d].pending \/ CaptureOf(k)'.gen < manual'[d].gen)
  <2>1. k \in Jobs /\ k[2] \in Devices /\ CaptureOf(k)' = CaptureOf(k)
    BY <1>2, <1>5, JobParts
  <2>2. CaptureOf(k) # None /\ (manual[k[2]].pending \/ CaptureOf(k).gen < manual[k[2]].gen)
    BY DEF Authority, IntentRemembered, Remembered
  <2> QED BY <1>3, <2>1, <2>2
<1>7. IntentRemembered'
  BY <1>1, <1>6 DEF IntentRemembered, Remembered
<1>8. WriterFlag'
  BY <1>1, <1>3, <1>6 DEF WriterFlag, Remembered
<1> QED BY <1>5, <1>7, <1>8 DEF Authority

\* The policy write of an operator: the flag is already durable.
LEMMA ManualCommitAuthority == ASSUME Inductive, Authority, ManualCommit PROVE Authority'
<1>1. /\ UNCHANGED <<receipts, sched, reg, revoked, pc, run, manual>>
      /\ overridden' = overridden \cup OpenJobs(mw.d) /\ mw.pc = "pending"
      /\ mw' = [mw EXCEPT !.pc = "written"]
  BY DEF ManualCommit
<1>2. mw \in WriterType /\ overridden \subseteq Jobs /\ mw.d \in Devices
  BY <1>1 DEF Inductive, TypeOK, CurrentJob
<1>3. mw'.pc = "written" /\ mw'.d = mw.d
  BY <1>1, <1>2 DEF WriterType
<1>4. manual[mw.d].pending
  BY <1>1 DEF Authority, WriterFlag
<1>5. \A e \in Devices : manual'[e].gen \in Nat /\ manual[e].gen <= manual'[e].gen
  BY <1>1 DEF Inductive, TypeOK
<1>6. /\ \A k \in Jobs : CaptureOf(k)' = CaptureOf(k)
      /\ CapturesBound' /\ CaptureInHand' /\ LiveWhileApplying'
  BY <1>1, <1>5, WriterFrame
<1>7. IntentRemembered'
  <2> SUFFICES ASSUME NEW k \in overridden \cup OpenJobs(mw.d)
               PROVE  /\ CaptureOf(k)' # None
                      /\ (manual[k[2]].pending \/ CaptureOf(k)'.gen < manual[k[2]].gen)
    BY <1>1 DEF IntentRemembered, Remembered
  <2>1. CASE k \in overridden
    BY <1>2, <1>6, <2>1 DEF Authority, IntentRemembered, Remembered
  <2>2. CASE k \in OpenJobs(mw.d)
    BY <1>4, <1>6, <2>2 DEF OpenJobs
  <2> QED BY <2>1, <2>2
<1>8. WriterFlag'
  BY <1>1, <1>3, <1>4 DEF WriterFlag
<1> QED BY <1>6, <1>7, <1>8 DEF Authority

\* A refused writer puts the flag back, which is enough for the writes before it.
LEMMA ManualRefuseAuthority == ASSUME Inductive, Authority, ManualRefuse PROVE Authority'
<1>1. /\ UNCHANGED <<receipts, sched, reg, revoked, pc, run, overridden>>
      /\ manual' = [manual EXCEPT ![mw.d].pending = mw.prior]
      /\ mw.pc = "pending" /\ mw'.pc = "idle"
  BY DEF ManualRefuse, world, IdleWriter
<1>2. /\ manual \in [Devices -> [gen : Nat, pending : BOOLEAN]] /\ overridden \subseteq Jobs
      /\ mw.d \in Devices
  BY <1>1 DEF Inductive, TypeOK, CurrentJob
<1>3. /\ manual'[mw.d].pending = mw.prior /\ \A e \in Devices : manual'[e].gen = manual[e].gen
      /\ \A e \in Devices : e # mw.d => manual'[e] = manual[e]
  BY <1>1, <1>2
<1>4. \A e \in Devices : manual'[e].gen \in Nat /\ manual[e].gen <= manual'[e].gen
  BY <1>2, <1>3
<1>5. /\ \A k \in Jobs : CaptureOf(k)' = CaptureOf(k)
      /\ CapturesBound' /\ CaptureInHand' /\ LiveWhileApplying'
  BY <1>1, <1>4, WriterFrame
<1>6. ASSUME NEW k \in overridden
      PROVE  /\ CaptureOf(k)' # None
             /\ (manual'[k[2]].pending \/ CaptureOf(k)'.gen < manual'[k[2]].gen)
  <2>1. k \in Jobs /\ k[2] \in Devices /\ CaptureOf(k)' = CaptureOf(k)
    BY <1>2, <1>5, JobParts
  <2>2. CaptureOf(k) # None /\ (manual[k[2]].pending \/ CaptureOf(k).gen < manual[k[2]].gen)
    BY DEF Authority, IntentRemembered, Remembered
  <2>3. k[2] = mw.d => mw.prior \/ CaptureOf(k).gen < manual[mw.d].gen
    BY <1>1 DEF Authority, WriterFlag, Remembered
  <2> QED BY <1>3, <2>1, <2>2, <2>3
<1>7. IntentRemembered'
  BY <1>1, <1>6 DEF IntentRemembered, Remembered
<1>8. WriterFlag'
  BY <1>1 DEF WriterFlag
<1> QED BY <1>5, <1>7, <1>8 DEF Authority

\* The new generation outlives the flag.
LEMMA ManualDoneAuthority == ASSUME Inductive, Authority, ManualDone PROVE Authority'
<1>1. /\ UNCHANGED <<receipts, sched, reg, revoked, pc, run, overridden>>
      /\ manual' = [manual EXCEPT ![mw.d] = [gen |-> @.gen + 1, pending |-> FALSE]]
      /\ mw.pc = "written" /\ mw'.pc = "idle"
  BY DEF ManualDone, world, IdleWriter
<1>2. /\ manual \in [Devices -> [gen : Nat, pending : BOOLEAN]] /\ overridden \subseteq Jobs
      /\ mw.d \in Devices
  BY <1>1 DEF Inductive, TypeOK, CurrentJob
<1>3. /\ manual'[mw.d].gen = manual[mw.d].gen + 1
      /\ \A e \in Devices : e # mw.d => manual'[e] = manual[e]
  BY <1>1, <1>2
<1>4. \A e \in Devices : manual'[e].gen \in Nat /\ manual[e].gen <= manual'[e].gen
  BY <1>2, <1>3
<1>5. /\ \A k \in Jobs : CaptureOf(k)' = CaptureOf(k)
      /\ CapturesBound' /\ CaptureInHand' /\ LiveWhileApplying'
  BY <1>1, <1>4, WriterFrame
<1>6. ASSUME NEW k \in overridden
      PROVE  /\ CaptureOf(k)' # None
             /\ (manual'[k[2]].pending \/ CaptureOf(k)'.gen < manual'[k[2]].gen)
  <2>1. k \in Jobs /\ k[2] \in Devices /\ CaptureOf(k)' = CaptureOf(k)
    BY <1>2, <1>5, JobParts
  <2>2. CaptureOf(k) # None /\ (manual[k[2]].pending \/ CaptureOf(k).gen < manual[k[2]].gen)
    BY DEF Authority, IntentRemembered, Remembered
  <2>3. CaptureOf(k) \in Capturing
    BY <2>1, <2>2, CaptureType DEF Inductive
  <2>4. CaptureOf(k).gen \in Nat /\ manual[k[2]].gen \in Nat /\ CaptureOf(k).gen <= manual[k[2]].gen
    BY <1>2, <2>1, <2>2, <2>3 DEF Capturing, Authority, CapturesBound
  <2>5. CASE k[2] = mw.d
    <3>1. CaptureOf(k).gen < manual[k[2]].gen + 1
      BY <2>4
    <3> QED BY <1>3, <2>1, <2>2, <2>5, <3>1
  <2>6. CASE k[2] # mw.d
    BY <1>3, <2>1, <2>2, <2>6
  <2> QED BY <2>5, <2>6
<1>7. IntentRemembered'
  BY <1>1, <1>6 DEF IntentRemembered, Remembered
<1>8. WriterFlag'
  BY <1>1 DEF WriterFlag
<1> QED BY <1>5, <1>7, <1>8 DEF Authority

----------------------------------------------------------------------------
(* The invariant, and what a policy write may never do.                     *)

LEMMA InitAuthority == Init => Authority
<1> SUFFICES ASSUME Init PROVE Authority
  OBVIOUS
<1>1. \A k \in Jobs : CaptureOf(k) = None
  BY DEF Init, CaptureOf
<1>2. pc = "start" /\ mw.pc = "idle" /\ overridden = {}
  BY DEF Init, IdleWriter
<1> QED BY <1>1, <1>2 DEF Authority, CapturesBound, CaptureInHand, LiveWhileApplying, Applying,
           IntentRemembered, WriterFlag

LEMMA NextAuthority == Inductive /\ Authority /\ [Next]_vars => Authority'
<1> SUFFICES ASSUME Inductive, Authority, [Next]_vars PROVE Authority'
  OBVIOUS
<1>1. CASE UNCHANGED vars
  BY <1>1, WorldFrame DEF vars, durable, world
<1>2. CASE RunnerStep
  BY <1>2, LoopAuthority, AdmissionAuthority, AnswerAuthority, CaptureAuthority, BeginAuthority,
     SavePreparedAuthority, SaveTerminalAuthority DEF RunnerStep
<1>3. CASE OutsideStep
  <2>1. ASSUME NEW d \in Devices, NEW ids \in SUBSET Images, ManualBegin(d, ids) PROVE Authority'
    BY <2>1, ManualBeginAuthority
  <2>2. CASE WriterStep
    BY <2>2, ManualCommitAuthority, ManualRefuseAuthority, ManualDoneAuthority DEF WriterStep
  <2>3. CASE ApplyFault \/ AcknowledgeFault
    BY <2>3, LoopAuthority, AnswerAuthority
  <2>4. CASE Restart \/ Crash
    BY <2>4, ProcessAuthority
  <2> QED BY <1>3, <2>1, <2>2, <2>3, <2>4, WorldAuthority DEF OutsideStep
<1> QED BY <1>1, <1>2, <1>3 DEF Next

\* What the captures, the locks of apply() and the pending flag keep true at
\* every moment of a job.
THEOREM AuthorityInvariant == Spec => [](Inductive /\ Authority)
<1>1. Init => Inductive /\ Authority
  BY InitInductive, InitAuthority
<1>2. Inductive /\ Authority /\ [Next]_vars => (Inductive /\ Authority)'
  BY NextInductive, NextAuthority
<1> QED BY <1>1, <1>2, PTL DEF Spec

\* The one step that counts a commit is the current job's set_policy.
LEMMA OnlyDecideCommits ==
    ASSUME Inductive, [Next]_vars, NEW k \in Jobs, commits'[k] # commits[k]
    PROVE  DecideCommit /\ k = cur
<1>1. ~UNCHANGED commits
  OBVIOUS
<1>2. ~OutsideStep
  BY <1>1 DEF OutsideStep, ApplyFault, AcknowledgeFault, ManualBegin, WriterStep, ManualCommit,
     ManualRefuse, ManualDone, EditSchedule, DeleteSchedule, RetireDevice, RegisterDevice,
     RevokeDevice, SweepRead, QuarantineImage, ReleaseImage, SweepBegin, SweepWrite, Tick,
     ClockBack, Stop, Restart, Crash, FreshProcess, durable
<1>3. RunnerStep
  BY <1>1, <1>2 DEF Next, vars, durable
<1>4. DecideCommit
  BY <1>1, <1>3 DEF RunnerStep, Recover, Serve, Visit, VisitNotOpen, VisitClosed, VisitOpen,
     RecheckClosed, RecheckOpen, Capture, ApplyRefused, ApplyBegin, ApplyReplay, ApplyClaim,
     DecideRefusal, DecideRebase, SaveResult, PollUnprepared, PollNothing, PollClaim,
     SavePrepared, SaveTerminal, Acknowledge, Finish, FinishUnsubmitted, GoPoll, durable
<1>5. cur \in Jobs /\ commits \in [Jobs -> Nat]
  BY <1>4, CurIsJob DEF DecideCommit, Visiting, Inductive, TypeOK
<1>6. k = cur
  BY <1>4, <1>5 DEF DecideCommit
<1> QED BY <1>4, <1>6

\* What _apply_guarded has seen when it lets the write through.
LEMMA CommitConditions ==
    ASSUME Inductive, DecideCommit
    PROVE  /\ manual[run.d].gen = CaptureOf(cur).gen /\ ~manual[run.d].pending
           /\ ExpectedIds = policy[run.d]
           /\ cur \in Jobs /\ run.d \in Devices /\ cur[1] = run.o /\ cur[2] = run.d
<1>1. manual[run.d].gen = CaptureOf(cur).gen /\ ~manual[run.d].pending /\ ExpectedIds = policy[run.d]
  BY DEF DecideCommit, ApplyRefusal
<1>2. cur \in Jobs /\ run.d \in Devices
  BY CurIsJob DEF DecideCommit, Visiting
<1> QED BY <1>1, <1>2 DEF cur

\* "Manual work wins" (AssignmentService._apply_guarded): for every number of
\* operators, restarts and crashes, no job writes the policy of a device that was
\* assigned by hand after the job captured it.
THEOREM ManualWorkWins == Spec => OperatorIntentWins
<1>1. Inductive /\ Authority /\ [Next]_vars =>
        [\A k \in Jobs : commits'[k] # commits[k] => k \notin overridden]_vars
  <2> SUFFICES ASSUME Inductive, Authority, [Next]_vars, NEW k \in Jobs, commits'[k] # commits[k],
                      k \in overridden
               PROVE  FALSE
    OBVIOUS
  <2>1. DecideCommit /\ k = cur
    BY OnlyDecideCommits
  <2>2. /\ manual[run.d].gen = CaptureOf(cur).gen /\ ~manual[run.d].pending
        /\ cur \in Jobs /\ run.d \in Devices /\ cur[2] = run.d
    BY <2>1, CommitConditions
  <2>3. CaptureOf(cur).gen < manual[run.d].gen
    BY <2>1, <2>2 DEF Authority, IntentRemembered, Remembered
  <2>4. manual[run.d].gen \in Nat
    BY <2>2 DEF Inductive, TypeOK
  <2> QED BY <2>2, <2>3, <2>4
<1> QED BY <1>1, AuthorityInvariant, PTL DEF Spec, OperatorIntentWins

\* _check_live under the role, membership and secrets locks: whatever edits,
\* retirements and revocations wait, a policy write is made for a definition in
\* force, the registration bound to the occurrence and live credentials.
THEOREM WritesHaveAuthority == Spec => CommitUnderLiveAuthority
<1>1. Inductive /\ Authority /\ [Next]_vars =>
        [\A k \in Jobs : commits'[k] # commits[k] =>
            /\ sched[k[1]] = "live"
            /\ reg[k[2]] = 1
            /\ k[2] \notin revoked]_vars
  <2> SUFFICES ASSUME Inductive, Authority, [Next]_vars, NEW k \in Jobs, commits'[k] # commits[k]
               PROVE  sched[k[1]] = "live" /\ reg[k[2]] = 1 /\ k[2] \notin revoked
    OBVIOUS
  <2>1. DecideCommit /\ k = cur
    BY OnlyDecideCommits
  <2>2. k[1] = run.o /\ k[2] = run.d
    BY <2>1, CommitConditions
  <2>3. Applying
    BY <2>1 DEF DecideCommit, Applying
  <2> QED BY <2>2, <2>3 DEF Authority, LiveWhileApplying
<1> QED BY <1>1, AuthorityInvariant, PTL DEF Spec, CommitUnderLiveAuthority

\* The compare-and-set of _apply_guarded: a merge keeps every image that is
\* assigned, and a replacement replaces exactly the policy it captured, whatever
\* manual writes and quarantine sweeps come between.
THEOREM WritesKeepOthersWork == Spec => CommitKeepsOthersWork
<1>1. Inductive /\ [Next]_vars =>
        [\A k \in Jobs : commits'[k] # commits[k] =>
            IF Mode[k[1]] = "merge" THEN policy[k[2]] \subseteq policy'[k[2]]
            ELSE policy[k[2]] = CaptureOf(k).before]_vars
  <2> SUFFICES ASSUME Inductive, [Next]_vars, NEW k \in Jobs, commits'[k] # commits[k]
               PROVE  IF Mode[k[1]] = "merge" THEN policy[k[2]] \subseteq policy'[k[2]]
                      ELSE policy[k[2]] = CaptureOf(k).before
    OBVIOUS
  <2>1. DecideCommit /\ k = cur
    BY OnlyDecideCommits
  <2>2. k[1] = run.o /\ k[2] = run.d /\ run.d \in Devices /\ ExpectedIds = policy[run.d]
    BY <2>1, CommitConditions
  <2>3. policy'[run.d] = WantedIds
    BY <2>1, <2>2 DEF DecideCommit, Inductive, TypeOK
  <2>4. CASE Mode[run.o] = "merge"
    BY <2>2, <2>3, <2>4 DEF WantedIds, ExpectedIds
  <2>5. CASE Mode[run.o] # "merge"
    BY <2>1, <2>2, <2>5 DEF ExpectedIds
  <2> QED BY <2>2, <2>4, <2>5
<1> QED BY <1>1, InductiveInvariant, PTL DEF Spec, CommitKeepsOthersWork
=============================================================================
