---------------------- MODULE ScheduledAssignmentProofs ----------------------
(***************************************************************************)
(* Proofs about ScheduledAssignment for every set of occurrences, devices  *)
(* and images, every window and every number of outside events: type       *)
(* correctness, the inductive invariant behind at-most-once execution, and *)
(* the refinement of AssignmentLedger.                                     *)
(***************************************************************************)
EXTENDS ScheduledAssignment, TLAPS

----------------------------------------------------------------------------
(* The inductive invariant.                                                *)

\* The runner is inside a visit of the job cur.
Visiting == pc \in {"visit", "recheck", "dispatch", "poll", "apply", "decide",
                    "result", "save", "ack"}

\* A visited job exists, and the pass does not come back to it.
CurrentJob ==
    /\ pc = "loop" => run.o \in Occs
    /\ Visiting => run.o \in Occs /\ run.d \in Devices /\ run.d \notin run.todo
    /\ mw.pc # "idle" => mw.d \in Devices

\* The loop's stale snapshot of the completed devices is still exact for the
\* devices it has not visited.
SnapshotExact ==
    pc = "loop" \/ Visiting =>
        \A d \in run.todo : IsDone(<<run.o, d>>) <=> d \in run.complete

\* Only an unfinished job is worked on, and only a finished one acknowledged.
WorkIsOpen ==
    /\ pc \in {"visit", "recheck", "dispatch", "poll", "apply", "decide",
               "result", "save"} => ~IsDone(cur)
    /\ pc \in {"recheck", "dispatch", "poll", "apply", "decide", "result",
               "save"} => receipts[cur] # None
    /\ pc \in {"apply", "decide", "result"} => CaptureOf(cur) # None
    /\ pc \in {"result", "save"} => run.result # None
    /\ pc = "result" => run.result \in Results
    /\ pc = "poll" => run.why # None
    /\ pc = "ack" => IsDone(cur)

\* A write is at most one, and until it is reported the claim remembers it.
WritesClaimed ==
    /\ \A k \in Jobs : commits[k] \in {0, 1}
    /\ UnreportedCommitHasClaim
    /\ pc \in {"decide", "result"} => claims[cur] # None
    /\ pc = "decide" => commits[cur] = 0

\* Success is only ever said of a write: in a claim, in the runner's hands and
\* in a receipt.
SuccessIsTrue ==
    /\ \A k \in Jobs : claims[k] # None =>
         (claims[k].result # None /\ claims[k].result.status = "ok"
            => commits[k] = 1)
    /\ pc \in {"result", "save"} /\ run.result # None =>
         (run.result.status = "ok" => commits[cur] = 1)
    /\ \A k \in Jobs : receipts[k] # None =>
         (receipts[k].status = "ok" => commits[k] = 1)

Inductive ==
    /\ TypeOK
    /\ CurrentJob
    /\ SnapshotExact
    /\ WorkIsOpen
    /\ WritesClaimed
    /\ SuccessIsTrue
    /\ EndedMeansEveryDeviceReported

----------------------------------------------------------------------------
(* Lemmas about the operators.                                             *)

\* A terminal result is made of a status and a known reason.
LEMMA ResultTypes ==
    ASSUME NEW reason \in Reasons
    PROVE  /\ Skipped(reason) \in Results /\ Skipped(reason).status = "skipped"
           /\ Error(reason) \in Results /\ Error(reason).status = "error"
BY DEF Skipped, Error, Result, Results, Terminal

\* _closed_reason answers with one of the known reasons.
LEMMA ClosedReasonType == \A o : ClosedReason(o) \in Reasons
BY DEF ClosedReason, Reasons

\* So do the live check and the refusals of _apply_guarded, when they refuse.
LEMMA RefusalTypes ==
    /\ LiveRefusal # "none" => LiveRefusal \in Reasons
    /\ ApplyRefusal \notin {"none", "rebase"} => ApplyRefusal \in Reasons
<1>1. LiveRefusal # "none" => LiveRefusal \in Reasons
  BY DEF LiveRefusal, Reasons
<1>2. ApplyRefusal \notin {"none", "rebase"} => ApplyRefusal \in Reasons
  BY DEF ApplyRefusal, Reasons
<1> QED BY <1>1, <1>2

\* A receipt holds a capture or none.
LEMMA CaptureType ==
    ASSUME TypeOK, NEW k \in Jobs
    PROVE  CaptureOf(k) \in Capturing \cup {None}
BY DEF TypeOK, CaptureOf, ReceiptRow

\* The initial locals of the runner, the writer and the sweep are well typed.
LEMMA FreshTypes ==
    Locals \in LocalsType /\ IdleWriter \in WriterType /\ IdleSweep \in SweepType
BY DEF Locals, LocalsType, IdleWriter, WriterType, IdleSweep, SweepType

\* ReceiptStore.record on an unfinished job replaces that receipt alone.
LEMMA RecordedReceipt ==
    ASSUME TypeOK, NEW k \in Jobs, ~IsDone(k), NEW r,
           r.status \in Terminal \cup {"intent"}, r.reason \in Reasons
    PROVE  /\ Recorded(k, r) \in [Jobs -> ReceiptRow \cup {None}]
           /\ Recorded(k, r)[k] = Receipt(r, CaptureOf(k))
           /\ Receipt(r, CaptureOf(k)) # None
           /\ \A j \in Jobs : j # k => Recorded(k, r)[j] = receipts[j]
<1>1. Receipt(r, CaptureOf(k)) \in ReceiptRow
  BY CaptureType DEF Receipt, ReceiptRow
<1>2. Receipt(r, CaptureOf(k)) # None
  BY <1>1, NoneAssumption
<1> QED BY <1>1, <1>2 DEF TypeOK, Recorded

----------------------------------------------------------------------------
(* Steps that several actions share.                                       *)

\* A step of the runner only has to type the variables it changes.
LEMMA RunnerTypes ==
    ASSUME TypeOK, UNCHANGED <<manual, policy, world, mw>>,
           occ' \in [Occs -> Active \cup {"completed", "cancelled", "failed"}],
           receipts' \in [Jobs -> ReceiptRow \cup {None}],
           claims' \in [Jobs -> ClaimRow \cup {None}],
           commits' \in [Jobs -> Nat],
           run' \in LocalsType,
           pc' \in {"start", "idle", "loop", "visit", "recheck", "dispatch",
                   "poll", "apply", "decide", "result", "save", "ack"}
    PROVE  TypeOK'
BY DEF TypeOK, world

\* A step that leaves the runner and its evidence alone.
LEMMA BystanderStep ==
    ASSUME Inductive, TypeOK',
           mw'.pc # "idle" => mw'.d \in Devices,
           UNCHANGED <<occ, receipts, claims, commits, pc, run>>
    PROVE  Inductive'
BY DEF Inductive, CurrentJob, Visiting, SnapshotExact, WorkIsOpen,
       WritesClaimed, UnreportedCommitHasClaim, SuccessIsTrue,
       EndedMeansEveryDeviceReported, IsDone, CaptureOf, cur

\* The evidence and the position of the runner are as before, and pc' is
\* allowed where it goes.
LEMMA MoveStep ==
    ASSUME Inductive, TypeOK', UNCHANGED <<occ, receipts, claims, commits, mw>>,
           Visiting, run'.o = run.o, run'.d = run.d, run'.todo = run.todo,
           run'.complete = run.complete,
           \/ pc' = "loop"
           \/ pc' = "dispatch" /\ pc = "recheck"
           \/ pc' = "poll" /\ pc \in {"visit", "recheck"} /\ run'.why # None
                           /\ receipts[cur] # None
           \/ pc' = "apply" /\ pc = "dispatch" /\ CaptureOf(cur) # None
           \/ pc' = "decide" /\ pc = "decide"
    PROVE  Inductive'
BY DEF Inductive, CurrentJob, Visiting, SnapshotExact, WorkIsOpen,
       WritesClaimed, UnreportedCommitHasClaim, SuccessIsTrue,
       EndedMeansEveryDeviceReported, IsDone, CaptureOf, cur

\* _finish_unsubmitted and the terminal case of _save: the job gets its
\* receipt, which tells the truth.
LEMMA TerminalStep ==
    ASSUME Inductive, cur \in Jobs, ~IsDone(cur), Visiting,
           NEW r \in Results, r.status = "ok" => commits[cur] = 1,
           receipts' = Recorded(cur, r), pc' = "ack",
           UNCHANGED <<occ, claims, manual, policy, commits, world, run, mw>>
    PROVE  Inductive'
<1>1. /\ r.status \in Terminal
      /\ r.reason \in Reasons
  BY DEF Results
<1>2. /\ receipts' \in [Jobs -> ReceiptRow \cup {None}]
      /\ receipts'[cur] = Receipt(r, CaptureOf(cur))
      /\ receipts'[cur] # None
      /\ \A j \in Jobs : j # cur => receipts'[j] = receipts[j]
  BY <1>1, RecordedReceipt DEF Inductive
<1>3. TypeOK'
  BY <1>2, RunnerTypes DEF Inductive, TypeOK
<1>4. /\ IsDone(cur)' /\ receipts'[cur].status = r.status
      /\ \A j \in Jobs : j # cur => (IsDone(j)' <=> IsDone(j))
  BY <1>1, <1>2 DEF IsDone, Receipt, cur
<1>5. CurrentJob' /\ WorkIsOpen'
  BY <1>4 DEF Inductive, CurrentJob, Visiting, WorkIsOpen, cur
<1>6. SnapshotExact'
  BY <1>4 DEF Inductive, SnapshotExact, CurrentJob, Visiting, cur, Jobs, TypeOK,
              LocalsType
<1>7. WritesClaimed'
  BY <1>4 DEF Inductive, WritesClaimed, UnreportedCommitHasClaim
<1>8. SuccessIsTrue'
  BY <1>2, <1>4 DEF Inductive, SuccessIsTrue
<1>9. EndedMeansEveryDeviceReported'
  BY <1>4 DEF Inductive, EndedMeansEveryDeviceReported, Jobs
<1> QED BY <1>3, <1>5, <1>6, <1>7, <1>8, <1>9 DEF Inductive

\* The executor returns to the runner, which may have found or closed a claim.
LEMMA ReturnStep ==
    ASSUME Inductive, cur \in Jobs,
           pc \in {"dispatch", "poll", "apply", "decide", "result"},
           NEW r \in Results \cup Prepared, Return(r),
           r.status = "ok" => commits[cur] = 1,
           UNCHANGED <<occ, receipts, commits, mw>>,
           TypeOK',
           \A k \in Jobs : claims[k] # None => claims'[k] # None,
           \A k \in Jobs : claims'[k] # None =>
              (claims'[k].result # None /\ claims'[k].result.status = "ok"
                 => commits[k] = 1)
    PROVE  Inductive'
<1>1. r # None
  BY NoneAssumption DEF Prepared
<1>2. /\ run'.o = run.o /\ run'.d = run.d /\ run'.todo = run.todo
      /\ run'.complete = run.complete /\ run'.result = r /\ pc' = "save"
  BY DEF Return, Inductive, TypeOK, LocalsType
<1>3. \A k : IsDone(k)' <=> IsDone(k)
  BY DEF IsDone
<1>4. CurrentJob' /\ SnapshotExact'
  BY <1>2, <1>3 DEF Inductive, CurrentJob, SnapshotExact, Visiting
<1>5. WorkIsOpen'
  BY <1>1, <1>2, <1>3 DEF Inductive, WorkIsOpen, cur
<1>6. WritesClaimed' /\ SuccessIsTrue'
  BY <1>2, <1>3 DEF Inductive, WritesClaimed, UnreportedCommitHasClaim,
                    SuccessIsTrue, cur
<1>7. EndedMeansEveryDeviceReported'
  BY <1>3 DEF Inductive, EndedMeansEveryDeviceReported
<1> QED BY <1>4, <1>5, <1>6, <1>7 DEF Inductive

----------------------------------------------------------------------------
(* The runner's actions.                                                   *)

\* Where the runner is inside a visit, cur is a job.
LEMMA CurIsJob ==
    ASSUME Inductive, Visiting
    PROVE  cur \in Jobs /\ run.o \in Occs /\ run.d \in Devices
BY DEF Inductive, CurrentJob, cur, Jobs

\* Recovery, the start of a pass and the loop's head keep the invariant.
LEMMA LoopSteps ==
    ASSUME Inductive,
           \/ Recover \/ VisitNotOpen \/ RecheckOpen
           \/ \E o \in Occs : Serve(o)
           \/ \E d \in Devices : Visit(d)
    PROVE  Inductive'
<1> USE DEF Inductive
<1>1. CASE Recover
  <2>1. TypeOK'
    BY <1>1, RunnerTypes DEF Recover, TypeOK, Active
  <2>2. \A k : IsDone(k)' <=> IsDone(k)
    BY <1>1 DEF Recover, IsDone
  <2>3. EndedMeansEveryDeviceReported'
    BY <1>1, <2>2 DEF Recover, EndedMeansEveryDeviceReported, Active, TypeOK
  <2>4. CurrentJob' /\ SnapshotExact' /\ WorkIsOpen'
    BY <1>1 DEF Recover, CurrentJob, Visiting, SnapshotExact, WorkIsOpen
  <2>5. WritesClaimed' /\ SuccessIsTrue'
    BY <1>1, <2>2 DEF Recover, WritesClaimed, UnreportedCommitHasClaim,
                      SuccessIsTrue
  <2> QED BY <2>1, <2>3, <2>4, <2>5
<1>2. CASE VisitNotOpen
  BY <1>2, MoveStep, RunnerTypes DEF VisitNotOpen, TypeOK, Visiting, durable
<1>3. CASE RecheckOpen
  BY <1>3, MoveStep, RunnerTypes DEF RecheckOpen, TypeOK, Visiting, durable
<1>4. ASSUME NEW o \in Occs, Serve(o) PROVE Inductive'
  <2>1. /\ run' \in LocalsType /\ run'.o = o /\ pc' = "loop"
        /\ run'.complete = {d \in Devices : IsDone(<<o, d>>)}
    BY <1>4 DEF Serve, Locals, LocalsType, InOrder, ActiveOccs, TypeOK
  <2>2. /\ occ' \in [Occs -> Active \cup {"completed", "cancelled", "failed"}]
        /\ \A p \in Occs : occ'[p] \notin Active => occ[p] \notin Active
    BY <1>4 DEF Serve, InOrder, ActiveOccs, Active, TypeOK
  <2>3. TypeOK'
    BY <1>4, <2>1, <2>2, RunnerTypes DEF Serve, TypeOK
  <2>4. \A k : IsDone(k)' <=> IsDone(k)
    BY <1>4 DEF Serve, IsDone
  <2>5. SnapshotExact'
    BY <2>1, <2>3, <2>4 DEF SnapshotExact, TypeOK, LocalsType
  <2>6. CurrentJob' /\ WorkIsOpen'
    BY <1>4, <2>1 DEF Serve, CurrentJob, Visiting, WorkIsOpen
  <2>7. WritesClaimed' /\ SuccessIsTrue'
    BY <1>4, <2>1, <2>4 DEF Serve, WritesClaimed, UnreportedCommitHasClaim,
                            SuccessIsTrue
  <2>8. EndedMeansEveryDeviceReported'
    BY <2>2, <2>4 DEF EndedMeansEveryDeviceReported
  <2> QED BY <2>3, <2>5, <2>6, <2>7, <2>8
<1>5. ASSUME NEW d \in Devices, Visit(d) PROVE Inductive'
  <2>1. /\ run' \in LocalsType /\ run'.o = run.o /\ run'.d = d
        /\ run'.todo = run.todo \ {d} /\ run'.complete = run.complete
        /\ pc' \in {"ack", "visit"} /\ (pc' = "ack" <=> d \in run.complete)
    BY <1>5 DEF Visit, LocalsType, TypeOK
  <2>2. TypeOK'
    BY <1>5, <2>1, RunnerTypes DEF Visit, TypeOK, durable
  <2>3. \A k : IsDone(k)' <=> IsDone(k)
    BY <1>5 DEF Visit, IsDone, durable
  <2>4. CurrentJob' /\ SnapshotExact'
    BY <1>5, <2>1, <2>3 DEF Visit, CurrentJob, SnapshotExact, Visiting
  <2>5. WorkIsOpen'
    BY <1>5, <2>1, <2>3 DEF Visit, WorkIsOpen, SnapshotExact, cur
  <2>6. WritesClaimed' /\ SuccessIsTrue' /\ EndedMeansEveryDeviceReported'
    BY <1>5, <2>1, <2>3 DEF Visit, WritesClaimed, UnreportedCommitHasClaim,
       SuccessIsTrue, EndedMeansEveryDeviceReported, durable
  <2> QED BY <2>2, <2>4, <2>5, <2>6
<1> QED BY <1>1, <1>2, <1>3, <1>4, <1>5

\* The admission decisions of a visit keep it.
LEMMA AdmissionSteps ==
    ASSUME Inductive, VisitClosed \/ VisitOpen \/ RecheckClosed
    PROVE  Inductive'
<1> USE DEF Inductive
<1>1. cur \in Jobs /\ run.o \in Occs /\ ~IsDone(cur) /\ Visiting
  BY CurIsJob DEF VisitClosed, VisitOpen, RecheckClosed, Visiting, WorkIsOpen
<1>2. ASSUME NEW why \in Reasons, FinishUnsubmitted(why) PROVE Inductive'
  <2>1. Skipped(why) \in Results /\ Skipped(why).status # "ok"
    BY ResultTypes
  <2> QED BY <1>1, <1>2, <2>1, TerminalStep DEF FinishUnsubmitted
<1>3. ASSUME NEW why \in Reasons, GoPoll(why), pc \in {"visit", "recheck"},
             receipts[cur] # None
      PROVE  Inductive'
  <2>1. /\ run' \in LocalsType /\ run'.o = run.o /\ run'.d = run.d
        /\ run'.todo = run.todo /\ run'.complete = run.complete
        /\ run'.why = why
    BY <1>3 DEF GoPoll, LocalsType, TypeOK
  <2>2. TypeOK'
    BY <1>3, <2>1, RunnerTypes DEF GoPoll, TypeOK, durable
  <2>3. why # None
    BY NoneAssumption
  <2> QED BY <1>1, <1>3, <2>1, <2>2, <2>3, MoveStep DEF GoPoll, durable
<1>4. CASE VisitClosed
  BY <1>2, <1>3, <1>4, ClosedReasonType DEF VisitClosed
<1>5. CASE RecheckClosed
  BY <1>2, <1>3, <1>5, ClosedReasonType DEF RecheckClosed, WorkIsOpen
<1>6. CASE VisitOpen
  <2>1. /\ run' \in LocalsType /\ run'.o = run.o /\ run'.d = run.d
        /\ run'.todo = run.todo /\ run'.complete = run.complete
    BY <1>6 DEF VisitOpen, LocalsType, TypeOK
  <2>2. /\ receipts' \in [Jobs -> ReceiptRow \cup {None}]
        /\ receipts'[cur] # None
        /\ receipts'[cur].status \notin Terminal
        /\ \A k \in Jobs : k # cur => receipts'[k] = receipts[k]
    <3>1. CASE receipts[cur] = None
      <4> DEFINE r == Result("intent", "pending")
      <4>1. r.status = "intent" /\ r.reason \in Reasons
        BY DEF Result, Reasons
      <4>2. receipts' = Recorded(cur, r)
        BY <1>6, <3>1 DEF VisitOpen
      <4>3. Receipt(r, CaptureOf(cur)).status = "intent"
        BY <4>1 DEF Receipt
      <4> HIDE DEF r
      <4> QED BY <1>1, <4>1, <4>2, <4>3, RecordedReceipt DEF Terminal
    <3>2. CASE receipts[cur] # None
      BY <1>1, <1>6, <3>2 DEF VisitOpen, IsDone, TypeOK
    <3> QED BY <3>1, <3>2
  <2>3. TypeOK'
    BY <1>6, <2>1, <2>2, RunnerTypes DEF VisitOpen, TypeOK
  <2>4. cur' = cur /\ \A k \in Jobs : IsDone(k)' <=> IsDone(k)
    BY <1>1, <2>1, <2>2 DEF IsDone, cur
  <2>5. CurrentJob' /\ WorkIsOpen'
    BY <1>1, <1>6, <2>1, <2>2, <2>4
    DEF VisitOpen, CurrentJob, Visiting, WorkIsOpen
  <2>6. SnapshotExact' /\ EndedMeansEveryDeviceReported'
    BY <1>1, <1>6, <2>1, <2>4, <2>3 DEF VisitOpen, SnapshotExact, Visiting, Jobs,
       EndedMeansEveryDeviceReported, TypeOK, LocalsType
  <2>7. WritesClaimed'
    BY <1>6, <2>4 DEF VisitOpen, WritesClaimed, UnreportedCommitHasClaim
  <2>8. SuccessIsTrue'
    BY <1>6, <2>2 DEF VisitOpen, SuccessIsTrue, Terminal
  <2> QED BY <2>3, <2>5, <2>6, <2>7, <2>8
<1> QED BY <1>4, <1>5, <1>6

\* What Return does to the locals.
LEMMA ReturnType ==
    ASSUME TypeOK, NEW r \in Results \cup Prepared, Return(r)
    PROVE  run' \in LocalsType /\ pc' = "save"
BY DEF TypeOK, LocalsType, Return

\* A refusal or a capture by the executor, which touches no claim, keeps it.
LEMMA AnswerStep ==
    ASSUME Inductive, pc \in {"dispatch", "poll", "apply", "decide", "result"},
           NEW r \in Results \cup Prepared, Return(r), r.status # "ok",
           UNCHANGED <<durable, world, mw>>
    PROVE  Inductive'
<1>1. cur \in Jobs
  BY CurIsJob DEF Visiting
<1>2. TypeOK'
  BY ReturnType, RunnerTypes DEF Inductive, TypeOK, durable
<1>3. UNCHANGED <<occ, receipts, claims, commits, mw>>
  BY DEF durable
<1> QED BY <1>1, <1>2, <1>3, ReturnStep DEF Inductive, SuccessIsTrue

\* capture_schedule_state, the live check's refusal and the poll of an
\* unprepared receipt keep it.
LEMMA AnswerSteps ==
    ASSUME Inductive, Capture \/ ApplyRefused \/ PollUnprepared
    PROVE  Inductive'
<1> USE DEF Inductive
<1>1. CASE Capture
  <2>1. run.d \in Devices
    BY <1>1, CurIsJob DEF Capture, Visiting
  <2>2. CASE CaptureRefusal = None
    <3> DEFINE r == [status |-> "prepared", reason |-> "assignment_prepared",
                     capture |-> Captured]
    <3>1. Captured \in Capturing
      BY <2>1 DEF Captured, Capturing, TypeOK
    <3>2. r \in Prepared /\ r.status # "ok"
      BY <3>1 DEF Prepared, Reasons
    <3>3. Return(r)
      BY <1>1, <2>2 DEF Capture
    <3> QED BY <1>1, <3>2, <3>3, AnswerStep DEF Capture
  <2>3. CASE CaptureRefusal # None
    <3>1. CaptureRefusal \in Results /\ CaptureRefusal.status # "ok"
      BY <2>3, ResultTypes DEF CaptureRefusal, Reasons
    <3>2. Return(CaptureRefusal)
      BY <1>1, <2>3 DEF Capture
    <3> QED BY <1>1, <3>1, <3>2, AnswerStep DEF Capture
  <2> QED BY <2>2, <2>3
<1>2. CASE ApplyRefused
  <2>1. Skipped(LiveRefusal) \in Results /\ Skipped(LiveRefusal).status # "ok"
    BY <1>2, RefusalTypes, ResultTypes DEF ApplyRefused
  <2> QED BY <1>2, <2>1, AnswerStep DEF ApplyRefused
<1>3. CASE PollUnprepared
  <2>1. Error("conflict") \in Results /\ Error("conflict").status # "ok"
    BY ResultTypes DEF Reasons
  <2> QED BY <1>3, <2>1, AnswerStep DEF PollUnprepared
<1> QED BY <1>1, <1>2, <1>3

\* Storing a result in an existing claim changes that result alone.
LEMMA ResolvedClaim ==
    ASSUME TypeOK, NEW k \in Jobs, claims[k] # None, NEW r \in Results,
           claims' = Resolved(k, r)
    PROVE  /\ claims' \in [Jobs -> ClaimRow \cup {None}]
           /\ claims'[k] # None /\ claims'[k].result = r
           /\ \A j \in Jobs : j # k => claims'[j] = claims[j]
<1>1. claims[k] \in ClaimRow /\ claims \in [Jobs -> ClaimRow \cup {None}]
  BY DEF TypeOK
<1>2. claims'[k] = [claims[k] EXCEPT !.result = r]
  BY <1>1 DEF Resolved
<1>3. claims'[k] \in ClaimRow /\ claims'[k].result = r
  BY <1>1, <1>2 DEF ClaimRow
<1>4. claims' \in [Jobs -> ClaimRow \cup {None}]
  BY <1>1, <1>2, <1>3 DEF Resolved
<1> QED BY <1>1, <1>3, <1>4, NoneAssumption DEF Resolved

\* Finding an existing claim, from apply or from reconcile_schedule_result,
\* keeps it: a saved success is of a write, an unfinished claim is closed.
LEMMA ReplaySteps ==
    ASSUME Inductive, ApplyReplay \/ PollClaim
    PROVE  Inductive'
<1> USE DEF Inductive
<1>1. /\ pc \in {"apply", "poll"} /\ claims[cur] # None
      /\ ReplayClaim(CaptureOf(cur))
      /\ UNCHANGED <<occ, receipts, manual, policy, commits, world, mw>>
  BY DEF ApplyReplay, PollClaim
<1>2. cur \in Jobs
  BY <1>1, CurIsJob DEF Visiting
<1> DEFINE conflict == Skipped("conflict")
<1>3. conflict \in Results /\ conflict.status # "ok"
  BY ResultTypes DEF Reasons
<1>4. CASE claims[cur].result = None
  <2>1. claims' = Resolved(cur, conflict) /\ Return(conflict)
    BY <1>1, <1>4 DEF ReplayClaim
  <2> HIDE DEF conflict
  <2>2. /\ claims' \in [Jobs -> ClaimRow \cup {None}]
        /\ claims'[cur] # None /\ claims'[cur].result = conflict
        /\ \A j \in Jobs : j # cur => claims'[j] = claims[j]
    BY <1>1, <1>2, <1>3, <2>1, ResolvedClaim
  <2>3. TypeOK'
    BY <1>1, <1>3, <2>1, <2>2, ReturnType, RunnerTypes DEF TypeOK
  <2> QED BY <1>1, <1>2, <1>3, <2>1, <2>2, <2>3, ReturnStep DEF SuccessIsTrue
<1>5. CASE claims[cur].result # None
  <2> DEFINE r == IF claims[cur].req = CaptureOf(cur) THEN claims[cur].result
                  ELSE conflict
  <2>1. claims' = claims /\ Return(r)
    BY <1>1, <1>5 DEF ReplayClaim
  <2>2. claims[cur].result \in Results
    BY <1>1, <1>2, <1>5 DEF TypeOK, ClaimRow
  <2> HIDE DEF conflict
  <2>3. r \in Results /\ (r.status = "ok" => commits[cur] = 1)
    BY <1>1, <1>2, <1>3, <1>5, <2>2 DEF SuccessIsTrue
  <2> HIDE DEF r
  <2>4. TypeOK'
    BY <1>1, <2>1, <2>3, ReturnType, RunnerTypes DEF TypeOK
  <2> QED BY <1>1, <1>2, <2>1, <2>3, <2>4, ReturnStep DEF SuccessIsTrue
<1> QED BY <1>4, <1>5

\* Entering apply, rebasing a merge and a poll without a claim keep it.
LEMMA MoveSteps ==
    ASSUME Inductive, ApplyBegin \/ DecideRebase \/ PollNothing
    PROVE  Inductive'
<1> USE DEF Inductive
<1>1. cur \in Jobs /\ run.d \in Devices /\ ~IsDone(cur) /\ Visiting
  BY CurIsJob DEF ApplyBegin, DecideRebase, PollNothing, Visiting, WorkIsOpen
<1>2. CASE ApplyBegin \/ DecideRebase
  <2>1. /\ run' \in LocalsType /\ run'.o = run.o /\ run'.d = run.d
        /\ run'.todo = run.todo /\ run'.complete = run.complete
    <3>1. policy[run.d] \in SUBSET Images
      BY <1>1 DEF TypeOK
    <3>2. PICK b \in SUBSET Images, n \in Nat :
            run' = [run EXCEPT !.before = b, !.tries = n]
      BY <1>2, <3>1 DEF ApplyBegin, DecideRebase
    <3>3. run \in LocalsType
      BY DEF TypeOK
    <3> QED BY <3>2, <3>3 DEF LocalsType
  <2>2. TypeOK'
    BY <1>2, <2>1, RunnerTypes DEF ApplyBegin, DecideRebase, TypeOK, durable
  <2> QED BY <1>1, <1>2, <2>1, <2>2, MoveStep
          DEF ApplyBegin, DecideRebase, durable
<1>3. CASE PollNothing /\ run.why = "window_not_open"
  BY <1>1, <1>3, MoveStep, RunnerTypes DEF PollNothing, TypeOK, durable
<1>4. CASE PollNothing /\ run.why # "window_not_open"
  <2>1. run.why \in Reasons
    BY <1>1, <1>4 DEF PollNothing, WorkIsOpen, TypeOK, LocalsType
  <2>2. Skipped(run.why) \in Results /\ Skipped(run.why).status # "ok"
    BY <2>1, ResultTypes
  <2> QED BY <1>1, <1>4, <2>2, TerminalStep DEF PollNothing, FinishUnsubmitted
<1> QED BY <1>2, <1>3, <1>4

\* Inserting the claim keeps it: the job has not written, or its claim would
\* still be there.
LEMMA ClaimStep ==
    ASSUME Inductive, ApplyClaim
    PROVE  Inductive'
<1> USE DEF Inductive
<1>1. cur \in Jobs /\ ~IsDone(cur) /\ CaptureOf(cur) \in Capturing
  BY CurIsJob, CaptureType DEF ApplyClaim, Visiting, WorkIsOpen
<1> DEFINE row == [req |-> CaptureOf(cur), result |-> None]
<1>2. row \in ClaimRow /\ row # None /\ row.result = None
  BY <1>1, NoneAssumption DEF ClaimRow
<1>3. claims' = [claims EXCEPT ![cur] = row]
  BY DEF ApplyClaim
<1> HIDE DEF row
<1>4. /\ claims' \in [Jobs -> ClaimRow \cup {None}]
      /\ claims'[cur] = row
      /\ \A k \in Jobs : k # cur => claims'[k] = claims[k]
  BY <1>1, <1>2, <1>3 DEF TypeOK
<1>5. TypeOK'
  BY <1>4, RunnerTypes DEF ApplyClaim, TypeOK
<1>6. commits[cur] = 0
  BY <1>1 DEF ApplyClaim, WritesClaimed, UnreportedCommitHasClaim
<1>7. cur' = cur /\ \A k : (IsDone(k)' <=> IsDone(k)) /\ CaptureOf(k)' = CaptureOf(k)
  BY DEF ApplyClaim, IsDone, CaptureOf, cur
<1>8. CurrentJob' /\ SnapshotExact' /\ WorkIsOpen'
  BY <1>7 DEF ApplyClaim, CurrentJob, SnapshotExact, Visiting, WorkIsOpen
<1>9. WritesClaimed'
  BY <1>1, <1>2, <1>4, <1>6, <1>7 DEF ApplyClaim, WritesClaimed,
     UnreportedCommitHasClaim
<1>10. SuccessIsTrue' /\ EndedMeansEveryDeviceReported'
  BY <1>2, <1>4, <1>7 DEF ApplyClaim, SuccessIsTrue,
     EndedMeansEveryDeviceReported
<1> QED BY <1>5, <1>8, <1>9, <1>10

\* The outcome of the decision keeps it: only the first write of a claimed job
\* is ever made, and only a write is called a success.
LEMMA DecisionSteps ==
    ASSUME Inductive, DecideRefusal \/ DecideCommit
    PROVE  Inductive'
<1> USE DEF Inductive
<1>1. /\ cur \in Jobs /\ run.o \in Occs /\ run.d \in Devices /\ pc = "decide"
      /\ claims[cur] # None /\ commits[cur] = 0
  BY CurIsJob DEF DecideRefusal, DecideCommit, Visiting, WritesClaimed
<1>2. PICK r \in Results :
        /\ Outcome(r)
        /\ r.status = "ok" => DecideCommit
  <2>1. CASE DecideRefusal
    BY <2>1, RefusalTypes, ResultTypes DEF DecideRefusal
  <2>2. CASE DecideCommit
    BY <2>2 DEF DecideCommit, Result, Results, Terminal, Reasons
  <2> QED BY <2>1, <2>2
<1>3. /\ commits' \in [Jobs -> Nat]
      /\ commits'[cur] \in {0, 1} /\ (DecideCommit => commits'[cur] = 1)
      /\ \A k \in Jobs : k # cur => commits'[k] = commits[k]
  BY <1>1 DEF DecideRefusal, DecideCommit, durable, TypeOK
<1>4. policy' \in [Devices -> SUBSET Images]
  BY <1>1, PayloadAssumption
  DEF DecideRefusal, DecideCommit, durable, TypeOK, WantedIds, LocalsType
<1>5. /\ run' \in LocalsType /\ run'.o = run.o /\ run'.d = run.d
      /\ run'.todo = run.todo /\ run'.complete = run.complete
      /\ run'.result = r /\ pc' = "result"
  BY <1>2 DEF Outcome, LocalsType, TypeOK
<1>6. UNCHANGED <<occ, receipts, claims, manual, world, mw>>
  BY DEF DecideRefusal, DecideCommit, durable
<1>7. TypeOK'
  BY <1>3, <1>4, <1>5, <1>6 DEF TypeOK, world
<1>8. cur' = cur /\ \A k : (IsDone(k)' <=> IsDone(k)) /\ CaptureOf(k)' = CaptureOf(k)
  BY <1>5, <1>6 DEF IsDone, CaptureOf, cur
<1>9. r # None
  BY NoneAssumption
<1>10. CurrentJob' /\ SnapshotExact' /\ WorkIsOpen'
  BY <1>1, <1>5, <1>6, <1>8, <1>9
  DEF CurrentJob, SnapshotExact, Visiting, WorkIsOpen
<1>11. WritesClaimed'
  BY <1>1, <1>3, <1>5, <1>6, <1>8 DEF WritesClaimed, UnreportedCommitHasClaim
<1>12. SuccessIsTrue'
  BY <1>1, <1>2, <1>3, <1>5, <1>6, <1>8 DEF SuccessIsTrue
<1>13. EndedMeansEveryDeviceReported'
  BY <1>6, <1>8 DEF EndedMeansEveryDeviceReported
<1> QED BY <1>7, <1>10, <1>11, <1>12, <1>13

\* _save_result and _save keep it.
LEMMA SaveSteps ==
    ASSUME Inductive, SaveResult \/ SavePrepared \/ SaveTerminal
    PROVE  Inductive'
<1> USE DEF Inductive
<1>1. /\ cur \in Jobs /\ ~IsDone(cur) /\ Visiting /\ receipts[cur] # None
      /\ run.result # None
  BY CurIsJob DEF SaveResult, SavePrepared, SaveTerminal, Visiting, WorkIsOpen
<1>2. CASE SaveResult
  <2>1. run.result \in Results /\ claims[cur] # None
    BY <1>2 DEF SaveResult, WorkIsOpen, WritesClaimed
  <2>2. /\ claims' \in [Jobs -> ClaimRow \cup {None}]
        /\ claims'[cur] # None /\ claims'[cur].result = run.result
        /\ \A j \in Jobs : j # cur => claims'[j] = claims[j]
    BY <1>1, <1>2, <2>1, ResolvedClaim DEF SaveResult
  <2>3. TypeOK'
    BY <1>2, <2>2, RunnerTypes DEF SaveResult, TypeOK
  <2>4. cur' = cur /\ \A k : (IsDone(k)' <=> IsDone(k))
    BY <1>2 DEF SaveResult, IsDone, cur
  <2>5. CurrentJob' /\ SnapshotExact' /\ WorkIsOpen'
    BY <1>1, <1>2, <2>4 DEF SaveResult, CurrentJob, SnapshotExact, Visiting,
       WorkIsOpen
  <2>6. WritesClaimed' /\ EndedMeansEveryDeviceReported'
    BY <1>2, <2>2, <2>4 DEF SaveResult, WritesClaimed, UnreportedCommitHasClaim,
       EndedMeansEveryDeviceReported
  <2>7. SuccessIsTrue'
    BY <1>2, <2>1, <2>2, <2>4 DEF SaveResult, SuccessIsTrue
  <2> QED BY <2>3, <2>5, <2>6, <2>7
<1>3. CASE SavePrepared
  <2>1. run.result \in Prepared /\ run.result.capture \in Capturing
    BY <1>1, <1>3 DEF SavePrepared, TypeOK, LocalsType, Results, Terminal, Prepared
  <2>2. receipts[cur] \in ReceiptRow
    BY <1>1 DEF TypeOK
  <2>3. /\ receipts'[cur] \in ReceiptRow
        /\ receipts'[cur].status = receipts[cur].status
        /\ \A k \in Jobs : k # cur => receipts'[k] = receipts[k]
        /\ receipts' \in [Jobs -> ReceiptRow \cup {None}]
    BY <1>1, <1>3, <2>1, <2>2 DEF SavePrepared, ReceiptRow, TypeOK
  <2>4. receipts'[cur] # None
    BY <2>3, NoneAssumption
  <2>5. TypeOK'
    BY <1>3, <2>3, RunnerTypes DEF SavePrepared, TypeOK
  <2>6. cur' = cur /\ \A k \in Jobs : (IsDone(k)' <=> IsDone(k))
    BY <1>1, <1>3, <2>3, <2>4 DEF SavePrepared, IsDone, cur
  <2>7. CurrentJob' /\ WorkIsOpen'
    BY <1>1, <1>3 DEF SavePrepared, CurrentJob, Visiting, WorkIsOpen
  <2>8. SnapshotExact' /\ EndedMeansEveryDeviceReported'
    BY <1>1, <1>3, <2>5, <2>6 DEF SavePrepared, SnapshotExact, Visiting, Jobs,
       CurrentJob, EndedMeansEveryDeviceReported, TypeOK, LocalsType
  <2>9. WritesClaimed'
    BY <1>3, <2>6 DEF SavePrepared, WritesClaimed, UnreportedCommitHasClaim
  <2>10. SuccessIsTrue'
    BY <1>1, <1>3, <2>3 DEF SavePrepared, SuccessIsTrue
  <2> QED BY <2>5, <2>7, <2>8, <2>9, <2>10
<1>4. CASE SaveTerminal
  <2>1. run.result \in Results
    BY <1>1, <1>4 DEF SaveTerminal, TypeOK, LocalsType, Prepared, Terminal
  <2>2. run.result.status = "ok" => commits[cur] = 1
    BY <1>1, <1>4 DEF SaveTerminal, SuccessIsTrue
  <2> QED BY <1>1, <1>4, <2>1, <2>2, TerminalStep DEF SaveTerminal
<1> QED BY <1>2, <1>3, <1>4

\* Releasing the claim of a finished job and ending an occurrence keep it.
LEMMA ClosingSteps ==
    ASSUME Inductive, Acknowledge \/ Finish
    PROVE  Inductive'
<1> USE DEF Inductive
<1>1. CASE Acknowledge
  <2>1. cur \in Jobs /\ IsDone(cur)
    BY <1>1, CurIsJob DEF Acknowledge, Visiting, WorkIsOpen
  <2>2. /\ claims' \in [Jobs -> ClaimRow \cup {None}]
        /\ claims'[cur] = None
        /\ \A k \in Jobs : k # cur => claims'[k] = claims[k]
    BY <1>1, <2>1 DEF Acknowledge, TypeOK
  <2>3. /\ run' \in LocalsType /\ run'.o = run.o /\ run'.d = run.d
        /\ run'.todo = run.todo /\ run'.complete = run.complete
    BY <1>1 DEF Acknowledge, LocalsType, TypeOK
  <2>4. TypeOK'
    BY <1>1, <2>2, <2>3, RunnerTypes DEF Acknowledge, TypeOK
  <2>5. \A k : IsDone(k)' <=> IsDone(k)
    BY <1>1 DEF Acknowledge, IsDone
  <2>6. CurrentJob' /\ SnapshotExact' /\ WorkIsOpen'
    BY <1>1, <2>3, <2>5 DEF Acknowledge, CurrentJob, SnapshotExact, Visiting,
       WorkIsOpen
  <2>7. WritesClaimed' /\ SuccessIsTrue' /\ EndedMeansEveryDeviceReported'
    BY <1>1, <2>1, <2>2, <2>5 DEF Acknowledge, WritesClaimed, SuccessIsTrue,
       UnreportedCommitHasClaim, EndedMeansEveryDeviceReported
  <2> QED BY <2>4, <2>6, <2>7
<1>2. CASE Finish
  <2>1. run.o \in Occs
    BY <1>2 DEF Finish, CurrentJob
  <2>2. /\ occ' \in [Occs -> Active \cup {"completed", "cancelled", "failed"}]
        /\ \A o \in Occs : occ'[o] # occ[o] => o = run.o /\ Settled(o)
    BY <1>2, <2>1 DEF Finish, FinalState, TypeOK
  <2>3. TypeOK'
    BY <1>2, <2>2, RunnerTypes DEF Finish, TypeOK
  <2>4. \A k : IsDone(k)' <=> IsDone(k)
    BY <1>2 DEF Finish, IsDone
  <2>5. CurrentJob' /\ SnapshotExact' /\ WorkIsOpen'
    BY <1>2 DEF Finish, CurrentJob, SnapshotExact, Visiting, WorkIsOpen
  <2>6. WritesClaimed' /\ SuccessIsTrue'
    BY <1>2, <2>4 DEF Finish, WritesClaimed, SuccessIsTrue,
       UnreportedCommitHasClaim
  <2>7. EndedMeansEveryDeviceReported'
    BY <2>2, <2>4 DEF EndedMeansEveryDeviceReported, Settled
  <2> QED BY <2>3, <2>5, <2>6, <2>7
<1> QED BY <1>1, <1>2

----------------------------------------------------------------------------
(* The outside events.                                                     *)

\* Counting an outside event is well typed.
LEMMA SpendType ==
    ASSUME TypeOK, NEW e \in Events, Spend(e)
    PROVE  budget' \in [Events -> Nat]
BY DEF TypeOK, Spend

\* A failing call keeps it: the claim keeps whatever it knew.
LEMMA FaultSteps ==
    ASSUME Inductive, ApplyFault \/ AcknowledgeFault
    PROVE  Inductive'
<1> USE DEF Inductive
<1>1. budget' \in [Events -> Nat]
  BY SpendType DEF ApplyFault, AcknowledgeFault, Events
<1>2. cur \in Jobs /\ Visiting
  BY CurIsJob DEF ApplyFault, AcknowledgeFault, Applying, Visiting
<1>3. CASE ApplyFault
  <2> DEFINE r == Error("execution_failed")
  <2>1. r \in Results /\ r.status # "ok" /\ Return(r)
    BY <1>3, ResultTypes DEF ApplyFault, Reasons
  <2> HIDE DEF r
  <2>2. TypeOK'
    BY <1>1, <1>3, <2>1, ReturnType DEF ApplyFault, TypeOK, durable
  <2> QED BY <1>2, <1>3, <2>1, <2>2, ReturnStep
          DEF ApplyFault, Applying, durable, SuccessIsTrue
<1>4. CASE AcknowledgeFault
  <2>1. /\ run' \in LocalsType /\ run'.o = run.o /\ run'.d = run.d
        /\ run'.todo = run.todo /\ run'.complete = run.complete
    BY <1>2, <1>4 DEF AcknowledgeFault, LocalsType, TypeOK
  <2>2. TypeOK'
    BY <1>1, <1>4, <2>1 DEF AcknowledgeFault, TypeOK, durable
  <2> QED BY <1>2, <1>4, <2>1, <2>2, MoveStep DEF AcknowledgeFault, durable
<1> QED BY <1>3, <1>4

\* A manual writer keeps it: it never touches a receipt or a claim.
LEMMA WriterSteps ==
    ASSUME Inductive,
           \/ \E d \in Devices, ids \in SUBSET Images : ManualBegin(d, ids)
           \/ WriterStep
    PROVE  Inductive'
<1> USE DEF Inductive
<1>1. ASSUME NEW d \in Devices, NEW ids \in SUBSET Images, ManualBegin(d, ids)
      PROVE  Inductive'
  <2>1. budget' \in [Events -> Nat]
    BY <1>1, SpendType DEF ManualBegin, Events
  <2>2. mw' \in WriterType /\ mw'.d \in Devices
    BY <1>1 DEF ManualBegin, WriterType, TypeOK
  <2>3. manual' \in [Devices -> [gen : Nat, pending : BOOLEAN]]
    BY <1>1 DEF ManualBegin, TypeOK
  <2>4. TypeOK'
    BY <1>1, <2>1, <2>2, <2>3 DEF ManualBegin, TypeOK
  <2> QED BY <1>1, <2>2, <2>4, BystanderStep DEF ManualBegin
<1>2. CASE ManualCommit
  <2>1. mw.d \in Devices /\ mw.ids \in SUBSET Images
    BY <1>2 DEF ManualCommit, CurrentJob, TypeOK, WriterType
  <2>2. mw' \in WriterType /\ mw'.d \in Devices
    <3>1. mw \in WriterType /\ mw' = [mw EXCEPT !.pc = "written"]
      BY <1>2 DEF ManualCommit, TypeOK
    <3> QED BY <2>1, <3>1 DEF WriterType
  <2>3. /\ policy' \in [Devices -> SUBSET Images]
        /\ overridden' \subseteq Jobs
    BY <1>2, <2>1 DEF ManualCommit, TypeOK, OpenJobs
  <2>4. TypeOK'
    BY <1>2, <2>2, <2>3 DEF ManualCommit, TypeOK
  <2> QED BY <1>2, <2>2, <2>4, BystanderStep DEF ManualCommit
<1>3. CASE ManualRefuse \/ ManualDone
  <2>1. mw.d \in Devices /\ mw.prior \in BOOLEAN
    BY <1>3 DEF ManualRefuse, ManualDone, CurrentJob, TypeOK, WriterType
  <2>2. manual' \in [Devices -> [gen : Nat, pending : BOOLEAN]]
    <3> DEFINE Rows == [gen : Nat, pending : BOOLEAN]
    <3>1. manual \in [Devices -> Rows] /\ manual[mw.d] \in Rows
      BY <2>1 DEF TypeOK
    <3>2. PICK row \in Rows : manual' = [manual EXCEPT ![mw.d] = row]
      <4>1. CASE ManualRefuse
        <5>1. [manual[mw.d] EXCEPT !.pending = mw.prior] \in Rows
          BY <2>1, <3>1
        <5> QED BY <4>1, <5>1 DEF ManualRefuse
      <4>2. CASE ManualDone
        <5>1. [gen |-> manual[mw.d].gen + 1, pending |-> FALSE] \in Rows
          BY <3>1
        <5> QED BY <4>2, <5>1 DEF ManualDone
      <4> QED BY <1>3, <4>1, <4>2
    <3> HIDE DEF Rows
    <3>3. manual' \in [Devices -> Rows]
      BY <2>1, <3>1, <3>2
    <3> QED BY <3>3 DEF Rows
  <2>3. mw' \in WriterType /\ mw'.pc = "idle"
    <3>1. mw' = IdleWriter
      BY <1>3 DEF ManualRefuse, ManualDone
    <3>2. IdleWriter.pc = "idle"
      BY DEF IdleWriter
    <3> QED BY <3>1, <3>2, FreshTypes
  <2>4. TypeOK'
    BY <1>3, <2>2, <2>3 DEF ManualRefuse, ManualDone, TypeOK, world
  <2> QED BY <1>3, <2>3, <2>4, BystanderStep DEF ManualRefuse, ManualDone
<1> QED BY <1>1, <1>2, <1>3 DEF WriterStep

\* Edits, fleet changes, revocations, quarantine and the clock keep it.
LEMMA WorldSteps ==
    ASSUME Inductive,
           \/ \E o \in Occs : EditSchedule(o) \/ DeleteSchedule(o)
           \/ \E d \in Devices :
                 RetireDevice(d) \/ RegisterDevice(d) \/ RevokeDevice(d)
                 \/ SweepRead(d)
           \/ \E i \in Images :
                 QuarantineImage(i) \/ ReleaseImage(i) \/ SweepBegin(i)
           \/ SweepWrite \/ Tick \/ ClockBack \/ Stop
    PROVE  Inductive'
<1> USE DEF Inductive
<1>1. SUFFICES ASSUME TypeOK', UNCHANGED <<occ, receipts, claims, commits, pc, run, mw>>
               PROVE  Inductive'
  <2>1. ASSUME NEW o \in Occs, EditSchedule(o) \/ DeleteSchedule(o)
        PROVE  TypeOK' /\ UNCHANGED <<occ, receipts, claims, commits, pc, run, mw>>
    <3>1. budget' \in [Events -> Nat]
      BY <2>1, SpendType DEF EditSchedule, DeleteSchedule, Events
    <3>2. sched' \in [Occs -> {"live", "edited", "gone"}]
      BY <2>1 DEF EditSchedule, DeleteSchedule, TypeOK
    <3> QED BY <2>1, <3>1, <3>2 DEF EditSchedule, DeleteSchedule, TypeOK, durable
  <2>2. ASSUME NEW d \in Devices,
               RetireDevice(d) \/ RegisterDevice(d) \/ RevokeDevice(d)
        PROVE  TypeOK' /\ UNCHANGED <<occ, receipts, claims, commits, pc, run, mw>>
    <3>1. budget' \in [Events -> Nat] /\ budget["fleet"] \in Nat
      BY <2>2, SpendType
      DEF RetireDevice, RegisterDevice, RevokeDevice, Events, TypeOK
    <3>2. reg' \in [Devices -> Nat] /\ revoked' \subseteq Devices
      BY <2>2, <3>1 DEF RetireDevice, RegisterDevice, RevokeDevice, TypeOK
    <3>3. policy' \in [Devices -> SUBSET Images]
      BY <2>2 DEF RetireDevice, RegisterDevice, RevokeDevice, TypeOK, durable
    <3> QED BY <2>2, <3>1, <3>2, <3>3
            DEF RetireDevice, RegisterDevice, RevokeDevice, TypeOK, durable
  <2>3. ASSUME NEW d \in Devices, SweepRead(d)
        PROVE  TypeOK' /\ UNCHANGED <<occ, receipts, claims, commits, pc, run, mw>>
    <3>1. sweep' \in SweepType
      BY <2>3 DEF SweepRead, SweepType, TypeOK
    <3> QED BY <2>3, <3>1 DEF SweepRead, TypeOK, durable
  <2>4. ASSUME NEW i \in Images, QuarantineImage(i) \/ ReleaseImage(i)
        PROVE  TypeOK' /\ UNCHANGED <<occ, receipts, claims, commits, pc, run, mw>>
    <3>1. budget' \in [Events -> Nat]
      BY <2>4, SpendType DEF QuarantineImage, ReleaseImage, Events
    <3> QED BY <2>4, <3>1 DEF QuarantineImage, ReleaseImage, TypeOK, durable
  <2>7. ASSUME NEW i \in Images, SweepBegin(i)
        PROVE  TypeOK' /\ UNCHANGED <<occ, receipts, claims, commits, pc, run, mw>>
    <3>1. sweep' \in SweepType
      BY <2>7 DEF SweepBegin, SweepType, TypeOK
    <3> QED BY <2>7, <3>1 DEF SweepBegin, TypeOK, durable
  <2>8. CASE SweepWrite
    <3>1. sweep \in SweepType /\ sweep.d \in Devices
      BY <2>8 DEF SweepWrite, SweepType, TypeOK
    <3>2. sweep' \in SweepType
      BY <2>8, <3>1 DEF SweepWrite, SweepType
    <3>3. policy' \in [Devices -> SUBSET Images]
      BY <2>8, <3>1 DEF SweepWrite, SweepType, TypeOK
    <3> QED BY <2>8, <3>2, <3>3 DEF SweepWrite, TypeOK
  <2>5. CASE Tick
    BY <2>5 DEF Tick, TypeOK, durable
  <2>6. CASE ClockBack \/ Stop
    <3>1. budget' \in [Events -> Nat]
      BY <2>6, SpendType DEF ClockBack, Stop, Events
    <3>2. now' \in Nat
      BY <2>6 DEF ClockBack, Stop, TypeOK
    <3>3. stop' \in BOOLEAN
      BY <2>6 DEF ClockBack, Stop, TypeOK
    <3> QED BY <2>6, <3>1, <3>2, <3>3 DEF ClockBack, Stop, TypeOK, durable
  <2> QED BY <2>1, <2>2, <2>3, <2>4, <2>5, <2>6, <2>7, <2>8
<1> QED BY <1>1, BystanderStep DEF CurrentJob

\* A crash or a restart forgets the runner and the writer and keeps the
\* evidence.
LEMMA ProcessSteps ==
    ASSUME Inductive, Restart \/ Crash
    PROVE  Inductive'
<1> USE DEF Inductive
<1>1. budget' \in [Events -> Nat] /\ FreshProcess
  BY SpendType DEF Restart, Crash, Events, TypeOK
<1>2. TypeOK'
  BY <1>1, FreshTypes DEF FreshProcess, TypeOK, durable
<1>3. CurrentJob' /\ SnapshotExact' /\ WorkIsOpen'
  BY <1>1 DEF FreshProcess, CurrentJob, SnapshotExact, Visiting, WorkIsOpen,
     IdleWriter
<1>4. \A k : IsDone(k)' <=> IsDone(k)
  BY <1>1 DEF FreshProcess, IsDone, durable
<1>5. WritesClaimed' /\ SuccessIsTrue' /\ EndedMeansEveryDeviceReported'
  BY <1>1, <1>4 DEF FreshProcess, WritesClaimed, SuccessIsTrue, durable,
     UnreportedCommitHasClaim, EndedMeansEveryDeviceReported
<1> QED BY <1>2, <1>3, <1>5

----------------------------------------------------------------------------
(* The theorems.                                                           *)

\* The invariant holds initially.
LEMMA InitInductive == Init => Inductive
<1> SUFFICES ASSUME Init PROVE Inductive
  OBVIOUS
<1>1. \A k \in Jobs : receipts[k] = None /\ claims[k] = None /\ commits[k] = 0
  BY DEF Init
<1>2. \A k \in Jobs : ~IsDone(k)
  BY <1>1 DEF IsDone
<1>3. /\ run \in LocalsType /\ mw \in WriterType /\ sweep \in SweepType
      /\ mw.pc = "idle"
  <2>1. run = Locals /\ mw = IdleWriter /\ sweep = IdleSweep
    BY DEF Init
  <2>2. IdleWriter.pc = "idle"
    BY DEF IdleWriter
  <2> QED BY <2>1, <2>2, FreshTypes
<1>4. TypeOK
  BY <1>3 DEF Init, TypeOK, Active
<1>5. CurrentJob /\ SnapshotExact /\ WorkIsOpen
  BY <1>3 DEF Init, CurrentJob, SnapshotExact, Visiting, WorkIsOpen
<1>6. WritesClaimed /\ SuccessIsTrue
  BY <1>1 DEF Init, WritesClaimed, UnreportedCommitHasClaim, SuccessIsTrue
<1>7. EndedMeansEveryDeviceReported
  BY DEF Init, EndedMeansEveryDeviceReported, Active
<1> QED BY <1>4, <1>5, <1>6, <1>7 DEF Inductive

\* Every step of the runner and of the world keeps it.
LEMMA NextInductive == Inductive /\ [Next]_vars => Inductive'
<1> SUFFICES ASSUME Inductive, [Next]_vars PROVE Inductive'
  OBVIOUS
<1>1. CASE UNCHANGED vars
  <2>1. /\ UNCHANGED <<occ, receipts, claims, commits, pc, run>>
        /\ UNCHANGED mw /\ TypeOK'
    BY <1>1 DEF vars, durable, world, Inductive, TypeOK
  <2> QED BY <2>1, BystanderStep DEF Inductive, CurrentJob
<1>2. CASE RunnerStep
  BY <1>2, LoopSteps, AdmissionSteps, AnswerSteps, ReplaySteps, MoveSteps,
     ClaimStep, DecisionSteps, SaveSteps, ClosingSteps DEF RunnerStep
<1>3. CASE OutsideStep
  BY <1>3, FaultSteps, WriterSteps, WorldSteps, ProcessSteps DEF OutsideStep
<1> QED BY <1>1, <1>2, <1>3 DEF Next

\* The inductive invariant holds of every behaviour of the runner, its stores
\* and the authorities around it.
THEOREM InductiveInvariant == Spec => []Inductive
BY InitInductive, NextInductive, PTL DEF Spec

\* Receipts, claims, authority rows and locals always have their type.
THEOREM TypeCorrect == Spec => []TypeOK
<1>1. Inductive => TypeOK
  BY DEF Inductive
<1> QED BY <1>1, InductiveInvariant, PTL

\* However often the process dies between the claim, the policy write, the
\* saved result, the receipt and the acknowledgement, a job writes the catalog
\* at most once.
THEOREM AtMostOnce == Spec => []AtMostOneCommit
<1>1. Inductive => AtMostOneCommit
  BY DEF Inductive, WritesClaimed, AtMostOneCommit
<1> QED BY <1>1, InductiveInvariant, PTL

\* A write whose receipt is not final yet always has its claim.
THEOREM CommitEvidence == Spec => []UnreportedCommitHasClaim
<1>1. Inductive => UnreportedCommitHasClaim
  BY DEF Inductive, WritesClaimed
<1> QED BY <1>1, InductiveInvariant, PTL

\* No occurrence is completed, cancelled or failed while a device is open.
THEOREM EndIsComplete == Spec => []EndedMeansEveryDeviceReported
<1>1. Inductive => EndedMeansEveryDeviceReported
  BY DEF Inductive
<1> QED BY <1>1, InductiveInvariant, PTL

=============================================================================
