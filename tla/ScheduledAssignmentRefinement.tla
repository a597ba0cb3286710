-------------------- MODULE ScheduledAssignmentRefinement --------------------
(***************************************************************************)
(* ScheduledAssignment implements AssignmentLedger, for every value of the *)
(* constants: the first policy write of a job is the ledger's Write, its   *)
(* terminal receipt the ledger's Report, the final state of an occurrence  *)
(* the ledger's End, and every other step leaves the ledger as it is.      *)
(***************************************************************************)
EXTENDS ScheduledAssignmentProofs

----------------------------------------------------------------------------
(* Steps that leave the ledger alone.                                      *)

\* The same outcomes, the same writes and the same ended occurrences.
LEMMA QuietStep ==
    ASSUME commits' = commits,
           \A k \in Jobs : IsDone(k)' <=> IsDone(k),
           \A k \in Jobs : IsDone(k) => receipts'[k].status = receipts[k].status,
           \A o \in Occs : occ'[o] \in Active <=> occ[o] \in Active
    PROVE  UNCHANGED Ledger!ledger
<1>1. \A k \in Jobs : OutcomeOf(k)' = OutcomeOf(k)
  BY DEF OutcomeOf
<1>2. [k \in Jobs |-> OutcomeOf(k)]' = [k \in Jobs |-> OutcomeOf(k)]
  BY <1>1
<1>3. {o \in Occs : occ[o] \notin Active}' = {o \in Occs : occ[o] \notin Active}
  OBVIOUS
<1> QED BY <1>2, <1>3 DEF Ledger!ledger

\* Neither a receipt nor an occurrence nor a write changes.
LEMMA StillStep ==
    ASSUME UNCHANGED <<occ, receipts, commits>>
    PROVE  UNCHANGED Ledger!ledger
BY QuietStep DEF IsDone

\* The outside world does not write the ledger, and neither does a crash.
LEMMA OutsideQuiet ==
    ASSUME OutsideStep
    PROVE  UNCHANGED Ledger!ledger
<1>1. UNCHANGED <<occ, receipts, commits>>
  BY DEF OutsideStep, ApplyFault, AcknowledgeFault, ManualBegin, WriterStep,
     ManualCommit, ManualRefuse, ManualDone, EditSchedule, DeleteSchedule,
     RetireDevice, RegisterDevice, RevokeDevice, QuarantineImage,
     ReleaseImage, SweepBegin, SweepRead, SweepWrite, Tick, ClockBack, Stop, Restart, Crash,
     FreshProcess, durable
<1> QED BY <1>1, StillStep

\* Neither do the steps of a visit before its outcome is recorded.
LEMMA VisitQuiet ==
    ASSUME Inductive,
           \/ Recover
           \/ \E o \in Occs : Serve(o)
           \/ \E d \in Devices : Visit(d)
           \/ VisitNotOpen \/ VisitOpen \/ RecheckOpen \/ SavePrepared
    PROVE  UNCHANGED Ledger!ledger
<1>1. CASE Recover
  <2>1. \A o \in Occs : occ'[o] \in Active <=> occ[o] \in Active
    BY <1>1 DEF Recover, Active
  <2>2. receipts' = receipts /\ commits' = commits
    BY <1>1 DEF Recover
  <2> QED BY <2>1, <2>2, QuietStep DEF IsDone
<1>2. ASSUME NEW o \in Occs, Serve(o) PROVE UNCHANGED Ledger!ledger
  <2>1. \A p \in Occs : occ'[p] \in Active <=> occ[p] \in Active
    BY <1>2 DEF Serve, InOrder, ActiveOccs, Active, Inductive, TypeOK
  <2>2. receipts' = receipts /\ commits' = commits
    BY <1>2 DEF Serve
  <2> QED BY <2>1, <2>2, QuietStep DEF IsDone
<1>3. CASE (\E d \in Devices : Visit(d)) \/ VisitNotOpen \/ RecheckOpen
  BY <1>3, StillStep DEF Visit, VisitNotOpen, RecheckOpen, durable
<1>4. CASE VisitOpen
  <2>1. cur \in Jobs /\ ~IsDone(cur)
    BY <1>4, CurIsJob DEF VisitOpen, Visiting, Inductive, WorkIsOpen
  <2>2. CASE receipts[cur] = None
    <3> DEFINE r == Result("intent", "pending")
    <3>1. r.status = "intent" /\ r.reason \in Reasons
      BY DEF Result, Reasons
    <3>2. receipts' = Recorded(cur, r)
      BY <1>4, <2>2 DEF VisitOpen
    <3>3. Receipt(r, CaptureOf(cur)).status = "intent"
      BY <3>1 DEF Receipt
    <3> HIDE DEF r
    <3>4. /\ receipts'[cur].status = "intent"
          /\ \A k \in Jobs : k # cur => receipts'[k] = receipts[k]
      BY <2>1, <3>1, <3>2, <3>3, RecordedReceipt DEF Inductive
    <3>5. \A k \in Jobs : IsDone(k)' <=> IsDone(k)
      BY <2>1, <3>4 DEF IsDone, Terminal
    <3> QED BY <1>4, <2>1, <3>4, <3>5, QuietStep DEF VisitOpen
  <2>3. CASE receipts[cur] # None
    BY <1>4, <2>3, StillStep DEF VisitOpen
  <2> QED BY <2>2, <2>3
<1>5. CASE SavePrepared
  <2>1. cur \in Jobs /\ ~IsDone(cur) /\ receipts[cur] \in ReceiptRow
    BY <1>5, CurIsJob DEF SavePrepared, Visiting, Inductive, WorkIsOpen, TypeOK
  <2>2. /\ receipts'[cur].status = receipts[cur].status
        /\ \A k \in Jobs : k # cur => receipts'[k] = receipts[k]
    BY <1>5, <2>1 DEF SavePrepared, ReceiptRow, Inductive, TypeOK
  <2>3. \A k \in Jobs : IsDone(k)' <=> IsDone(k)
    BY <2>1, <2>2, NoneAssumption DEF IsDone
  <2> QED BY <1>5, <2>1, <2>2, <2>3, QuietStep DEF SavePrepared
<1> QED BY <1>1, <1>2, <1>3, <1>4, <1>5

\* And the executor leaves the ledger alone but for the policy write.
LEMMA ExecutorQuiet ==
    ASSUME \/ Capture \/ ApplyRefused \/ ApplyBegin \/ ApplyReplay \/ ApplyClaim
           \/ DecideRefusal \/ DecideRebase \/ SaveResult
           \/ PollUnprepared \/ PollClaim \/ Acknowledge
    PROVE  UNCHANGED Ledger!ledger
<1>1. UNCHANGED <<occ, receipts, commits>>
  BY DEF Capture, ApplyRefused, ApplyBegin, ApplyReplay, ApplyClaim,
     DecideRefusal, DecideRebase, SaveResult, PollUnprepared, PollClaim,
     Acknowledge, durable
<1> QED BY <1>1, StillStep

----------------------------------------------------------------------------
(* Steps that are steps of the ledger.                                     *)

\* The catalog commit is the ledger's one Write of the job.
LEMMA CommitIsWrite ==
    ASSUME Inductive, DecideCommit
    PROVE  Ledger!Next
<1>1. cur \in Jobs /\ ~IsDone(cur) /\ commits[cur] = 0
  BY CurIsJob
  DEF DecideCommit, Visiting, Inductive, WorkIsOpen, WritesClaimed
<1>2. OutcomeOf(cur) = "none"
  BY <1>1 DEF OutcomeOf
<1>3. commits' = [commits EXCEPT ![cur] = 1]
  BY <1>1 DEF DecideCommit
<1>4. UNCHANGED <<[k \in Jobs |-> OutcomeOf(k)], {o \in Occs : occ[o] \notin Active}>>
  BY DEF DecideCommit, OutcomeOf, IsDone
<1>5. Ledger!Write(cur)
  BY <1>1, <1>2, <1>3, <1>4 DEF Ledger!Write
<1> QED BY <1>1, <1>5 DEF Ledger!Next, Ledger!Jobs, Jobs

\* A terminal receipt is the ledger's Report.
LEMMA ReceiptIsReport ==
    ASSUME Inductive, cur \in Jobs, ~IsDone(cur),
           NEW r \in Results, r.status = "ok" => commits[cur] = 1,
           receipts' = Recorded(cur, r), UNCHANGED <<occ, commits>>
    PROVE  Ledger!Next
<1>0. r.status \in Terminal /\ r.reason \in Reasons
  BY DEF Results
<1>1. /\ receipts'[cur].status = r.status /\ receipts'[cur] # None
      /\ r.status \in Terminal
      /\ \A k \in Jobs : k # cur => receipts'[k] = receipts[k]
  <2>1. Receipt(r, CaptureOf(cur)).status = r.status
    BY DEF Receipt
  <2> QED BY <1>0, <2>1, RecordedReceipt DEF Inductive
<1>2. receipts'[cur].status \in Terminal
  BY <1>1
<1>3. /\ OutcomeOf(cur) = "none"
      /\ (IF receipts'[cur] = None THEN FALSE
          ELSE receipts'[cur].status \in Terminal)
      /\ \A k \in Jobs : k # cur => OutcomeOf(k)' = OutcomeOf(k)
  BY <1>1 DEF OutcomeOf, IsDone
<1>4. [k \in Jobs |-> OutcomeOf(k)]'
        = [[k \in Jobs |-> OutcomeOf(k)] EXCEPT ![cur] = r.status]
  <2> DEFINE out(k) == IF (IF receipts'[k] = None THEN FALSE
                           ELSE receipts'[k].status \in Terminal)
                       THEN receipts'[k].status ELSE "none"
  <2>1. [k \in Jobs |-> OutcomeOf(k)]' = [k \in Jobs |-> out(k)]
    BY DEF OutcomeOf, IsDone
  <2>2. out(cur) = r.status
    BY <1>1, <1>3
  <2>3. \A k \in Jobs : k # cur => out(k) = OutcomeOf(k)
    BY <1>1 DEF OutcomeOf, IsDone
  <2> HIDE DEF out
  <2> QED BY <2>1, <2>2, <2>3
<1>5. Ledger!Report(cur, r.status)
  BY <1>3, <1>4 DEF Ledger!Report
<1> QED BY <1>1, <1>5 DEF Ledger!Next, Ledger!Jobs, Jobs, Terminal

\* The end of the loop is the ledger's End, or nothing.
LEMMA FinishIsEnd ==
    ASSUME Inductive, Finish
    PROVE  Ledger!Next \/ UNCHANGED Ledger!ledger
<1>1. run.o \in Occs
  BY DEF Finish, Inductive, CurrentJob
<1>2. CASE ~Settled(run.o)
  BY <1>2, StillStep DEF Finish
<1>3. CASE Settled(run.o)
  <2>1. occ' = [occ EXCEPT ![run.o] = FinalState(run.o)]
    BY <1>3 DEF Finish
  <2>2. FinalState(run.o) \notin Active
    BY DEF FinalState, Active
  <2>3. {o \in Occs : occ[o] \notin Active}'
          = {o \in Occs : occ[o] \notin Active} \cup {run.o}
    BY <1>1, <2>1, <2>2 DEF Inductive, TypeOK
  <2>4. \A d \in Devices : OutcomeOf(<<run.o, d>>) # "none"
    BY <1>3 DEF Settled, OutcomeOf, IsDone, Terminal
  <2>5. \A d \in Devices : [k \in Jobs |-> OutcomeOf(k)][<<run.o, d>>] # "none"
    BY <1>1, <2>4 DEF Jobs
  <2>6. UNCHANGED <<commits, [k \in Jobs |-> OutcomeOf(k)]>>
    BY DEF Finish, OutcomeOf, IsDone
  <2>7. \E o \in Occs : Ledger!End(o)
    BY <1>1, <2>3, <2>5, <2>6 DEF Ledger!End
  <2> QED BY <2>7 DEF Ledger!Next
<1> QED BY <1>2, <1>3

\* The remaining steps record an outcome or defer the visit.
LEMMA OutcomeSteps ==
    ASSUME Inductive, VisitClosed \/ RecheckClosed \/ PollNothing \/ SaveTerminal
    PROVE  Ledger!Next \/ UNCHANGED Ledger!ledger
<1>1. cur \in Jobs /\ run.o \in Occs /\ ~IsDone(cur)
  BY CurIsJob DEF VisitClosed, RecheckClosed, PollNothing, SaveTerminal, Visiting,
     Inductive, WorkIsOpen
<1>2. ASSUME NEW why \in Reasons, FinishUnsubmitted(why) PROVE Ledger!Next
  <2>1. Skipped(why) \in Results /\ Skipped(why).status # "ok"
    BY ResultTypes
  <2> QED BY <1>1, <1>2, <2>1, ReceiptIsReport DEF FinishUnsubmitted
<1>3. ASSUME NEW why, GoPoll(why) PROVE UNCHANGED Ledger!ledger
  BY <1>3, StillStep DEF GoPoll, durable
<1>4. CASE VisitClosed
  BY <1>2, <1>3, <1>4, ClosedReasonType DEF VisitClosed
<1>5. CASE RecheckClosed
  BY <1>2, <1>3, <1>5, ClosedReasonType DEF RecheckClosed
<1>6. CASE PollNothing
  <2>1. run.why \in Reasons
    BY <1>6 DEF PollNothing, Inductive, WorkIsOpen, TypeOK, LocalsType
  <2>2. CASE run.why = "window_not_open"
    BY <1>6, <2>2, StillStep DEF PollNothing, durable
  <2>3. CASE run.why # "window_not_open"
    BY <1>2, <1>6, <2>1, <2>3 DEF PollNothing
  <2> QED BY <2>2, <2>3
<1>7. CASE SaveTerminal
  <2>1. run.result \in Results /\ (run.result.status = "ok" => commits[cur] = 1)
    BY <1>7 DEF SaveTerminal, Inductive, TypeOK, LocalsType, Prepared, Terminal,
       WorkIsOpen, SuccessIsTrue
  <2> QED BY <1>1, <1>7, <2>1, ReceiptIsReport DEF SaveTerminal
<1> QED BY <1>4, <1>5, <1>6, <1>7

----------------------------------------------------------------------------
(* The theorem.                                                            *)

\* The initial state is the empty ledger.
LEMMA InitRefines == Init => Ledger!Init
<1> SUFFICES ASSUME Init PROVE Ledger!Init
  OBVIOUS
<1>1. commits = [k \in Ledger!Jobs |-> 0]
  BY DEF Init, Ledger!Jobs, Jobs
<1>2. \A k \in Jobs : OutcomeOf(k) = "none"
  BY DEF Init, OutcomeOf, IsDone
<1>3. {o \in Occs : occ[o] \notin Active} = {}
  BY DEF Init, Active
<1> QED BY <1>1, <1>2, <1>3 DEF Ledger!Init, Ledger!Jobs, Jobs

\* Every step is a step of the ledger or leaves it unchanged.
LEMMA NextRefines ==
    Inductive /\ [Next]_vars => [Ledger!Next]_(Ledger!ledger)
<1> SUFFICES ASSUME Inductive, [Next]_vars
             PROVE  Ledger!Next \/ UNCHANGED Ledger!ledger
  OBVIOUS
<1>1. CASE UNCHANGED vars
  BY <1>1, StillStep DEF vars, durable
<1>2. CASE OutsideStep
  BY <1>2, OutsideQuiet
<1>3. CASE RunnerStep
  BY <1>3, VisitQuiet, ExecutorQuiet, CommitIsWrite, FinishIsEnd, OutcomeSteps
  DEF RunnerStep
<1> QED BY <1>1, <1>2, <1>3 DEF Next

\* The runner with its receipts and claims implements the ledger scheduling.md
\* promises: one write per job, one final outcome, no end before all outcomes.
THEOREM Refinement == Spec => ImplementsLedger
<1>1. Spec => []Inductive
  BY InductiveInvariant
<1> QED BY <1>1, InitRefines, NextRefines, PTL
        DEF Spec, ImplementsLedger, Ledger!Spec

=============================================================================
