------------------------ MODULE ImageLifecycleProofs ------------------------
(***************************************************************************)
(* What ImageLifecycle keeps for any number of images, contents, devices,  *)
(* jobs, feeds and outside events: its types, that a completed quarantine  *)
(* is an unassigned image, that it is not seeded while nobody releases or  *)
(* publishes it again, and that a verified publish job was listed.         *)
(***************************************************************************)
EXTENDS ImageLifecycle, TLAPS

----------------------------------------------------------------------------
(* The inductive invariant.                                                *)

\* Program counters whose locals name something.
Located ==
    /\ refresh.pc = "list" => refresh.feed \in Feeds
    /\ refresh.pc \in {"affected", "sweep", "write"} => refresh.image \in Ids
    /\ refresh.pc = "write" => refresh.device \in Devices
    /\ \A s \in Slots :
         jobs[s].pc \in {"torrent", "seed", "save"}
            => jobs[s].id \in Ids /\ jobs[s].content \in Contents
    /\ delete.pc # "idle" => delete.id \in Ids

\* While a sweep has not failed, only the devices it has still to clean hold
\* the image: no new quarantine starts during a sweep, so one that is there was
\* there when the devices were listed, and set_policy has refused it since.
SweepExact ==
    refresh.pc \in {"sweep", "write"} /\ refresh.ok = TRUE
      /\ Quarantined(refresh.image)
        => \A d \in AssignedTo(refresh.image) :
              \/ d \in refresh.devices
              \/ refresh.pc = "write" /\ d = refresh.device

Safe == QuarantineUnassigned /\ SweepExact

\* A job waiting for the verdict of its image.
Waiting(s) == jobs[s].pc \in {"wait", "running"}

AfterListing == {"apply", "verdicts", "fire", "affected", "sweep", "write"}

\* Generations never run ahead of the registrations, and whoever a generation
\* covers was in the listing it was stamped for.
Covered ==
    /\ waits.covered <= waits.registered
    /\ refresh.gen <= waits.registered
    /\ \A s \in Slots : Waiting(s) =>
         /\ jobs[s].gen <= waits.registered
         /\ jobs[s].gen <= waits.covered => s \in confirmed
         /\ refresh.pc \in AfterListing /\ jobs[s].gen <= refresh.gen
              => s \in refresh.listed

\* The job that runs the refresh is waiting for it, and is covered by it.
OwnerCovered ==
    refresh.owner # None =>
        /\ jobs[refresh.owner].pc = "running"
        /\ refresh.pc # "fetch" => jobs[refresh.owner].gen <= refresh.gen

Inductive ==
    /\ TypeOK
    /\ Located
    /\ Safe
    /\ Covered
    /\ OwnerCovered
    /\ VerifiedJobWasListed

----------------------------------------------------------------------------
(* Types.                                                                  *)

\* What publish() saves is an entry.
LEMMA PublishedType == \A c \in Contents : PublishedEntry(c) \in Entry
  BY NoneAssumption DEF PublishedEntry, Entry, HashStates

\* A verdict applied to an entry is an entry.
LEMMA AppliedType ==
    ASSUME NEW e \in Entry, NEW v \in Verdict
    PROVE  Applied(e, v) \in Entry
  BY DEF Applied, Entry, Verdict, HashStates

\* reconcile answers with verdicts.
LEMMA ReconcileType ==
    ASSUME NEW rows \in SUBSET FeedRow, NEW c, NEW v \in Reconcile(rows, c)
    PROVE  v \in Verdict
<1>1. ASSUME NEW r \in rows, NEW st \in HashStates
      PROVE  [state |-> st, sha |-> r.sha, deferral |-> r.deferral] \in Verdict
  BY <1>1 DEF FeedRow, Verdict
<1>2. CASE v = [state |-> "not_in_feed", sha |-> None, deferral |-> FALSE]
  BY <1>2 DEF Verdict, HashStates
<1>3. CASE \E r \in rows, st \in HashStates :
             v = [state |-> st, sha |-> r.sha, deferral |-> r.deferral]
  BY <1>1, <1>3
<1> QED BY <1>2, <1>3 DEF Reconcile, HashStates

\* The resting values are well typed.
LEMMA RestTypes ==
    NoRun \in RunType /\ NoJob \in JobType /\ NoDelete \in DeleteType
  BY DEF NoRun, RunType, NoJob, JobType, NoDelete, DeleteType

\* So is a job that is over.
LEMMA OverType ==
    ASSUME TypeOK, NEW s \in Slots, NEW pc \in {"done", "failed"}
    PROVE  /\ Over(s, pc) \in JobType
           /\ Over(s, pc).pc = pc /\ Over(s, pc).kind = jobs[s].kind
  BY DEF TypeOK, Over, NoJob, JobType

\* A spent event leaves the budget well typed.
LEMMA SpendType ==
    ASSUME TypeOK, NEW e \in Events, Spend(e)
    PROVE  budget' \in [Events -> Nat]
  BY DEF TypeOK, Spend

\* The catalog starts empty.
LEMMA InitInductive == Init => Inductive
<1> SUFFICES ASSUME Init PROVE Inductive
  OBVIOUS
<1>1. TypeOK
  BY RestTypes, BoundAssumption DEF Init, TypeOK
<1>2. Located
  BY DEF Init, Located, NoRun, NoJob, NoDelete
<1>3. Safe
  BY DEF Init, Safe, QuarantineUnassigned, SweepExact, Quarantined, NoRun
<1>4. Covered /\ OwnerCovered /\ VerifiedJobWasListed
  BY DEF Init, Covered, Waiting, OwnerCovered, VerifiedJobWasListed, NoRun, NoJob
<1> QED BY <1>1, <1>2, <1>3, <1>4 DEF Inductive

----------------------------------------------------------------------------
(* Steps that several actions share.                                       *)

\* A step that quarantines nothing, completes nothing and assigns nothing that
\* is quarantined.
LEMMA SafeFrame ==
    ASSUME Inductive,
           refresh' = refresh \/ refresh'.pc \notin {"sweep", "write"},
           \A i : Quarantined(i)' => Quarantined(i),
           \A i \in Ids : Quarantined(i)' /\ images'[i].complete
                             => images[i].complete,
           \A i : Quarantined(i)' => AssignedTo(i)' \subseteq AssignedTo(i)
    PROVE  Safe'
<1>1. QuarantineUnassigned'
  BY DEF Inductive, Safe, QuarantineUnassigned
<1>2. SweepExact'
  BY DEF Inductive, Safe, SweepExact
<1> QED BY <1>1, <1>2 DEF Safe

\* A step that leaves the catalog and the policies alone.
LEMMA SafeStutter ==
    ASSUME Inductive, UNCHANGED <<images, policy>>,
           refresh' = refresh \/ refresh'.pc \notin {"sweep", "write"}
    PROVE  Safe'
  BY SafeFrame DEF Quarantined, AssignedTo

\* One job moves on, and neither starts to wait nor was running the refresh.
LEMMA JobFrame ==
    ASSUME Inductive, NEW s \in Slots, jobs[s].pc # "running",
           UNCHANGED <<refresh, waits, confirmed, delete>>,
           jobs' \in [Slots -> JobType],
           \A t \in Slots : t # s => jobs'[t] = jobs[t],
           ~Waiting(s)',
           jobs'[s].pc \in {"torrent", "seed", "save"}
              => jobs'[s].id \in Ids /\ jobs'[s].content \in Contents,
           jobs'[s].pc = "done" /\ jobs'[s].kind = "console" => s \in confirmed
    PROVE  Located' /\ Covered' /\ OwnerCovered' /\ VerifiedJobWasListed'
<1>1. Located'
  BY DEF Inductive, Located
<1>2. Covered'
  BY DEF Inductive, Covered, Waiting
<1>3. OwnerCovered'
  BY DEF Inductive, OwnerCovered, TypeOK, RunType
<1>4. VerifiedJobWasListed'
  BY DEF Inductive, VerifiedJobWasListed
<1> QED BY <1>1, <1>2, <1>3, <1>4

----------------------------------------------------------------------------
(* The publish jobs.                                                       *)

\* A job that changes its program counter alone.
LEMMA MovedJob ==
    ASSUME TypeOK, NEW s \in Slots, NEW pc \in {"seed", "save", "register"},
           To(s, pc)
    PROVE  /\ jobs' \in [Slots -> JobType]
           /\ jobs'[s].pc = pc /\ jobs'[s].kind = jobs[s].kind
           /\ jobs'[s].id = jobs[s].id /\ jobs'[s].content = jobs[s].content
           /\ \A t \in Slots : t # s => jobs'[t] = jobs[t]
  BY DEF TypeOK, To, JobType

\* A job that ends.
LEMMA FinishedJob ==
    ASSUME TypeOK, NEW s \in Slots, NEW pc \in {"done", "failed"},
           Finished(s, pc)
    PROVE  /\ jobs' \in [Slots -> JobType]
           /\ jobs'[s].pc = pc /\ jobs'[s].kind = jobs[s].kind
           /\ \A t \in Slots : t # s => jobs'[t] = jobs[t]
<1>1. /\ Over(s, pc) \in JobType
      /\ Over(s, pc).pc = pc /\ Over(s, pc).kind = jobs[s].kind
  BY OverType
<1> QED BY <1>1 DEF TypeOK, Finished

\* Publishing keeps the invariant.
LEMMA PublishSteps ==
    ASSUME Inductive, NEW s \in Slots,
           \/ \E k \in Kinds, i \in Ids, c \in Contents : PublishBegin(s, k, i, c)
           \/ MakeTorrent(s) \/ Seed(s) \/ SeedLost(s) \/ SaveImage(s)
           \/ PublishFault(s)
    PROVE  Inductive'
<1> USE DEF Inductive
<1>1. ASSUME NEW k \in Kinds, NEW i \in Ids, NEW c \in Contents,
             PublishBegin(s, k, i, c)
      PROVE  Inductive'
  <2>1. /\ jobs' \in [Slots -> JobType]
        /\ jobs'[s].pc = "torrent"
        /\ jobs'[s].id = i /\ jobs'[s].content = c
        /\ \A t \in Slots : t # s => jobs'[t] = jobs[t]
    BY <1>1 DEF PublishBegin, TypeOK, JobType
  <2>2. TypeOK'
    BY <1>1, <2>1 DEF PublishBegin, TypeOK, disk
  <2>3. Safe'
    BY <1>1, SafeStutter DEF PublishBegin, disk
  <2>4. Located' /\ Covered' /\ OwnerCovered' /\ VerifiedJobWasListed'
    BY <1>1, <2>1, JobFrame DEF PublishBegin, Waiting
  <2> QED BY <2>2, <2>3, <2>4
<1>2. CASE MakeTorrent(s)
  <2>1. /\ jobs' \in [Slots -> JobType]
        /\ jobs'[s].pc = "seed"
        /\ jobs'[s].id = jobs[s].id /\ jobs'[s].content = jobs[s].content
        /\ \A t \in Slots : t # s => jobs'[t] = jobs[t]
    BY <1>2, MovedJob DEF MakeTorrent
  <2>2. TypeOK'
    BY <1>2, <2>1 DEF MakeTorrent, TypeOK, Located
  <2>3. Safe'
    BY <1>2, SafeStutter DEF MakeTorrent
  <2>4. Located' /\ Covered' /\ OwnerCovered' /\ VerifiedJobWasListed'
    BY <1>2, <2>1, JobFrame DEF MakeTorrent, Waiting, Located
  <2> QED BY <2>2, <2>3, <2>4
<1>3. CASE Seed(s)
  <2>1. /\ jobs' \in [Slots -> JobType]
        /\ jobs'[s].pc = "save"
        /\ jobs'[s].id = jobs[s].id /\ jobs'[s].content = jobs[s].content
        /\ \A t \in Slots : t # s => jobs'[t] = jobs[t]
    BY <1>3, MovedJob DEF Seed
  <2>2. TypeOK'
    BY <1>3, <2>1 DEF Seed, TypeOK, Located, disk
  <2>3. Safe'
    BY <1>3, SafeStutter DEF Seed, disk
  <2>4. Located' /\ Covered' /\ OwnerCovered' /\ VerifiedJobWasListed'
    BY <1>3, <2>1, JobFrame DEF Seed, Waiting, Located
  <2> QED BY <2>2, <2>3, <2>4
<1>4. ASSUME Finished(s, "failed"), jobs[s].pc # "running",
             UNCHANGED <<images, policy, refresh, waits, delete, confirmed>>
      PROVE  /\ jobs' \in [Slots -> JobType] /\ Safe'
             /\ Located' /\ Covered' /\ OwnerCovered' /\ VerifiedJobWasListed'
  <2>1. /\ jobs' \in [Slots -> JobType] /\ jobs'[s].pc = "failed"
        /\ \A t \in Slots : t # s => jobs'[t] = jobs[t]
    BY <1>4, FinishedJob
  <2>2. Located' /\ Covered' /\ OwnerCovered' /\ VerifiedJobWasListed'
    BY <1>4, <2>1, JobFrame DEF Waiting
  <2> QED BY <1>4, <2>1, <2>2, SafeStutter
<1>5. CASE SeedLost(s)
  <2>1. /\ jobs' \in [Slots -> JobType] /\ Safe'
        /\ Located' /\ Covered' /\ OwnerCovered' /\ VerifiedJobWasListed'
    BY <1>4, <1>5 DEF SeedLost, disk
  <2>2. TypeOK'
    BY <1>5, <2>1 DEF SeedLost, TypeOK, disk
  <2> QED BY <2>1, <2>2
<1>6. CASE PublishFault(s)
  <2>1. /\ jobs' \in [Slots -> JobType] /\ Safe'
        /\ Located' /\ Covered' /\ OwnerCovered' /\ VerifiedJobWasListed'
    BY <1>4, <1>6 DEF PublishFault
  <2>2. TypeOK'
    <3>1. budget' \in [Events -> Nat]
      BY <1>6, SpendType DEF PublishFault, Events
    <3>2. jobs[s].id \in Ids
      BY <1>6 DEF PublishFault, Located
    <3> QED BY <1>6, <2>1, <3>1, <3>2 DEF PublishFault, TypeOK
  <2> QED BY <2>1, <2>2
<1>7. CASE SaveImage(s)
  <2>1. /\ jobs' \in [Slots -> JobType] /\ ~Waiting(s)'
        /\ jobs'[s].pc \notin {"torrent", "seed", "save"}
        /\ jobs'[s].pc = "done" => jobs'[s].kind # "console"
        /\ \A t \in Slots : t # s => jobs'[t] = jobs[t]
    BY <1>7, MovedJob, FinishedJob DEF SaveImage, Waiting
  <2>2. images' \in [Ids -> Entry \cup {None}]
    BY <1>7, PublishedType DEF SaveImage, TypeOK, Located
  <2>3. TypeOK'
    BY <1>7, <2>1, <2>2 DEF SaveImage, TypeOK
  <2>4. \A i \in Ids : Quarantined(i)' =>
           Quarantined(i) /\ images'[i] = images[i]
    BY <1>7 DEF SaveImage, Quarantined, PublishedEntry, TypeOK
  <2>5. Safe'
    BY <1>7, <2>4 DEF SaveImage, Safe, QuarantineUnassigned, SweepExact,
                      AssignedTo, Located
  <2>6. Located' /\ Covered' /\ OwnerCovered' /\ VerifiedJobWasListed'
    BY <1>7, <2>1, JobFrame DEF SaveImage
  <2> QED BY <2>3, <2>5, <2>6
<1> QED BY <1>1, <1>2, <1>3, <1>5, <1>6, <1>7

\* A job that waits, takes a run, or gives up keeps it.
LEMMA WaitSteps ==
    ASSUME Inductive, NEW s \in Slots,
           Register(s) \/ WaitCovered(s) \/ WaitRun(s) \/ WaitTimeout(s)
    PROVE  Inductive'
<1> USE DEF Inductive
<1>1. CASE Register(s)
  <2>0. /\ waits.registered \in Nat /\ waits.covered \in Nat
        /\ waits' \in [registered : Nat, covered : Nat]
        /\ waits'.registered = waits.registered + 1
        /\ waits'.covered = waits.covered
    BY <1>1 DEF Register, TypeOK
  <2>1. /\ jobs' \in [Slots -> JobType]
        /\ jobs'[s].pc = "wait" /\ jobs'[s].gen = waits.registered + 1
        /\ \A t \in Slots : t # s => jobs'[t] = jobs[t]
    <3> DEFINE j == [jobs[s] EXCEPT !.pc = "wait", !.gen = waits.registered + 1]
    <3>1. j \in JobType /\ j.pc = "wait" /\ j.gen = waits.registered + 1
      <4>1. jobs[s] \in JobType
        BY DEF TypeOK
      <4> QED BY <2>0, <4>1 DEF JobType
    <3>2. jobs' = [jobs EXCEPT ![s] = j]
      BY <1>1 DEF Register
    <3> QED BY <3>1, <3>2 DEF TypeOK
  <2>2. TypeOK'
    BY <1>1, <2>0, <2>1 DEF Register, TypeOK, disk
  <2>3. Safe'
    BY <1>1, SafeStutter DEF Register, disk
  <2>4. Located' /\ VerifiedJobWasListed'
    BY <1>1, <2>1 DEF Register, Located, VerifiedJobWasListed
  <2>5. Covered'
    BY <1>1, <2>0, <2>1 DEF Register, Covered, Waiting, TypeOK, RunType, JobType
  <2>6. OwnerCovered'
    BY <1>1, <2>1 DEF Register, OwnerCovered, TypeOK, RunType
  <2> QED BY <2>2, <2>3, <2>4, <2>5, <2>6
<1>2. CASE WaitCovered(s)
  <2>1. /\ jobs' \in [Slots -> JobType] /\ jobs'[s].pc = "done"
        /\ \A t \in Slots : t # s => jobs'[t] = jobs[t]
    BY <1>2, FinishedJob DEF WaitCovered
  <2>2. s \in confirmed
    BY <1>2 DEF WaitCovered, Covered, Waiting, TypeOK, JobType
  <2>3. TypeOK'
    BY <1>2, <2>1 DEF WaitCovered, TypeOK, disk
  <2>4. Safe'
    BY <1>2, SafeStutter DEF WaitCovered, disk
  <2>5. Located' /\ Covered' /\ OwnerCovered' /\ VerifiedJobWasListed'
    BY <1>2, <2>1, <2>2, JobFrame DEF WaitCovered, Waiting
  <2> QED BY <2>3, <2>4, <2>5
<1>3. CASE WaitTimeout(s)
  <2>1. /\ jobs' \in [Slots -> JobType] /\ jobs'[s].pc = "failed"
        /\ \A t \in Slots : t # s => jobs'[t] = jobs[t]
    BY <1>3, FinishedJob DEF WaitTimeout
  <2>2. TypeOK'
    BY <1>3, <2>1 DEF WaitTimeout, TypeOK, disk
  <2>3. Safe'
    BY <1>3, SafeStutter DEF WaitTimeout, disk
  <2>4. Located' /\ Covered' /\ OwnerCovered' /\ VerifiedJobWasListed'
    BY <1>3, <2>1, JobFrame DEF WaitTimeout, Waiting
  <2> QED BY <2>2, <2>3, <2>4
<1>4. CASE WaitRun(s)
  <2>1. /\ jobs' \in [Slots -> JobType] /\ jobs'[s].pc = "running"
        /\ jobs'[s].gen = jobs[s].gen
        /\ \A t \in Slots : t # s => jobs'[t] = jobs[t]
    BY <1>4 DEF WaitRun, To, TypeOK, JobType
  <2>2. /\ refresh' \in RunType /\ refresh'.pc = "fetch"
        /\ refresh'.owner = s /\ refresh'.gen = 0
    BY <1>4, RestTypes DEF WaitRun, NoRun, RunType
  <2>3. TypeOK'
    BY <1>4, <2>1, <2>2 DEF WaitRun, TypeOK, disk
  <2>4. Safe'
    BY <1>4, <2>2, SafeStutter DEF WaitRun, disk
  <2>5. Located' /\ VerifiedJobWasListed'
    BY <1>4, <2>1, <2>2 DEF WaitRun, Located, VerifiedJobWasListed
  <2>6. Covered' /\ OwnerCovered'
    BY <1>4, <2>1, <2>2 DEF WaitRun, Covered, OwnerCovered, Waiting,
                            AfterListing, TypeOK
  <2> QED BY <2>3, <2>4, <2>5, <2>6
<1> QED BY <1>1, <1>2, <1>3, <1>4

----------------------------------------------------------------------------
(* The refresh.                                                            *)

\* A step of a run that leaves the jobs, their generations and what it listed.
LEMMA RunFrame ==
    ASSUME Inductive, UNCHANGED <<waits, jobs, delete, confirmed>>,
           refresh'.gen = refresh.gen, refresh'.owner = refresh.owner,
           refresh'.listed = refresh.listed,
           refresh.pc \in AfterListing, refresh'.pc \in AfterListing,
           refresh'.pc \in {"affected", "sweep", "write"}
              => refresh'.image \in Ids,
           refresh'.pc = "write" => refresh'.device \in Devices
    PROVE  Located' /\ Covered' /\ OwnerCovered' /\ VerifiedJobWasListed'
<1>1. Located'
  BY DEF Inductive, Located, AfterListing
<1>2. Covered' /\ OwnerCovered' /\ VerifiedJobWasListed'
  BY DEF Inductive, Covered, OwnerCovered, VerifiedJobWasListed, Waiting,
         AfterListing
<1> QED BY <1>1, <1>2

\* Starting a run, stamping it and listing the catalog keep the invariant.
LEMMA ListingSteps ==
    ASSUME Inductive,
           RefreshStart \/ (\E feed \in Feeds : RefreshStamp(feed)) \/ RefreshList
    PROVE  Inductive'
<1> USE DEF Inductive
<1>1. CASE RefreshStart
  <2>1. /\ refresh' \in RunType /\ refresh'.pc = "fetch"
        /\ refresh'.owner = None /\ refresh'.gen = 0
    BY <1>1, RestTypes DEF RefreshStart, NoRun, RunType
  <2>2. TypeOK'
    BY <1>1, <2>1 DEF RefreshStart, TypeOK, disk
  <2>3. Safe'
    BY <1>1, <2>1, SafeStutter DEF RefreshStart, disk
  <2>4. Located' /\ VerifiedJobWasListed'
    BY <1>1, <2>1 DEF RefreshStart, Located, VerifiedJobWasListed
  <2>5. Covered' /\ OwnerCovered'
    BY <1>1, <2>1 DEF RefreshStart, Covered, OwnerCovered, Waiting,
                      AfterListing, TypeOK
  <2> QED BY <2>2, <2>3, <2>4, <2>5
<1>2. ASSUME NEW feed \in Feeds, RefreshStamp(feed) PROVE Inductive'
  <2>1. /\ refresh' \in RunType /\ refresh'.pc = "list"
        /\ refresh'.owner = refresh.owner /\ refresh'.gen = waits.registered
        /\ refresh'.feed = feed
    BY <1>2 DEF RefreshStamp, TypeOK, RunType
  <2>2. TypeOK'
    BY <1>2, <2>1 DEF RefreshStamp, TypeOK, disk
  <2>3. Safe'
    BY <1>2, <2>1, SafeStutter DEF RefreshStamp, disk
  <2>4. Located' /\ VerifiedJobWasListed'
    BY <1>2, <2>1 DEF RefreshStamp, Located, VerifiedJobWasListed
  <2>5. Covered'
    <3>1. waits.registered <= waits.registered
      BY DEF TypeOK
    <3> QED BY <1>2, <2>1, <3>1 DEF RefreshStamp, Covered, Waiting, AfterListing
  <2>6. OwnerCovered'
    BY <1>2, <2>1 DEF RefreshStamp, OwnerCovered, Covered, Waiting, TypeOK,
                      RunType
  <2> QED BY <2>2, <2>3, <2>4, <2>5, <2>6
<1>3. CASE RefreshList
  <2>1. \A i \in Ids : \A v \in VerdictsOf(i) : v \in Verdict \cup {None}
    <3> SUFFICES ASSUME NEW i \in Ids, images[i] # None,
                        NEW v \in Reconcile(refresh.feed[i], images[i].content)
                 PROVE  v \in Verdict
      BY DEF VerdictsOf
    <3>1. refresh.feed \in Feeds
      BY <1>3 DEF RefreshList, Located
    <3>2. refresh.feed \in [Ids -> SUBSET FeedRow]
      BY <3>1, FeedAssumption
    <3>3. refresh.feed[i] \in SUBSET FeedRow
      BY <3>2
    <3> QED BY <3>3, ReconcileType
  <2>2. PICK found \in [Ids -> UNION {VerdictsOf(i) : i \in Ids}] :
          /\ \A i \in Ids : found[i] \in VerdictsOf(i)
          /\ refresh' = [refresh EXCEPT !.pc = "apply", !.found = found,
                                        !.feed = None,
                                        !.listed = {s \in Slots : Saved(s)}]
    BY <1>3 DEF RefreshList
  <2>3. found \in [Ids -> Verdict \cup {None}]
    BY <2>1, <2>2
  <2>4. /\ refresh' \in RunType /\ refresh'.pc = "apply"
        /\ refresh'.owner = refresh.owner /\ refresh'.gen = refresh.gen
        /\ refresh'.listed = {s \in Slots : Saved(s)}
    BY <2>2, <2>3 DEF TypeOK, RunType
  <2>5. TypeOK'
    BY <1>3, <2>4 DEF RefreshList, TypeOK, disk
  <2>6. Safe'
    BY <1>3, <2>4, SafeStutter DEF RefreshList, disk
  <2>7. Located' /\ VerifiedJobWasListed'
    BY <1>3, <2>4 DEF RefreshList, Located, VerifiedJobWasListed
  <2>8. Covered' /\ OwnerCovered'
    BY <1>3, <2>4 DEF RefreshList, Covered, OwnerCovered, Waiting, Saved
  <2> QED BY <2>5, <2>6, <2>7, <2>8
<1> QED BY <1>1, <1>2, <1>3

\* The two writes of apply_hash_verification keep it.
LEMMA ApplySteps ==
    ASSUME Inductive, ApplyCatalog \/ ApplyVerdicts
    PROVE  Inductive'
<1> USE DEF Inductive
<1>1. CASE ApplyCatalog
  <2>1. /\ refresh' \in RunType /\ refresh'.pc = "verdicts"
        /\ refresh'.owner = refresh.owner /\ refresh'.gen = refresh.gen
        /\ refresh'.listed = refresh.listed
    BY <1>1 DEF ApplyCatalog, TypeOK, RunType
  <2>2. \A i \in Touched : images[i] \in Entry /\ refresh.found[i] \in Verdict
    BY DEF Touched, TypeOK, RunType
  <2>3. \A i \in Touched : Applied(images[i], refresh.found[i]) \in Entry
    BY <2>2, AppliedType
  <2>4. images' \in [Ids -> Entry \cup {None}]
    BY <1>1, <2>3 DEF ApplyCatalog, TypeOK
  <2>5. TypeOK'
    BY <1>1, <2>1, <2>4 DEF ApplyCatalog, TypeOK
  <2>6. ASSUME NEW i \in Ids, Quarantined(i)', images'[i].complete
        PROVE  Quarantined(i) /\ images[i].complete
    <3>1. CASE i \notin Touched
      BY <1>1, <2>6, <3>1 DEF ApplyCatalog, Quarantined
    <3>2. CASE i \in Touched
      <4>1. images'[i] = Applied(images[i], refresh.found[i])
        BY <1>1, <3>2 DEF ApplyCatalog
      <4>2. images[i] # None /\ images'[i].quarantined
        BY <2>6, <3>2 DEF Touched, Quarantined
      <4> DEFINE e == images[i]
      <4>3. e \in Entry
        BY <2>2, <3>2
      <4>4. images'[i].complete => images[i].complete /\ images[i].quarantined
        BY <4>1, <4>2, <4>3 DEF Applied, Entry
      <4> QED BY <2>6, <4>2, <4>4 DEF Quarantined
    <3> QED BY <3>1, <3>2
  <2>7. Safe'
    BY <1>1, <2>1, <2>6 DEF ApplyCatalog, Safe, QuarantineUnassigned, SweepExact,
                            AssignedTo
  <2>8. Located' /\ Covered' /\ OwnerCovered' /\ VerifiedJobWasListed'
    BY <1>1, <2>1, RunFrame DEF ApplyCatalog, AfterListing
  <2> QED BY <2>5, <2>7, <2>8
<1>2. CASE ApplyVerdicts
  <2>1. /\ refresh' \in RunType /\ refresh'.pc = "fire"
        /\ refresh'.owner = refresh.owner /\ refresh'.gen = refresh.gen
        /\ refresh'.listed = refresh.listed
    BY <1>2, RestTypes DEF ApplyVerdicts, TypeOK, RunType, ToRetry
  <2>2. verdicts' \in [Ids -> Contents \cup {None}]
    BY <1>2 DEF ApplyVerdicts, Touched, TypeOK, RunType, Verdict
  <2>3. TypeOK'
    BY <1>2, <2>1, <2>2 DEF ApplyVerdicts, TypeOK
  <2>4. Safe'
    BY <1>2, <2>1, SafeStutter DEF ApplyVerdicts
  <2>5. Located' /\ Covered' /\ OwnerCovered' /\ VerifiedJobWasListed'
    BY <1>2, <2>1, RunFrame DEF ApplyVerdicts, AfterListing
  <2> QED BY <2>3, <2>4, <2>5
<1> QED BY <1>1, <1>2

\* Stopping the seeder, and a quarantine whose image has gone, keep it.
LEMMA FireSteps ==
    ASSUME Inductive, NEW i \in Ids, FireGone(i) \/ FireStop(i) \/ FireStopFault(i)
    PROVE  Inductive'
<1> USE DEF Inductive
<1>1. /\ refresh' \in RunType /\ refresh'.pc \in {"fire", "affected"}
      /\ refresh'.owner = refresh.owner /\ refresh'.gen = refresh.gen
      /\ refresh'.listed = refresh.listed
      /\ refresh'.pc = "affected" => refresh'.image = i
      /\ refresh.pc = "fire"
  <2>1. refresh \in RunType
    BY DEF TypeOK
  <2>2. CASE FireGone(i)
    BY <2>1, <2>2 DEF FireGone, RunType
  <2>3. CASE FireStop(i)
    BY <2>1, <2>3 DEF FireStop, RunType
  <2>4. CASE FireStopFault(i)
    BY <2>1, <2>4 DEF FireStopFault, RunType
  <2> QED BY <2>2, <2>3, <2>4
<1>2. /\ seeder' \subseteq Ids \X Contents
      /\ UNCHANGED <<disk, waits, jobs, release, delete, confirmed>>
  BY DEF FireGone, FireStop, FireStopFault, TypeOK
<1>3. budget' \in [Events -> Nat]
  BY SpendType DEF FireGone, FireStop, FireStopFault, TypeOK, Events
<1>4. TypeOK'
  BY <1>1, <1>2, <1>3 DEF TypeOK, disk
<1>5. Safe'
  BY <1>1, <1>2, SafeStutter DEF disk
<1>6. Located' /\ Covered' /\ OwnerCovered' /\ VerifiedJobWasListed'
  BY <1>1, <1>2, RunFrame DEF AfterListing
<1> QED BY <1>4, <1>5, <1>6

\* The sweep of one quarantined image over its devices keeps it.
LEMMA SweepSteps ==
    ASSUME Inductive,
           \/ FireAffected \/ SweepWrite \/ SweepRefused \/ SweepFault \/ FireEnd
           \/ \E d \in Devices : SweepRead(d)
    PROVE  Inductive'
<1> USE DEF Inductive
<1>1. CASE FireAffected
  <2>1. /\ refresh' \in RunType /\ refresh'.pc = "sweep"
        /\ refresh'.owner = refresh.owner /\ refresh'.gen = refresh.gen
        /\ refresh'.listed = refresh.listed /\ refresh'.image = refresh.image
        /\ refresh'.devices = AssignedTo(refresh.image)
    BY <1>1 DEF FireAffected, TypeOK, RunType, AssignedTo
  <2>2. TypeOK'
    BY <1>1, <2>1 DEF FireAffected, TypeOK, disk
  <2>3. Safe'
    BY <1>1, <2>1 DEF FireAffected, Safe, QuarantineUnassigned, SweepExact,
                      AssignedTo, Quarantined, disk
  <2>4. Located' /\ Covered' /\ OwnerCovered' /\ VerifiedJobWasListed'
    BY <1>1, <2>1, RunFrame DEF FireAffected, AfterListing, Located
  <2> QED BY <2>2, <2>3, <2>4
<1>2. ASSUME NEW d \in Devices, SweepRead(d) PROVE Inductive'
  <2>1. /\ refresh' \in RunType /\ refresh'.pc = "write"
        /\ refresh'.owner = refresh.owner /\ refresh'.gen = refresh.gen
        /\ refresh'.listed = refresh.listed /\ refresh'.image = refresh.image
        /\ refresh'.device = d /\ refresh'.devices = refresh.devices \ {d}
        /\ refresh'.ok = refresh.ok
    BY <1>2 DEF SweepRead, TypeOK, RunType
  <2>2. TypeOK'
    BY <1>2, <2>1 DEF SweepRead, TypeOK, disk
  <2>3. Safe'
    BY <1>2, <2>1 DEF SweepRead, Safe, QuarantineUnassigned, SweepExact,
                      AssignedTo, Quarantined, disk
  <2>4. Located' /\ Covered' /\ OwnerCovered' /\ VerifiedJobWasListed'
    BY <1>2, <2>1, RunFrame DEF SweepRead, AfterListing, Located
  <2> QED BY <2>2, <2>3, <2>4
<1>3. CASE SweepWrite
  <2>1. /\ refresh' \in RunType /\ refresh'.pc = "sweep"
        /\ refresh'.owner = refresh.owner /\ refresh'.gen = refresh.gen
        /\ refresh'.listed = refresh.listed /\ refresh'.image = refresh.image
        /\ refresh'.devices = refresh.devices /\ refresh'.ok = refresh.ok
    BY <1>3 DEF SweepWrite, TypeOK, RunType
  <2>2. refresh.device \in Devices /\ refresh.keep \in SUBSET Ids
    BY <1>3 DEF SweepWrite, Located, TypeOK, RunType
  <2>3. TypeOK'
    BY <1>3, <2>1, <2>2 DEF SweepWrite, TypeOK
  <2>4. \A i \in Ids : Quarantined(i)' =>
           /\ Quarantined(i) /\ refresh.device \notin AssignedTo(i)'
           /\ AssignedTo(i)' \subseteq AssignedTo(i)
    BY <1>3, <2>2 DEF SweepWrite, Assignable, AssignedTo, Quarantined, TypeOK
  <2>5. QuarantineUnassigned'
    BY <1>3, <2>4 DEF SweepWrite, Safe, QuarantineUnassigned
  <2>6. SweepExact'
    BY <1>3, <2>1, <2>4 DEF SweepWrite, Safe, SweepExact, Located
  <2>7. Located' /\ Covered' /\ OwnerCovered' /\ VerifiedJobWasListed'
    BY <1>3, <2>1, RunFrame DEF SweepWrite, AfterListing, Located
  <2> QED BY <2>3, <2>5, <2>6, <2>7 DEF Safe
<1>4. CASE SweepRefused \/ SweepFault
  <2>1. /\ refresh' \in RunType /\ refresh'.pc = "sweep" /\ refresh'.ok = FALSE
        /\ refresh'.owner = refresh.owner /\ refresh'.gen = refresh.gen
        /\ refresh'.listed = refresh.listed /\ refresh'.image = refresh.image
    <3>1. refresh \in RunType
      BY DEF TypeOK
    <3>2. SweepFailed
      BY <1>4 DEF SweepRefused, SweepFault
    <3> QED BY <3>1, <3>2 DEF SweepFailed, RunType
  <2>2. UNCHANGED <<disk, seeder, waits, jobs, release, delete, confirmed>>
    BY <1>4 DEF SweepRefused, SweepFault
  <2>3. budget' \in [Events -> Nat]
    BY <1>4, SpendType DEF SweepRefused, SweepFault, TypeOK, Events
  <2>4. TypeOK'
    BY <2>1, <2>2, <2>3 DEF TypeOK, disk
  <2>5. Safe'
    BY <2>1, <2>2 DEF Safe, QuarantineUnassigned, SweepExact, AssignedTo,
                      Quarantined, disk
  <2>6. Located' /\ Covered' /\ OwnerCovered' /\ VerifiedJobWasListed'
    BY <1>4, <2>1, <2>2, RunFrame DEF SweepRefused, SweepFault, AfterListing,
                                      Located
  <2> QED BY <2>4, <2>5, <2>6
<1>5. CASE FireEnd
  <2>1. /\ refresh' \in RunType /\ refresh'.pc = "fire"
        /\ refresh'.owner = refresh.owner /\ refresh'.gen = refresh.gen
        /\ refresh'.listed = refresh.listed
    BY <1>5 DEF FireEnd, TypeOK, RunType
  <2>2. /\ images' \in [Ids -> Entry \cup {None}]
        /\ \A i \in Ids : /\ Quarantined(i)' <=> Quarantined(i)
                          /\ i # refresh.image => images'[i] = images[i]
        /\ images' # images => refresh.ok = TRUE /\ Quarantined(refresh.image)
    <3>1. CASE images' = images
      BY <3>1 DEF TypeOK, Quarantined
    <3>2. CASE /\ refresh.ok /\ Quarantined(refresh.image)
               /\ images' = [images EXCEPT ![refresh.image].complete = TRUE]
      <4>1. images[refresh.image] \in Entry /\ refresh.image \in Ids
        BY <1>5, <3>2 DEF FireEnd, TypeOK, Quarantined, Located
      <4>2. /\ images'[refresh.image] \in Entry
            /\ images'[refresh.image].quarantined
                 = images[refresh.image].quarantined
        BY <3>2, <4>1 DEF Entry, TypeOK
      <4>3. images'[refresh.image] # None
        BY <4>2, NoneAssumption
      <4> QED BY <3>2, <4>1, <4>2, <4>3 DEF TypeOK, Quarantined, RunType
    <3> QED BY <1>5, <3>1, <3>2 DEF FireEnd
  <2>3. TypeOK'
    BY <1>5, <2>1, <2>2 DEF FireEnd, TypeOK
  <2>4. images' # images => AssignedTo(refresh.image) = {}
    BY <1>5, <2>2 DEF FireEnd, Safe, SweepExact
  <2>5. Safe'
    BY <1>5, <2>1, <2>2, <2>4 DEF FireEnd, Safe, QuarantineUnassigned, SweepExact,
                                  AssignedTo
  <2>6. Located' /\ Covered' /\ OwnerCovered' /\ VerifiedJobWasListed'
    BY <1>5, <2>1, RunFrame DEF FireEnd, AfterListing
  <2> QED BY <2>3, <2>5, <2>6
<1> QED BY <1>1, <1>2, <1>3, <1>4, <1>5

\* The answer reaches the owner alone.
LEMMA AnsweredJobs ==
    ASSUME Inductive, NEW pc \in {"done", "failed"}, Answered(pc)
    PROVE  /\ jobs' \in [Slots -> JobType]
           /\ \A s \in Slots : s # refresh.owner => jobs'[s] = jobs[s]
           /\ \A s \in Slots : s = refresh.owner =>
                /\ jobs[s].pc = "running" /\ jobs'[s].pc = pc
                /\ jobs'[s].kind = jobs[s].kind
<1>1. refresh.owner \in Slots \cup {None}
  BY DEF Inductive, TypeOK, RunType
<1>2. CASE refresh.owner = None
  BY <1>2, NoneAssumption DEF Answered, Inductive, TypeOK
<1>3. CASE refresh.owner \in Slots
  <2>1. refresh.owner # None
    BY <1>3, NoneAssumption
  <2>2. /\ Over(refresh.owner, pc) \in JobType
        /\ Over(refresh.owner, pc).pc = pc
        /\ Over(refresh.owner, pc).kind = jobs[refresh.owner].kind
    BY <1>3, OverType DEF Inductive
  <2> QED BY <1>3, <2>1, <2>2 DEF Answered, Inductive, TypeOK, OwnerCovered
<1> QED BY <1>1, <1>2, <1>3

\* The end of a run, successful or not, keeps the invariant.
LEMMA EndSteps ==
    ASSUME Inductive, RefreshEnd \/ RefreshFault
    PROVE  Inductive'
<1> USE DEF Inductive
<1>1. /\ refresh' = NoRun /\ NoRun \in RunType
      /\ NoRun.pc = "idle" /\ NoRun.owner = None /\ NoRun.gen = 0
  BY RestTypes DEF RefreshEnd, RefreshFault, NoRun
<1>2. UNCHANGED <<disk, seeder, release, delete>>
  BY DEF RefreshEnd, RefreshFault
<1>3. PICK pc \in {"done", "failed"} :
        Answered(pc) /\ (pc = "done" => RefreshEnd)
  BY DEF RefreshEnd, RefreshFault
<1>4. /\ jobs' \in [Slots -> JobType]
      /\ \A s \in Slots : s # refresh.owner => jobs'[s] = jobs[s]
      /\ \A s \in Slots : s = refresh.owner =>
           /\ jobs[s].pc = "running" /\ jobs'[s].pc = pc
           /\ jobs'[s].kind = jobs[s].kind
  BY <1>3, AnsweredJobs
<1>5. /\ waits \in [registered : Nat, covered : Nat]
      /\ waits' \in [registered : Nat, covered : Nat]
      /\ waits'.registered = waits.registered
      /\ RefreshEnd => waits'.covered = refresh.gen
      /\ RefreshFault => waits'.covered = waits.covered
      /\ refresh.gen \in Nat
  <2>1. waits \in [registered : Nat, covered : Nat] /\ refresh.gen \in Nat
    BY DEF TypeOK, RunType
  <2> QED BY <2>1 DEF RefreshEnd, RefreshFault, CoveredGeneration
<1>6. /\ confirmed \subseteq confirmed' /\ confirmed' \subseteq Slots
      /\ RefreshEnd => refresh.listed \subseteq confirmed'
  BY DEF RefreshEnd, RefreshFault, TypeOK, RunType
<1>7. budget' \in [Events -> Nat]
  BY SpendType DEF RefreshEnd, RefreshFault, TypeOK, Events
<1>8. TypeOK'
  BY <1>1, <1>2, <1>4, <1>5, <1>6, <1>7 DEF TypeOK, disk
<1>9. Safe'
  BY <1>1, <1>2, SafeStutter DEF disk
<1>10. Located'
  BY <1>1, <1>2, <1>4 DEF Located
<1>11. RefreshEnd => refresh.pc = "fire"
  BY DEF RefreshEnd
<1>12. Covered'
  <2>1. waits'.covered <= waits'.registered /\ refresh'.gen <= waits'.registered
    BY <1>1, <1>5 DEF RefreshEnd, RefreshFault, Covered
  <2>2. ASSUME NEW s \in Slots, Waiting(s)'
        PROVE  /\ jobs'[s].gen <= waits'.registered
               /\ jobs'[s].gen <= waits'.covered => s \in confirmed'
    <3>1. jobs'[s] = jobs[s] /\ Waiting(s)
      BY <1>4, <2>2 DEF Waiting
    <3>2. CASE RefreshEnd
      BY <1>5, <1>6, <1>11, <3>1, <3>2 DEF Covered, AfterListing
    <3>3. CASE RefreshFault
      BY <1>5, <1>6, <3>1, <3>3 DEF Covered
    <3> QED BY <3>2, <3>3
  <2> QED BY <1>1, <2>1, <2>2 DEF Covered, AfterListing
<1>13. OwnerCovered'
  BY <1>1 DEF OwnerCovered
<1>14. VerifiedJobWasListed'
  <2> SUFFICES ASSUME NEW s \in Slots, jobs'[s].kind = "console",
                      jobs'[s].pc = "done"
               PROVE  s \in confirmed'
    BY DEF VerifiedJobWasListed
  <2>1. CASE s # refresh.owner
    BY <1>4, <1>6, <2>1 DEF VerifiedJobWasListed
  <2>2. CASE s = refresh.owner
    <3>1. RefreshEnd /\ jobs[s].pc = "running" /\ s # None
      BY <1>3, <1>4, <2>2, NoneAssumption
    <3>2. jobs[s].gen <= refresh.gen
      BY <1>11, <2>2, <3>1 DEF OwnerCovered
    <3>3. s \in refresh.listed
      BY <1>11, <3>1, <3>2 DEF Covered, Waiting, AfterListing
    <3> QED BY <1>6, <3>1, <3>3
  <2> QED BY <2>1, <2>2
<1> QED BY <1>8, <1>9, <1>10, <1>12, <1>13, <1>14

----------------------------------------------------------------------------
(* Operators and restarts.                                                 *)

\* An operator's step leaves the jobs and the refresh alone.
LEMMA OperatorFrame ==
    ASSUME Inductive, UNCHANGED <<refresh, waits, jobs, confirmed>>,
           delete'.pc # "idle" => delete'.id \in Ids
    PROVE  Located' /\ Covered' /\ OwnerCovered' /\ VerifiedJobWasListed'
  BY DEF Inductive, Located, Covered, OwnerCovered, VerifiedJobWasListed, Waiting

\* An assignment, a retirement and a registration keep the invariant.
LEMMA FleetSteps ==
    ASSUME Inductive,
           \/ \E d \in Devices, ids \in SUBSET Ids : Assign(d, ids)
           \/ \E d \in Devices : RetireDevice(d) \/ RegisterDevice(d)
    PROVE  Inductive'
<1> USE DEF Inductive
<1>1. /\ UNCHANGED <<images, verdicts, torrents, seeder, refresh, waits, jobs,
                     release, delete, confirmed>>
      /\ fleet' \subseteq Devices
      /\ \E e \in Events : Spend(e)
  BY DEF Assign, RetireDevice, RegisterDevice, TypeOK, Events
<1>2. /\ policy' \in [Devices -> SUBSET Ids]
      /\ \A i : Quarantined(i) => AssignedTo(i)' \subseteq AssignedTo(i)
  <2>1. ASSUME NEW d \in Devices, NEW ids \in SUBSET Ids, Assign(d, ids)
        PROVE  <1>2!2 /\ <1>2!1
    BY <2>1 DEF Assign, Assignable, AssignedTo, TypeOK
  <2>2. ASSUME NEW d \in Devices, RetireDevice(d) \/ RegisterDevice(d)
        PROVE  <1>2!2 /\ <1>2!1
    BY <2>2 DEF RetireDevice, RegisterDevice, AssignedTo, TypeOK
  <2> QED BY <2>1, <2>2
<1>3. budget' \in [Events -> Nat]
  BY <1>1, SpendType
<1>4. TypeOK'
  BY <1>1, <1>2, <1>3 DEF TypeOK
<1>5. Safe'
  BY <1>1, <1>2, SafeFrame DEF Quarantined
<1>6. Located' /\ Covered' /\ OwnerCovered' /\ VerifiedJobWasListed'
  BY <1>1, OperatorFrame DEF Located
<1> QED BY <1>4, <1>5, <1>6

\* A release and its return to the seeder keep it.
LEMMA ReleaseSteps ==
    ASSUME Inductive,
           Resume \/ \E i \in Ids, override \in BOOLEAN : Release(i, override)
    PROVE  Inductive'
<1> USE DEF Inductive
<1>1. CASE Resume
  <2>1. seeder' \subseteq Ids \X Contents
    BY <1>1 DEF Resume, TypeOK
  <2>2. TypeOK'
    BY <1>1, <2>1 DEF Resume, TypeOK, disk
  <2>3. Safe'
    BY <1>1, SafeStutter DEF Resume, disk
  <2>4. Located' /\ Covered' /\ OwnerCovered' /\ VerifiedJobWasListed'
    BY <1>1, OperatorFrame DEF Resume, Located
  <2> QED BY <2>2, <2>3, <2>4
<1>2. ASSUME NEW i \in Ids, NEW override \in BOOLEAN, Release(i, override)
      PROVE  Inductive'
  <2>1. images[i] \in Entry
    BY <1>2 DEF Release, Quarantined, TypeOK
  <2>2. PICK e \in Entry : /\ images' = [images EXCEPT ![i] = e]
                           /\ e.quarantined = FALSE
    <3> DEFINE st == IF StillMismatching(i) THEN images[i].state
                     ELSE "verified"
               ak == IF StillMismatching(i) THEN verdicts[i] ELSE None
               f == [images[i] EXCEPT !.quarantined = FALSE, !.complete = TRUE,
                                      !.acked = ak, !.state = st]
    <3>1. st \in HashStates /\ ak \in Contents \cup {None}
      BY <2>1 DEF TypeOK, Entry, HashStates
    <3>2. images' = [images EXCEPT ![i] = f]
      BY <1>2 DEF Release, TypeOK
    <3> HIDE DEF st, ak
    <3>3. f \in Entry /\ f.quarantined = FALSE
      BY <2>1, <3>1 DEF Entry
    <3> QED BY <3>2, <3>3
  <2>3. budget' \in [Events -> Nat]
    BY <1>2, SpendType DEF Release, Events
  <2>4. TypeOK'
    <3>1. images' \in [Ids -> Entry \cup {None}]
      BY <2>2 DEF TypeOK
    <3>2. /\ release' = i
          /\ UNCHANGED <<verdicts, torrents, policy, fleet, seeder, refresh,
                         waits, jobs, delete, confirmed>>
      BY <1>2 DEF Release
    <3> QED BY <2>3, <3>1, <3>2 DEF TypeOK
  <2>5. \A j \in Ids : Quarantined(j)' => Quarantined(j) /\ images'[j] = images[j]
    BY <2>2 DEF Quarantined, TypeOK
  <2>6. Safe'
    BY <1>2, <2>5 DEF Release, Safe, QuarantineUnassigned, SweepExact, AssignedTo,
                      Located
  <2>7. Located' /\ Covered' /\ OwnerCovered' /\ VerifiedJobWasListed'
    BY <1>2, OperatorFrame DEF Release, Located
  <2> QED BY <2>4, <2>6, <2>7
<1> QED BY <1>1, <1>2

\* A deletion keeps it.
LEMMA DeleteSteps ==
    ASSUME Inductive,
           \/ \E i \in Ids : DeleteBegin(i)
           \/ DeleteRefused \/ DeleteEntry \/ DeleteSeeder \/ DeleteTorrent
    PROVE  Inductive'
<1> USE DEF Inductive
<1>1. /\ UNCHANGED <<verdicts, policy, fleet, refresh, waits, jobs, release,
                     confirmed>>
      /\ seeder' \subseteq Ids \X Contents
  BY DEF DeleteBegin, DeleteRefused, DeleteEntry, DeleteSeeder, DeleteTorrent,
         TypeOK, disk
<1>2. budget' \in [Events -> Nat]
  BY SpendType DEF DeleteBegin, DeleteRefused, DeleteEntry, DeleteSeeder,
                   DeleteTorrent, TypeOK, Events
<1>3. /\ images' \in [Ids -> Entry \cup {None}]
      /\ torrents' \in [Ids -> Contents \cup {None}]
      /\ \A i \in Ids : images'[i] # None => images'[i] = images[i]
  BY DEF DeleteBegin, DeleteRefused, DeleteEntry, DeleteSeeder, DeleteTorrent,
         TypeOK, disk
<1>4. delete' \in DeleteType /\ (delete'.pc # "idle" => delete'.id \in Ids)
  <2>1. ASSUME NEW i \in Ids, DeleteBegin(i) PROVE <1>4!1 /\ <1>4!2
    BY <2>1, RestTypes DEF DeleteBegin, NoDelete, DeleteType, TypeOK
  <2>2. CASE DeleteRefused \/ DeleteTorrent
    BY <2>2, RestTypes DEF DeleteRefused, DeleteTorrent, NoDelete
  <2>3. CASE DeleteEntry
    <3>1. images[delete.id] \in Entry /\ delete.id \in Ids
      BY <2>3 DEF DeleteEntry, Located, TypeOK
    <3>2. images[delete.id].content \in Contents
      BY <3>1 DEF Entry
    <3>3. delete \in DeleteType
      BY DEF TypeOK
    <3> QED BY <2>3, <3>1, <3>2, <3>3 DEF DeleteEntry, DeleteType
  <2>4. CASE DeleteSeeder
    <3>1. delete \in DeleteType
      BY DEF TypeOK
    <3> QED BY <2>4, <3>1 DEF DeleteSeeder, DeleteType, Located
  <2> QED BY <2>1, <2>2, <2>3, <2>4
<1>5. TypeOK'
  BY <1>1, <1>2, <1>3, <1>4 DEF TypeOK
<1>6. \A i \in Ids : Quarantined(i)' => Quarantined(i) /\ images'[i] = images[i]
  BY <1>3 DEF Quarantined
<1>7. Safe'
  BY <1>1, <1>6 DEF Safe, QuarantineUnassigned, SweepExact, AssignedTo, Located
<1>8. Located' /\ Covered' /\ OwnerCovered' /\ VerifiedJobWasListed'
  BY <1>1, <1>4, OperatorFrame
<1> QED BY <1>5, <1>7, <1>8

\* A restart keeps it.
LEMMA RestartStep ==
    ASSUME Inductive, Restart
    PROVE  Inductive'
<1> USE DEF Inductive, Restart
<1>1. /\ refresh' \in RunType /\ refresh'.pc = "idle"
      /\ refresh'.owner = None /\ refresh'.gen = 0
      /\ delete' \in DeleteType /\ delete'.pc = "idle"
  BY RestTypes DEF NoRun, NoDelete
<1>2. \A s \in Slots : Over(s, "failed") \in JobType /\ Over(s, "failed").pc = "failed"
  BY OverType
<1>3. /\ jobs' \in [Slots -> JobType]
      /\ \A s \in Slots : /\ jobs'[s] = jobs[s] \/ jobs'[s].pc = "failed"
                          /\ jobs'[s].pc \in {"new", "done", "failed"}
  BY <1>2 DEF TypeOK
<1>4. seeder' \subseteq Ids \X Contents
  BY DEF Reseeded, TypeOK
<1>5. budget' \in [Events -> Nat]
  BY SpendType DEF Events
<1>6. TypeOK'
  BY <1>1, <1>3, <1>4, <1>5 DEF TypeOK, disk
<1>7. Safe'
  BY <1>1, SafeStutter DEF disk
<1>8. Located' /\ Covered' /\ OwnerCovered' /\ VerifiedJobWasListed'
  BY <1>1, <1>3 DEF Located, Covered, OwnerCovered, VerifiedJobWasListed, Waiting
<1> QED BY <1>6, <1>7, <1>8

----------------------------------------------------------------------------
(* The theorems.                                                           *)

\* Every step keeps the inductive invariant.
LEMMA NextInductive == Inductive /\ [Next]_vars => Inductive'
<1> SUFFICES ASSUME Inductive, [Next]_vars PROVE Inductive'
  OBVIOUS
<1>1. CASE UNCHANGED vars
  BY <1>1 DEF vars, disk, Inductive, TypeOK, Located, Safe, QuarantineUnassigned,
     SweepExact, Covered, OwnerCovered, VerifiedJobWasListed, Waiting,
     Quarantined, AssignedTo
<1>2. CASE Next
  BY <1>2, PublishSteps, WaitSteps, ListingSteps, ApplySteps, FireSteps,
     SweepSteps, EndSteps, FleetSteps, ReleaseSteps, DeleteSteps, RestartStep
     DEF Next, JobStep, RefreshStep, Fault
<1> QED BY <1>1, <1>2

\* The inductive invariant holds in every state of every behaviour.
THEOREM InductiveInvariant == Spec => []Inductive
  BY InitInductive, NextInductive, PTL DEF Spec

\* Every variable keeps the shape the code's records have.
THEOREM TypeCorrect == Spec => []TypeOK
<1>1. Inductive => TypeOK
  BY DEF Inductive
<1> QED BY <1>1, InductiveInvariant, PTL

\* No device is approved for an image whose quarantine is marked complete.
THEOREM QuarantineIsUnassigned == Spec => []QuarantineUnassigned
<1>1. Inductive => QuarantineUnassigned
  BY DEF Inductive, Safe
<1> QED BY <1>1, InductiveInvariant, PTL

\* A console job that reports a completed verification was in a listing taken
\* after its entry was saved.
THEOREM VerifiedMeansListed == Spec => []VerifiedJobWasListed
<1>1. Inductive => VerifiedJobWasListed
  BY DEF Inductive
<1> QED BY <1>1, InductiveInvariant, PTL

----------------------------------------------------------------------------
(* A completed quarantine is not seeded.  The origin serves the image again *)
(* after a release, and after a publication of the same image, so that the  *)
(* theorem is about behaviours without either.                              *)

\* No publish job works on an image that the catalog lists.
PublishesAbsent ==
    \A s \in Slots : jobs[s].pc \in {"torrent", "seed", "save"}
                        => images[jobs[s].id] = None

\* Nobody has released an image or publishes one again.
Undisturbed == release = None /\ PublishesAbsent

\* A sweep that has not failed took its image from the seeder.
SweepStopped ==
    refresh.pc \in {"affected", "sweep", "write"} /\ refresh.ok = TRUE
      /\ Quarantined(refresh.image)
        => <<refresh.image, images[refresh.image].content>> \notin seeder

Stopped == QuarantineStopsSeeding /\ SweepStopped

\* A step that starts no sweep, completes no quarantine and gives the seeder no
\* image that is listed.
LEMMA StoppedFrame ==
    ASSUME TypeOK, Located, Stopped,
           \/ refresh'.pc \notin {"affected", "sweep", "write"}
           \/ /\ refresh.pc \in {"affected", "sweep", "write"}
              /\ refresh'.image = refresh.image
              /\ refresh'.ok = TRUE => refresh.ok = TRUE,
           \A i \in Ids : Quarantined(i)' =>
              /\ Quarantined(i)
              /\ images'[i].content = images[i].content
              /\ images'[i].complete => images[i].complete
              /\ <<i, images[i].content>> \in seeder'
                    => <<i, images[i].content>> \in seeder
    PROVE  Stopped'
<1>1. QuarantineStopsSeeding'
  BY DEF Stopped, QuarantineStopsSeeding
<1>2. SweepStopped'
  BY DEF Stopped, SweepStopped, Located
<1> QED BY <1>1, <1>2 DEF Stopped

\* Nothing is seeded at first.
LEMMA InitStopped == Init => Stopped
  BY DEF Init, Stopped, QuarantineStopsSeeding, SweepStopped, NoRun

\* What publishes, waits, assigns, deletes or registers.
LEMMA OutsideStopped ==
    ASSUME Inductive, Undisturbed, Stopped, refresh' = refresh,
           \/ \E s \in Slots, k \in Kinds, i \in Ids, c \in Contents :
                 PublishBegin(s, k, i, c)
           \/ \E s \in Slots : \/ JobStep(s) \/ WaitTimeout(s) \/ PublishFault(s)
           \/ \E d \in Devices, ids \in SUBSET Ids : Assign(d, ids)
           \/ \E i \in Ids : DeleteBegin(i)
           \/ DeleteRefused \/ DeleteEntry \/ DeleteSeeder \/ DeleteTorrent
           \/ \E d \in Devices : RetireDevice(d) \/ RegisterDevice(d)
    PROVE  Stopped'
<1> USE DEF Inductive
<1>1. ASSUME UNCHANGED images, seeder' \subseteq seeder PROVE Stopped'
  BY <1>1, StoppedFrame DEF Quarantined
<1>2. ASSUME NEW s \in Slots, Seed(s) PROVE Stopped'
  <2>1. /\ images' = images /\ images[jobs[s].id] = None
        /\ seeder' = seeder \cup {<<jobs[s].id, torrents[jobs[s].id]>>}
    BY <1>2 DEF Seed, Undisturbed, PublishesAbsent, disk
  <2>2. \A i \in Ids : Quarantined(i)' => Quarantined(i) /\ i # jobs[s].id
    BY <2>1 DEF Quarantined
  <2> QED BY <2>1, <2>2, StoppedFrame
<1>3. ASSUME NEW s \in Slots, SaveImage(s) PROVE Stopped'
  <2>1. seeder' = seeder
    BY <1>3 DEF SaveImage
  <2>2. \A i \in Ids : Quarantined(i)' =>
           Quarantined(i) /\ images'[i] = images[i]
    BY <1>3 DEF SaveImage, Quarantined, PublishedEntry, TypeOK
  <2> QED BY <2>1, <2>2, StoppedFrame
<1>4. CASE DeleteEntry
  <2>1. /\ seeder' = seeder
        /\ \A i \in Ids : Quarantined(i)' =>
              Quarantined(i) /\ images'[i] = images[i]
    BY <1>4 DEF DeleteEntry, Quarantined, TypeOK
  <2> QED BY <2>1, StoppedFrame
<1>5. CASE \/ \E s \in Slots, k \in Kinds, i \in Ids, c \in Contents :
                 PublishBegin(s, k, i, c)
           \/ \E s \in Slots : \/ MakeTorrent(s) \/ SeedLost(s) \/ Register(s)
                               \/ WaitCovered(s) \/ WaitRun(s) \/ WaitTimeout(s)
                               \/ PublishFault(s)
  BY <1>1, <1>5 DEF PublishBegin, MakeTorrent, SeedLost, Register, WaitCovered,
                    WaitRun, WaitTimeout, PublishFault, disk
<1>6. CASE \/ \E d \in Devices, ids \in SUBSET Ids : Assign(d, ids)
           \/ \E i \in Ids : DeleteBegin(i)
           \/ DeleteRefused \/ DeleteSeeder \/ DeleteTorrent
           \/ \E d \in Devices : RetireDevice(d) \/ RegisterDevice(d)
  BY <1>1, <1>6 DEF Assign, DeleteBegin, DeleteRefused, DeleteSeeder,
                    DeleteTorrent, RetireDevice, RegisterDevice, disk
<1> QED BY <1>2, <1>3, <1>4, <1>5, <1>6 DEF JobStep

\* The run, up to and after its sweeps.
LEMMA RunStopped ==
    ASSUME Inductive, Stopped,
           \/ \E s \in Slots : WaitRun(s)
           \/ RefreshStart \/ RefreshStep
           \/ (\E i \in Ids : FireStopFault(i)) \/ SweepFault \/ RefreshFault
    PROVE  Stopped'
<1> USE DEF Inductive
<1>1. ASSUME UNCHANGED images, seeder' \subseteq seeder,
             refresh'.pc \notin {"affected", "sweep", "write"}
      PROVE  Stopped'
  BY <1>1, StoppedFrame DEF Quarantined
<1>2. CASE \/ \E s \in Slots : WaitRun(s)
           \/ RefreshStart \/ (\E feed \in Feeds : RefreshStamp(feed))
           \/ RefreshList \/ ApplyVerdicts \/ RefreshEnd \/ RefreshFault
  <2>1. UNCHANGED images /\ seeder' = seeder
    BY <1>2 DEF WaitRun, RefreshStart, RefreshStamp, RefreshList, ApplyVerdicts,
                RefreshEnd, RefreshFault, disk
  <2>2. refresh'.pc \in {"fetch", "list", "apply", "fire", "idle"}
    <3>0. NoRun \in RunType /\ NoRun.pc = "idle"
      BY RestTypes DEF NoRun
    <3>1. CASE (\E s \in Slots : WaitRun(s)) \/ RefreshStart
      BY <3>0, <3>1 DEF WaitRun, RefreshStart, RunType
    <3>4. CASE RefreshEnd \/ RefreshFault
      BY <3>0, <3>4 DEF RefreshEnd, RefreshFault
    <3>2. CASE (\E feed \in Feeds : RefreshStamp(feed)) \/ ApplyVerdicts
      BY <3>2 DEF RefreshStamp, ApplyVerdicts, TypeOK, RunType
    <3>3. CASE RefreshList
      BY <3>3 DEF RefreshList, TypeOK, RunType
    <3> QED BY <1>2, <3>1, <3>2, <3>3, <3>4
  <2> QED BY <1>1, <2>1, <2>2
<1>3. CASE ApplyCatalog
  <2>1. refresh'.pc = "verdicts" /\ seeder' = seeder
    BY <1>3 DEF ApplyCatalog, TypeOK, RunType
  <2>2. ASSUME NEW i \in Ids, Quarantined(i)', images'[i].complete = TRUE
        PROVE  /\ Quarantined(i) /\ images[i].complete = TRUE
               /\ images'[i].content = images[i].content
    <3>1. CASE i \in Touched
      <4>1. images[i] \in Entry /\ images[i] # None
        BY <3>1 DEF Touched, TypeOK
      <4>2. images'[i] = Applied(images[i], refresh.found[i])
        BY <1>3, <3>1 DEF ApplyCatalog
      <4>3. images'[i] # None /\ images'[i].quarantined = TRUE
        BY <2>2 DEF Quarantined
      <4> QED BY <2>2, <4>1, <4>2, <4>3 DEF Applied, Entry, Quarantined
    <3>2. CASE i \notin Touched
      BY <1>3, <2>2, <3>2 DEF ApplyCatalog, Quarantined
    <3> QED BY <3>1, <3>2
  <2>3. QuarantineStopsSeeding'
    <3> SUFFICES ASSUME NEW i \in Ids, Quarantined(i)', images'[i].complete
                 PROVE  <<i, images'[i].content>> \notin seeder'
      BY DEF QuarantineStopsSeeding
    <3>1. images'[i].complete = TRUE
      BY DEF TypeOK, Entry, Quarantined
    <3> QED BY <2>1, <2>2, <3>1 DEF Stopped, QuarantineStopsSeeding
  <2> QED BY <2>1, <2>3 DEF Stopped, SweepStopped
<1>4. ASSUME NEW i \in Ids, FireGone(i) PROVE Stopped'
  BY <1>1, <1>4 DEF FireGone, disk, TypeOK, RunType
<1>5. ASSUME NEW i \in Ids, FireStop(i) \/ FireStopFault(i) PROVE Stopped'
  <2>1. /\ images' = images /\ refresh'.pc = "affected" /\ refresh'.image = i
        /\ seeder' \subseteq seeder
        /\ refresh'.ok = TRUE => <<i, images[i].content>> \notin seeder'
    BY <1>5 DEF FireStop, FireStopFault, disk, TypeOK, RunType
  <2>2. QuarantineStopsSeeding'
    BY <2>1 DEF Stopped, QuarantineStopsSeeding, Quarantined
  <2>3. SweepStopped'
    BY <2>1 DEF SweepStopped
  <2> QED BY <2>2, <2>3 DEF Stopped
<1>6. CASE \/ FireAffected \/ (\E d \in Devices : SweepRead(d))
           \/ SweepWrite \/ SweepRefused \/ SweepFault
  <2>1. /\ images' = images /\ seeder' = seeder
        /\ refresh.pc \in {"affected", "sweep", "write"}
        /\ refresh'.image = refresh.image
        /\ refresh'.ok = TRUE => refresh.ok = TRUE
    BY <1>6 DEF FireAffected, SweepRead, SweepWrite, SweepRefused, SweepFault,
                SweepFailed, disk, TypeOK, RunType
  <2> QED BY <2>1, StoppedFrame DEF Quarantined
<1>7. CASE FireEnd
  <2>1. /\ seeder' = seeder /\ refresh'.pc = "fire" /\ refresh.pc = "sweep"
        /\ refresh.image \in Ids /\ refresh.ok \in BOOLEAN
    BY <1>7 DEF FireEnd, TypeOK, RunType, Located
  <2>2. \A i \in Ids : Quarantined(i)' =>
           /\ Quarantined(i) /\ images'[i].content = images[i].content
           /\ \/ images'[i] = images[i]
              \/ i = refresh.image /\ refresh.ok = TRUE
    BY <1>7, <2>1 DEF FireEnd, Quarantined, TypeOK, Entry
  <2>3. QuarantineStopsSeeding'
    BY <2>1, <2>2 DEF Stopped, QuarantineStopsSeeding, SweepStopped
  <2> QED BY <2>1, <2>3 DEF Stopped, SweepStopped
<1> QED BY <1>2, <1>3, <1>4, <1>5, <1>6, <1>7 DEF RefreshStep

\* A restart seeds what the catalog authorizes.
LEMMA RestartStopped ==
    ASSUME Inductive, Stopped, Restart
    PROVE  Stopped'
<1>1. \A i \in Ids : Quarantined(i)' =>
         Quarantined(i) /\ \A c : <<i, c>> \notin seeder'
  BY DEF Restart, Reseeded, Quarantined, disk
<1>2. refresh'.pc = "idle"
  BY DEF Restart, NoRun
<1> QED BY <1>1, <1>2 DEF Stopped, QuarantineStopsSeeding, SweepStopped

\* Every undisturbed step keeps a stopped image stopped.
LEMMA NextStopped ==
    Inductive /\ Undisturbed /\ Undisturbed' /\ Stopped /\ [Next]_vars => Stopped'
<1> SUFFICES ASSUME Inductive, Undisturbed, Undisturbed', Stopped, [Next]_vars
             PROVE  Stopped'
  OBVIOUS
<1>1. CASE UNCHANGED vars
  BY <1>1 DEF vars, disk, Stopped, QuarantineStopsSeeding, SweepStopped,
              Quarantined
<1>2. ASSUME NEW i \in Ids, NEW override \in BOOLEAN, Release(i, override)
      PROVE  FALSE
  BY <1>2, NoneAssumption DEF Release, Undisturbed
<1>3. ~Resume
  BY DEF Resume, Undisturbed
<1>4. CASE Next
  <2>1. ASSUME NEW s \in Slots, JobStep(s), ~WaitRun(s)
        PROVE  refresh' = refresh
    BY <2>1 DEF JobStep, MakeTorrent, Seed, SeedLost, SaveImage, Register,
                WaitCovered
  <2>2. CASE \E s \in Slots : JobStep(s)
    BY <2>1, <2>2, OutsideStopped, RunStopped
  <2>3. CASE \/ \E s \in Slots, k \in Kinds, i \in Ids, c \in Contents :
                   PublishBegin(s, k, i, c)
             \/ \E s \in Slots : WaitTimeout(s) \/ PublishFault(s)
             \/ \E d \in Devices, ids \in SUBSET Ids : Assign(d, ids)
             \/ \E i \in Ids : DeleteBegin(i)
             \/ DeleteRefused \/ DeleteEntry \/ DeleteSeeder \/ DeleteTorrent
             \/ \E d \in Devices : RetireDevice(d) \/ RegisterDevice(d)
    <3>1. refresh' = refresh
      BY <2>3 DEF PublishBegin, WaitTimeout, PublishFault, Assign, DeleteBegin,
                  DeleteRefused, DeleteEntry, DeleteSeeder, DeleteTorrent,
                  RetireDevice, RegisterDevice
    <3> QED BY <2>3, <3>1, OutsideStopped
  <2>4. CASE \/ RefreshStart \/ RefreshStep
             \/ (\E i \in Ids : FireStopFault(i)) \/ SweepFault \/ RefreshFault
    BY <2>4, RunStopped
  <2>5. CASE Restart
    BY <2>5, RestartStopped
  <2> QED BY <1>2, <1>3, <1>4, <2>2, <2>3, <2>4, <2>5 DEF Next, Fault
<1> QED BY <1>1, <1>4

\* While nobody releases an image or publishes it again, the origin does not
\* serve an image whose quarantine is marked complete.
THEOREM QuarantineIsNotSeeded ==
    Spec /\ []Undisturbed => []QuarantineStopsSeeding
<1>1. Stopped => QuarantineStopsSeeding
  BY DEF Stopped
<1> QED BY <1>1, InductiveInvariant, InitStopped, NextStopped, PTL DEF Spec

\* start_publish works on one job for an image at a time.
OneJobEach ==
    /\ \A s, t \in Slots : s # t /\ jobs[s].id # None => jobs[t].id # jobs[s].id
    /\ \A s \in Slots : jobs[s].id # None => jobs[s].kind = "console"

\* Steps of the jobs that save no entry and take no new image.
LEMMA AbsentFrame ==
    ASSUME Inductive, PublishesAbsent, OneJobEach,
           \A i \in Ids : images[i] = None => images'[i] = None,
           \A s \in Slots : \/ jobs'[s].id = None /\ jobs'[s].pc \notin
                                  {"torrent", "seed", "save"}
                            \/ /\ jobs'[s].id = jobs[s].id
                               /\ jobs'[s].kind = jobs[s].kind
                               /\ jobs'[s].pc \in {"torrent", "seed", "save"}
                                    => jobs[s].pc \in {"torrent", "seed", "save"}
    PROVE  PublishesAbsent' /\ OneJobEach'
<1>1. PublishesAbsent'
  BY DEF Inductive, Located, PublishesAbsent
<1>2. OneJobEach'
  BY DEF OneJobEach
<1> QED BY <1>1, <1>2

\* Where every job is a console's, each step keeps both.
LEMMA NextAbsent ==
    ASSUME Kinds \subseteq {"console"}, Inductive, PublishesAbsent, OneJobEach,
           [Next]_vars
    PROVE  PublishesAbsent' /\ OneJobEach'
<1> USE DEF Inductive
<1>0. \A s \in Slots : \A pc : /\ Over(s, pc).id = None
                               /\ Over(s, pc).pc = pc
  BY DEF Over, NoJob
<1>1. ASSUME jobs' = jobs, \A i \in Ids : images[i] = None => images'[i] = None
      PROVE  PublishesAbsent' /\ OneJobEach'
  BY <1>1, AbsentFrame
<1>2. ASSUME images' = images, NEW s \in Slots,
             NEW pc \in {"seed", "save", "register", "wait", "running"},
             jobs[s].pc \in {"torrent", "seed", "save"} \/ pc \in {"wait", "running"},
             jobs'[s].pc = pc, jobs'[s].id = jobs[s].id,
             jobs'[s].kind = jobs[s].kind,
             \A t \in Slots : t # s => jobs'[t] = jobs[t]
      PROVE  PublishesAbsent' /\ OneJobEach'
  BY <1>2, AbsentFrame
<1>3. ASSUME images' = images, NEW s \in Slots, NEW pc \in {"done", "failed"},
             Finished(s, pc)
      PROVE  PublishesAbsent' /\ OneJobEach'
  <2>1. /\ jobs'[s].id = None /\ jobs'[s].pc = pc
        /\ \A t \in Slots : t # s => jobs'[t] = jobs[t]
    BY <1>0, <1>3 DEF Finished, TypeOK
  <2> QED BY <1>3, <2>1, AbsentFrame
<1>4. ASSUME NEW s \in Slots, NEW k \in Kinds, NEW i \in Ids, NEW c \in Contents,
             PublishBegin(s, k, i, c)
      PROVE  PublishesAbsent' /\ OneJobEach'
  <2>1. /\ images' = images /\ images[i] = None /\ Publishing(i) = {}
        /\ jobs'[s].id = i /\ jobs'[s].kind = "console"
        /\ \A t \in Slots : t # s => jobs'[t] = jobs[t]
    BY <1>4 DEF PublishBegin, TypeOK, disk
  <2>2. \A t \in Slots : jobs[t].id # i
    BY <2>1, NoneAssumption DEF Publishing, OneJobEach
  <2>3. PublishesAbsent'
    BY <2>1 DEF PublishesAbsent
  <2>4. OneJobEach'
    BY <2>1, <2>2 DEF OneJobEach
  <2> QED BY <2>3, <2>4
<1>5. ASSUME NEW s \in Slots, SaveImage(s) PROVE PublishesAbsent' /\ OneJobEach'
  <2>1. jobs[s].id \in Ids
    BY <1>5 DEF SaveImage, Located
  <2>2. /\ jobs'[s].pc \notin {"torrent", "seed", "save"}
        /\ \/ jobs'[s].id = None
           \/ jobs'[s].id = jobs[s].id /\ jobs'[s].kind = jobs[s].kind
        /\ \A t \in Slots : t # s => jobs'[t] = jobs[t]
    BY <1>0, <1>5, MovedJob, FinishedJob DEF SaveImage, Finished, TypeOK
  <2>3. \A i \in Ids : i # jobs[s].id => images'[i] = images[i]
    BY <1>5 DEF SaveImage, TypeOK
  <2>4. \A t \in Slots : t # s => jobs[t].id # jobs[s].id
    BY <2>1, NoneAssumption DEF OneJobEach
  <2>5. PublishesAbsent'
    BY <2>2, <2>3, <2>4 DEF PublishesAbsent, Located
  <2>6. OneJobEach'
    BY <2>2 DEF OneJobEach
  <2> QED BY <2>5, <2>6
<1>6. ASSUME NEW s \in Slots, JobStep(s) \/ WaitTimeout(s) \/ PublishFault(s)
      PROVE  PublishesAbsent' /\ OneJobEach'
  <2>1. CASE MakeTorrent(s)
    BY <1>2, <2>1, MovedJob DEF MakeTorrent
  <2>2. CASE Seed(s)
    BY <1>2, <2>2, MovedJob DEF Seed, disk
  <2>3. CASE Register(s)
    <3>1. /\ images' = images /\ jobs'[s].pc = "wait" /\ jobs'[s].id = jobs[s].id
          /\ jobs'[s].kind = jobs[s].kind
          /\ \A t \in Slots : t # s => jobs'[t] = jobs[t]
      BY <2>3 DEF Register, TypeOK, JobType, disk
    <3> QED BY <1>2, <3>1
  <2>4. CASE WaitRun(s)
    <3>1. /\ images' = images /\ jobs'[s].pc = "running"
          /\ jobs'[s].id = jobs[s].id /\ jobs'[s].kind = jobs[s].kind
          /\ \A t \in Slots : t # s => jobs'[t] = jobs[t]
      BY <2>4 DEF WaitRun, To, TypeOK, JobType, disk
    <3> QED BY <1>2, <3>1
  <2>5. CASE SeedLost(s) \/ WaitCovered(s) \/ WaitTimeout(s) \/ PublishFault(s)
    BY <1>3, <2>5 DEF SeedLost, WaitCovered, WaitTimeout, PublishFault, disk
  <2> QED BY <1>5, <1>6, <2>1, <2>2, <2>3, <2>4, <2>5 DEF JobStep
<1>7. CASE ApplyCatalog \/ FireEnd
  <2>1. jobs' = jobs
    BY <1>7 DEF ApplyCatalog, FireEnd
  <2>2. \A i \in Ids : images[i] = None => images'[i] = None
    BY <1>7 DEF ApplyCatalog, FireEnd, Touched, Quarantined, TypeOK
  <2> QED BY <1>1, <2>1, <2>2
<1>8. CASE RefreshEnd \/ RefreshFault
  <2>1. images' = images
    BY <1>8 DEF RefreshEnd, RefreshFault, disk
  <2>2. \A s \in Slots : \/ jobs'[s] = jobs[s]
                         \/ \E pc \in {"done", "failed"} : jobs'[s] = Over(s, pc)
    BY <1>8 DEF RefreshEnd, RefreshFault, Answered, TypeOK
  <2> QED BY <1>0, <2>1, <2>2, AbsentFrame
<1>9. CASE Restart
  <2>1. images' = images
    BY <1>9 DEF Restart, disk
  <2>2. \A s \in Slots : jobs'[s] = jobs[s] \/ jobs'[s] = Over(s, "failed")
    BY <1>9 DEF Restart
  <2> QED BY <1>0, <2>1, <2>2, AbsentFrame
<1>10. CASE \/ \E i \in Ids, override \in BOOLEAN : Release(i, override)
            \/ DeleteEntry
  <2>1. jobs' = jobs
    BY <1>10 DEF Release, DeleteEntry
  <2>2. \A i \in Ids : images[i] = None => images'[i] = None
    BY <1>10 DEF Release, DeleteEntry, Quarantined, TypeOK
  <2> QED BY <1>1, <2>1, <2>2
<1>11. CASE UNCHANGED <<images, jobs>>
  BY <1>1, <1>11
<1>12. ASSUME Next
       PROVE  \/ UNCHANGED <<images, jobs>>
              \/ \E s \in Slots, k \in Kinds, i \in Ids, c \in Contents :
                    PublishBegin(s, k, i, c)
              \/ \E s \in Slots : JobStep(s) \/ WaitTimeout(s) \/ PublishFault(s)
              \/ ApplyCatalog \/ FireEnd \/ RefreshEnd \/ RefreshFault \/ Restart
              \/ \E i \in Ids, override \in BOOLEAN : Release(i, override)
              \/ DeleteEntry
  <2>1. CASE \/ RefreshStart \/ \E feed \in Feeds : RefreshStamp(feed)
             \/ RefreshList \/ ApplyVerdicts
             \/ \E i \in Ids : FireGone(i) \/ FireStop(i) \/ FireStopFault(i)
             \/ FireAffected \/ SweepWrite \/ SweepRefused \/ SweepFault
             \/ \E d \in Devices : SweepRead(d)
    BY <2>1 DEF RefreshStart, RefreshStamp, RefreshList, ApplyVerdicts, FireGone,
                FireStop, FireStopFault, FireAffected, SweepWrite, SweepRefused,
                SweepFault, SweepRead, disk
  <2>2. CASE \/ \E d \in Devices, ids \in SUBSET Ids : Assign(d, ids)
             \/ Resume \/ \E i \in Ids : DeleteBegin(i)
             \/ DeleteRefused \/ DeleteSeeder \/ DeleteTorrent
             \/ \E d \in Devices : RetireDevice(d) \/ RegisterDevice(d)
    BY <2>2 DEF Assign, Resume, DeleteBegin, DeleteRefused, DeleteSeeder,
                DeleteTorrent, RetireDevice, RegisterDevice, disk
  <2> QED BY <1>12, <2>1, <2>2 DEF Next, RefreshStep, Fault
<1> QED BY <1>4, <1>6, <1>7, <1>8, <1>9, <1>10, <1>11, <1>12 DEF vars, disk

\* Where images are published from the console alone, start_publish keeps a job
\* from an image that is listed, and a completed quarantine stays unseeded until
\* somebody releases an image.
THEOREM ConsoleQuarantineIsNotSeeded ==
    ASSUME Kinds \subseteq {"console"}
    PROVE  Spec /\ [](release = None) => []QuarantineStopsSeeding
<1>1. Init => PublishesAbsent /\ OneJobEach
  BY DEF Init, PublishesAbsent, OneJobEach, NoJob
<1>2. Inductive /\ PublishesAbsent /\ OneJobEach /\ [Next]_vars
         => PublishesAbsent' /\ OneJobEach'
  BY NextAbsent
<1>3. release = None /\ PublishesAbsent => Undisturbed
  BY DEF Undisturbed
<1> QED BY <1>1, <1>2, <1>3, InductiveInvariant, QuarantineIsNotSeeded, PTL
        DEF Spec

=============================================================================
