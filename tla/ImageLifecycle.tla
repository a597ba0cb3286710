--------------------------- MODULE ImageLifecycle ---------------------------
(***************************************************************************)
(* An image from its publication to its deletion: server/publish.py and    *)
(* server/gui_images.py write the torrent, the seeder and the catalog      *)
(* entry; server/bulkhash_refresh.py compares every entry with Cisco's     *)
(* hash feed; server/catalog.py applies the verdicts, quarantines and      *)
(* releases images; server/reseed_input.py decides what a restart seeds.   *)
(*                                                                         *)
(* One refresh runs at a time.  It lists the catalog, applies its verdicts *)
(* in two durable writes under the image-policy and catalog locks, and     *)
(* then, outside of them, stops the seeder and unassigns the quarantined   *)
(* images device by device.  save_image takes the catalog lock alone,      *)
(* set_policy the image-policy lock alone; seeder calls take no lock.      *)
(*                                                                         *)
(* A content stands for the bytes of a file, its digests and, together     *)
(* with the image id, its info hash.  Of a feed a model sees the rows that *)
(* an image's file name and size select.                                   *)
(***************************************************************************)
EXTENDS Integers

CONSTANTS
    Ids,        \* image ids
    Contents,   \* what an image file may hold
    Devices,
    Slots,      \* publish jobs, each used once
    Kinds,      \* how they are started: "console" or "cli"
    Feeds,      \* the hash feeds a run may fetch
    Limits,     \* bounds: the mixes of outside events a behaviour may see
    None        \* model value: an absent value

Events == {"assign", "release", "delete", "fleet", "fault", "restart"}

FeedRow == [sha : Contents, deferral : BOOLEAN]

ASSUME KindAssumption == Kinds \subseteq {"console", "cli"}
ASSUME FeedAssumption == Feeds \subseteq [Ids -> SUBSET FeedRow]
ASSUME BoundAssumption == Limits \subseteq [Events -> Nat]

HashStates == {"unchecked", "verified", "mismatch", "not_in_feed"}

\* A catalog entry: the reconciler's verdict, the quarantine, whether its
\* actions are complete, and the feed hash an operator's override accepted.
Entry == [content : Contents, state : HashStates, quarantined : BOOLEAN,
          complete : BOOLEAN, acked : Contents \cup {None}]

Verdict == [state : HashStates, sha : Contents \cup {None}, deferral : BOOLEAN]

ASSUME NoneAssumption ==
    /\ None \notin Entry \cup Verdict \cup Contents
    /\ None \notin Ids \cup Devices \cup Slots
    /\ None \notin Kinds /\ None \notin Feeds

VARIABLES
    images,     \* catalog.json: the entry of each image, or None
    verdicts,   \* hash_verdicts.json: the feed hash stored for each image
    torrents,   \* the torrent files on disk
    seeder,     \* what the origin seeder serves: info hashes <<id, content>>
    policy,     \* the images approved for each device
    fleet,      \* the registered devices
    refresh,    \* the one refresh run: program counter and locals
    waits,      \* _WAIT_GENERATION and the generation last covered
    jobs,       \* the publish jobs
    release,    \* release_quarantine after its writes: the image to seed again
    delete,     \* ImageService.delete_image: program counter and locals
    budget,     \* outside events so far, see Limits
    confirmed   \* history: jobs whose entry was saved before a run that
                \* succeeded listed the catalog

disk == <<images, verdicts, torrents, policy, fleet>>
vars == <<disk, seeder, refresh, waits, jobs, release, delete, budget,
          confirmed>>

----------------------------------------------------------------------------

NoRun == [pc |-> "idle", owner |-> None, gen |-> 0, feed |-> None,
          found |-> [i \in Ids |-> None], todo |-> {}, image |-> None,
          devices |-> {}, device |-> None, keep |-> {}, ok |-> TRUE,
          listed |-> {}]

NoJob ==
    [pc |-> "new", kind |-> None, id |-> None, content |-> None, gen |-> 0]

NoDelete == [pc |-> "idle", id |-> None, content |-> None, live |-> {}]

Init ==
    /\ images = [i \in Ids |-> None]
    /\ verdicts = [i \in Ids |-> None]
    /\ torrents = [i \in Ids |-> None]
    /\ seeder = {}
    /\ policy = [d \in Devices |-> {}]
    /\ fleet \in SUBSET Devices
    /\ refresh = NoRun
    /\ waits = [registered |-> 0, covered |-> 0]
    /\ jobs = [s \in Slots |-> NoJob]
    /\ release = None
    /\ delete = NoDelete
    /\ budget = [e \in Events |-> 0]
    /\ confirmed = {}

Spend(e) ==
    /\ budget' = [budget EXCEPT ![e] = @ + 1]
    /\ \E mix \in Limits : \A f \in Events : budget'[f] <= mix[f]

\* Only the two writes of apply_hash_verification hold the image-policy and
\* catalog locks over more than one step.
LocksFree == refresh.pc # "verdicts"

Quarantined(i) == IF images[i] = None THEN FALSE ELSE images[i].quarantined

----------------------------------------------------------------------------
(* publish(): torrent, seeder, catalog; then a console job's verification. *)

\* Mutant: the entry is saved before its digests are known.
PublishedEntry_Unhashed(content) ==
    [content |-> None, state |-> "unchecked", quarantined |-> FALSE,
     complete |-> FALSE, acked |-> None]

\* The entry publish() builds says nothing of an earlier verdict.
PublishedEntry(content) ==
    [content |-> content, state |-> "unchecked", quarantined |-> FALSE,
     complete |-> FALSE, acked |-> None]

\* _publishing: the jobs a console job for the same image must not join.
Publishing(id) ==
    {s \in Slots : jobs[s].kind = "console" /\ jobs[s].id = id}

\* start_publish refuses an image that exists or is being published; the
\* iris-publish command, in a process of its own, asks nothing.
PublishBegin(s, kind, id, content) ==
    /\ jobs[s].pc = "new"
    /\ kind = "console" => images[id] = None /\ Publishing(id) = {}
    /\ jobs' = [jobs EXCEPT ![s] = [pc |-> "torrent", kind |-> kind, id |-> id,
                                    content |-> content, gen |-> 0]]
    /\ UNCHANGED <<disk, seeder, refresh, waits, release, delete, budget,
                   confirmed>>

To(s, pc) == jobs' = [jobs EXCEPT ![s].pc = pc]

\* The job is over; its kind is all that is remembered.
Over(s, pc) == [NoJob EXCEPT !.pc = pc, !.kind = jobs[s].kind]
Finished(s, pc) == jobs' = [jobs EXCEPT ![s] = Over(s, pc)]

MakeTorrent(s) ==
    /\ jobs[s].pc = "torrent"
    /\ torrents' = [torrents EXCEPT ![jobs[s].id] = jobs[s].content]
    /\ To(s, "seed")
    /\ UNCHANGED <<images, verdicts, policy, fleet, seeder, refresh, waits,
                   release, delete, budget, confirmed>>

\* The torrent file is read again for the seeder: whatever it holds by now.
Seed(s) ==
    LET id == jobs[s].id IN
    /\ jobs[s].pc = "seed"
    /\ torrents[id] # None
    /\ seeder' = seeder \cup {<<id, torrents[id]>>}
    /\ To(s, "save")
    /\ UNCHANGED <<disk, refresh, waits, release, delete, budget, confirmed>>

SaveImage(s) ==
    /\ jobs[s].pc = "save"
    /\ LocksFree
    /\ images' = [images EXCEPT
                    ![jobs[s].id] = PublishedEntry(jobs[s].content)]
    /\ IF jobs[s].kind = "console" THEN To(s, "register")
       ELSE Finished(s, "done")
    /\ UNCHANGED <<verdicts, torrents, policy, fleet, seeder, refresh, waits,
                   release, delete, budget, confirmed>>

\* The torrent has gone: publish() fails and removes what is left.
SeedLost(s) ==
    /\ jobs[s].pc = "seed"
    /\ torrents[jobs[s].id] = None
    /\ Finished(s, "failed")
    /\ UNCHANGED <<disk, seeder, refresh, waits, release, delete, budget,
                   confirmed>>

\* mktorrent, the seeder or the catalog write fails: the torrent is removed.
PublishFault(s) ==
    /\ jobs[s].pc \in {"torrent", "seed", "save"}
    /\ Spend("fault")
    /\ torrents' = [torrents EXCEPT ![jobs[s].id] = None]
    /\ Finished(s, "failed")
    /\ UNCHANGED <<images, verdicts, policy, fleet, seeder, refresh, waits,
                   release, delete, confirmed>>

\* run_refresh(wait=True): register, after the entry is durable.
Register(s) ==
    /\ jobs[s].pc = "register"
    /\ waits' = [waits EXCEPT !.registered = @ + 1]
    /\ jobs' = [jobs EXCEPT ![s] = [@ EXCEPT !.pc = "wait",
                                             !.gen = waits.registered + 1]]
    /\ UNCHANGED <<disk, seeder, refresh, release, delete, budget, confirmed>>

\* A successful run that listed the catalog since the registration is enough.
WaitCovered(s) ==
    /\ jobs[s].pc = "wait"
    /\ waits.covered >= jobs[s].gen
    /\ Finished(s, "done")
    /\ UNCHANGED <<disk, seeder, refresh, waits, release, delete, budget,
                   confirmed>>

\* Otherwise the job takes the next run itself.
WaitRun(s) ==
    /\ jobs[s].pc = "wait"
    /\ waits.covered < jobs[s].gen
    /\ refresh.pc = "idle"
    /\ refresh' = [NoRun EXCEPT !.pc = "fetch", !.owner = s]
    /\ To(s, "running")
    /\ UNCHANGED <<disk, seeder, waits, release, delete, budget, confirmed>>

\* wait_timeout, looked at first by a waiter that wakes up: published, but not
\* verified.
WaitTimeout(s) ==
    /\ jobs[s].pc = "wait"
    /\ Finished(s, "failed")
    /\ UNCHANGED <<disk, seeder, refresh, waits, release, delete, budget,
                   confirmed>>

----------------------------------------------------------------------------
(* run_refresh.                                                            *)

\* bulkhash_refresh_loop at its slot, or an operator's "Refresh now".
RefreshStart ==
    /\ refresh.pc = "idle"
    /\ refresh' = [NoRun EXCEPT !.pc = "fetch"]
    /\ UNCHANGED <<disk, seeder, waits, jobs, release, delete, budget,
                   confirmed>>

\* A feed is fetched, verified and parsed; mark_snapshot precedes the listing.
RefreshStamp(feed) ==
    /\ refresh.pc = "fetch"
    /\ refresh' = [refresh EXCEPT !.pc = "list", !.gen = waits.registered,
                                  !.feed = feed]
    /\ UNCHANGED <<disk, seeder, waits, jobs, release, delete, budget,
                   confirmed>>

\* reconcile: any row that agrees verifies the image; otherwise one of the rows
\* stands for the mismatch.
Reconcile(rows, content) ==
    LET match == {r \in rows : r.sha = content} IN
    IF rows = {}
    THEN {[state |-> "not_in_feed", sha |-> None, deferral |-> FALSE]}
    ELSE IF match # {}
    THEN {[state |-> "verified", sha |-> r.sha, deferral |-> r.deferral] :
            r \in match}
    ELSE {[state |-> "mismatch", sha |-> r.sha, deferral |-> r.deferral] :
            r \in rows}

\* A job whose entry has been saved.
Saved(s) == jobs[s].pc \in {"register", "wait", "running"}

VerdictsOf(i) == IF images[i] = None THEN {None}
                 ELSE Reconcile(refresh.feed[i], images[i].content)

\* list_images and reconcile: one verdict for every image listed.
RefreshList ==
    /\ refresh.pc = "list"
    /\ \E found \in [Ids -> UNION {VerdictsOf(i) : i \in Ids}] :
         /\ \A i \in Ids : found[i] \in VerdictsOf(i)
         /\ refresh' = [refresh EXCEPT !.pc = "apply", !.found = found,
                                       !.feed = None,
                                       !.listed = {s \in Slots : Saved(s)}]
    /\ UNCHANGED <<disk, seeder, waits, jobs, release, delete, budget,
                   confirmed>>

\* Mutant: a new quarantine keeps the completion of an earlier one.
Applied_StillComplete(entry, v) ==
    LET acked == IF v.state = "verified" THEN None ELSE entry.acked
        fires == /\ v.state = "mismatch" /\ ~v.deferral /\ ~entry.quarantined
                 /\ acked # v.sha
    IN  [entry EXCEPT !.state = v.state, !.acked = acked,
                      !.quarantined = @ \/ fires]

\* One verdict applied to its entry.  A verified image retires an override, and
\* a mismatch quarantines unless it is deferred or was overridden.
Applied(entry, v) ==
    LET acked == IF v.state = "verified" THEN None ELSE entry.acked
        fires == /\ v.state = "mismatch" /\ ~v.deferral /\ ~entry.quarantined
                 /\ acked # v.sha
    IN  [entry EXCEPT !.state = v.state, !.acked = acked,
                      !.quarantined = @ \/ fires, !.complete = @ /\ ~fires]

\* Verdicts of images that still exist, under whatever content.
Touched == {i \in Ids : refresh.found[i] # None /\ images[i] # None}

\* apply_hash_verification, first durable write: catalog.json.
ApplyCatalog ==
    /\ refresh.pc = "apply"
    /\ images' = [i \in Ids |-> IF i \in Touched
                                THEN Applied(images[i], refresh.found[i])
                                ELSE images[i]]
    /\ refresh' = [refresh EXCEPT !.pc = "verdicts"]
    /\ UNCHANGED <<verdicts, torrents, policy, fleet, seeder, waits, jobs,
                   release, delete, budget, confirmed>>

\* Mutant: only the images this run found mismatching.
ToRetry_Named == {i \in Touched : /\ Quarantined(i) /\ ~images[i].complete
                                  /\ refresh.found[i].state = "mismatch"}

\* The convergence scan: every quarantine whose actions are not complete.
ToRetry == {i \in Ids : Quarantined(i) /\ ~images[i].complete}

\* Second durable write, hash_verdicts.json, and the end of the locks.
ApplyVerdicts ==
    /\ refresh.pc = "verdicts"
    /\ verdicts' = [i \in Ids |-> IF i \in Touched THEN refresh.found[i].sha
                                  ELSE verdicts[i]]
    /\ refresh' = [refresh EXCEPT !.pc = "fire", !.todo = ToRetry,
                                  !.found = NoRun.found]
    /\ UNCHANGED <<images, torrents, policy, fleet, seeder, waits, jobs,
                   release, delete, budget, confirmed>>

----------------------------------------------------------------------------
(* _fire_quarantine.                                                       *)

\* A deleted image leaves nothing to converge toward.
FireGone(i) ==
    /\ refresh.pc = "fire"
    /\ i \in refresh.todo
    /\ images[i] = None
    /\ refresh' = [refresh EXCEPT !.todo = @ \ {i}]
    /\ UNCHANGED <<disk, seeder, waits, jobs, release, delete, budget,
                   confirmed>>

\* _stop_seeding of the entry as it is now.
FireStop(i) ==
    /\ refresh.pc = "fire"
    /\ i \in refresh.todo
    /\ images[i] # None
    /\ seeder' = seeder \ {<<i, images[i].content>>}
    /\ refresh' = [refresh EXCEPT !.pc = "affected", !.image = i,
                                  !.todo = @ \ {i}]
    /\ UNCHANGED <<disk, waits, jobs, release, delete, budget, confirmed>>

FireStopFault(i) ==
    /\ refresh.pc = "fire"
    /\ i \in refresh.todo
    /\ images[i] # None
    /\ Spend("fault")
    /\ refresh' = [refresh EXCEPT !.pc = "affected", !.image = i,
                                  !.todo = @ \ {i}, !.ok = FALSE]
    /\ UNCHANGED <<disk, seeder, waits, jobs, release, delete, confirmed>>

FireAffected ==
    /\ refresh.pc = "affected"
    /\ refresh' = [refresh EXCEPT !.pc = "sweep",
                     !.devices = {d \in Devices : refresh.image \in policy[d]}]
    /\ UNCHANGED <<disk, seeder, waits, jobs, release, delete, budget,
                   confirmed>>

\* The device's policy, less every quarantined image.
SweepRead(d) ==
    /\ refresh.pc = "sweep"
    /\ d \in refresh.devices
    /\ refresh' = [refresh EXCEPT !.pc = "write", !.device = d,
                     !.devices = @ \ {d},
                     !.keep = {i \in policy[d] : ~Quarantined(i)}]
    /\ UNCHANGED <<disk, seeder, waits, jobs, release, delete, budget,
                   confirmed>>

\* set_policy refuses a set with an unknown or a quarantined image.
Assignable(ids) == \A i \in ids : images[i] # None /\ ~Quarantined(i)

\* Mutant: a device that could not be cleaned up is forgotten.
SweepFailed_Silent ==
    refresh' = [refresh EXCEPT !.pc = "sweep", !.device = None, !.keep = {}]

\* One device failed: the others are tried, the quarantine stays incomplete.
SweepFailed ==
    refresh' = [refresh EXCEPT !.pc = "sweep", !.device = None, !.keep = {},
                               !.ok = FALSE]

SweepWrite ==
    /\ refresh.pc = "write"
    /\ Assignable(refresh.keep)
    /\ policy' = [policy EXCEPT ![refresh.device] = refresh.keep]
    /\ refresh' = [refresh EXCEPT !.pc = "sweep", !.device = None, !.keep = {}]
    /\ UNCHANGED <<images, verdicts, torrents, fleet, seeder, waits, jobs,
                   release, delete, budget, confirmed>>

SweepRefused ==
    /\ refresh.pc = "write"
    /\ ~Assignable(refresh.keep)
    /\ SweepFailed
    /\ UNCHANGED <<disk, seeder, waits, jobs, release, delete, budget,
                   confirmed>>

SweepFault ==
    /\ refresh.pc = "write"
    /\ Spend("fault")
    /\ SweepFailed
    /\ UNCHANGED <<disk, seeder, waits, jobs, release, delete, confirmed>>

\* _mark_quarantine_actions_complete, when everything succeeded.
FireEnd ==
    LET i == refresh.image IN
    /\ refresh.pc = "sweep"
    /\ refresh.devices = {}
    /\ images' = IF refresh.ok /\ Quarantined(i)
                 THEN [images EXCEPT ![i].complete = TRUE] ELSE images
    /\ refresh' = [refresh EXCEPT !.pc = "fire", !.image = None, !.ok = TRUE]
    /\ UNCHANGED <<verdicts, torrents, policy, fleet, seeder, waits, jobs,
                   release, delete, budget, confirmed>>

\* The run is over: its owner, if it has one, has the answer.
Answered(pc) ==
    jobs' = IF refresh.owner = None THEN jobs
            ELSE [jobs EXCEPT ![refresh.owner] = Over(refresh.owner, pc)]

\* Mutant: a success covers everyone registered by its end.
CoveredGeneration_AtEnd == waits.registered

\* A success covers the registrations stamped before its listing.
CoveredGeneration == refresh.gen

RefreshEnd ==
    /\ refresh.pc = "fire"
    /\ refresh.todo = {}
    /\ waits' = [waits EXCEPT !.covered = CoveredGeneration]
    /\ confirmed' = confirmed \cup refresh.listed
    /\ Answered("done")
    /\ refresh' = NoRun
    /\ UNCHANGED <<disk, seeder, release, delete, budget>>

\* The feed cannot be fetched or verified, or a file cannot be read or written.
RefreshFault ==
    /\ refresh.pc \notin {"idle", "write"}
    /\ refresh.pc = "fire" => refresh.todo # {}
    /\ Spend("fault")
    /\ Answered("failed")
    /\ refresh' = NoRun
    /\ UNCHANGED <<disk, seeder, waits, release, delete, confirmed>>

----------------------------------------------------------------------------
(* Operators.                                                              *)

\* AssignmentService and set_policy.
Assign(d, ids) ==
    /\ LocksFree
    /\ d \in fleet
    /\ Assignable(ids)
    /\ Spend("assign")
    /\ policy' = [policy EXCEPT ![d] = ids]
    /\ UNCHANGED <<images, verdicts, torrents, fleet, seeder, refresh, waits,
                   jobs, release, delete, confirmed>>

\* The stored feed hash still differs from the entry's, or there is none.
StillMismatching(i) == verdicts[i] # images[i].content

\* release_quarantine up to the end of its locks.  An override leaves the
\* verdict and records the hash it accepted.
Release(i, override) ==
    /\ LocksFree
    /\ release = None
    /\ Quarantined(i)
    /\ StillMismatching(i) => override
    /\ Spend("release")
    /\ images' = [images EXCEPT
         ![i].quarantined = FALSE, ![i].complete = TRUE,
         ![i].acked = IF StillMismatching(i) THEN verdicts[i] ELSE None,
         ![i].state = IF StillMismatching(i) THEN @ ELSE "verified"]
    /\ release' = i
    /\ UNCHANGED <<verdicts, torrents, policy, fleet, seeder, refresh, waits,
                   jobs, delete, confirmed>>

\* _resume_seeding from the torrent file, which may fail.
Resume ==
    /\ release # None
    /\ \/ seeder' = seeder
       \/ /\ torrents[release] # None
          /\ seeder' = seeder \cup {<<release, torrents[release]>>}
    /\ release' = None
    /\ UNCHANGED <<disk, refresh, waits, jobs, delete, budget, confirmed>>

\* DELETE /api/images: the fleet is listed before delete_image takes its lock.
DeleteBegin(i) ==
    /\ delete.pc = "idle"
    /\ Spend("delete")
    /\ delete' = [NoDelete EXCEPT !.pc = "check", !.id = i, !.live = fleet]
    /\ UNCHANGED <<disk, seeder, refresh, waits, jobs, release, confirmed>>

AssignedTo(i) == {d \in Devices : i \in policy[d]}

DeleteRefused ==
    /\ delete.pc = "check"
    /\ LocksFree
    /\ images[delete.id] = None \/ AssignedTo(delete.id) \cap delete.live # {}
    /\ delete' = NoDelete
    /\ UNCHANGED <<disk, seeder, refresh, waits, jobs, release, budget,
                   confirmed>>

\* The entry goes first; the seeder and the torrent follow without a lock.
DeleteEntry ==
    /\ delete.pc = "check"
    /\ LocksFree
    /\ images[delete.id] # None
    /\ AssignedTo(delete.id) \cap delete.live = {}
    /\ images' = [images EXCEPT ![delete.id] = None]
    /\ delete' = [delete EXCEPT !.pc = "seeder",
                                !.content = images[delete.id].content]
    /\ UNCHANGED <<verdicts, torrents, policy, fleet, seeder, refresh, waits,
                   jobs, release, budget, confirmed>>

\* Best effort: an unreachable seeder keeps serving.
DeleteSeeder ==
    /\ delete.pc = "seeder"
    /\ seeder' \in {seeder, seeder \ {<<delete.id, delete.content>>}}
    /\ delete' = [delete EXCEPT !.pc = "torrent"]
    /\ UNCHANGED <<disk, refresh, waits, jobs, release, budget, confirmed>>

DeleteTorrent ==
    /\ delete.pc = "torrent"
    /\ torrents' = [torrents EXCEPT ![delete.id] = None]
    /\ delete' = NoDelete
    /\ UNCHANGED <<images, verdicts, policy, fleet, seeder, refresh, waits,
                   jobs, release, budget, confirmed>>

\* retire_device: the purge of the policy may fail.
RetireDevice(d) ==
    /\ LocksFree
    /\ d \in fleet
    /\ Spend("fleet")
    /\ fleet' = fleet \ {d}
    /\ policy' \in {policy, [policy EXCEPT ![d] = {}]}
    /\ UNCHANGED <<images, verdicts, torrents, seeder, refresh, waits, jobs,
                   release, delete, confirmed>>

RegisterDevice(d) ==
    /\ d \notin fleet
    /\ Spend("fleet")
    /\ fleet' = fleet \cup {d}
    /\ UNCHANGED <<images, verdicts, torrents, policy, seeder, refresh, waits,
                   jobs, release, delete, confirmed>>

----------------------------------------------------------------------------

\* Mutant: every torrent found on disk is seeded.
Reseeded_All ==
    {<<i, torrents[i]>> : i \in {j \in Ids : torrents[j] # None}}

\* reseed_input.build: the torrents the catalog authorizes.
Reseeded ==
    {<<i, torrents[i]>> : i \in {j \in Ids : /\ torrents[j] # None
                                             /\ images[j] # None
                                             /\ ~Quarantined(j)}}

\* The container is restarted; a service that exits takes the others with it.
Restart ==
    /\ Spend("restart")
    /\ seeder' = Reseeded
    /\ refresh' = NoRun
    /\ waits' = [registered |-> 0, covered |-> 0]
    /\ jobs' = [s \in Slots |->
                  IF jobs[s].pc \in {"new", "done", "failed"} THEN jobs[s]
                  ELSE Over(s, "failed")]
    /\ release' = None
    /\ delete' = NoDelete
    /\ UNCHANGED <<disk, confirmed>>

\* What a run does once it has been started.
RefreshStep ==
    \/ \E feed \in Feeds : RefreshStamp(feed)
    \/ RefreshList \/ ApplyCatalog \/ ApplyVerdicts
    \/ \E i \in Ids : FireGone(i) \/ FireStop(i)
    \/ FireAffected \/ SweepWrite \/ SweepRefused \/ FireEnd \/ RefreshEnd
    \/ \E d \in Devices : SweepRead(d)

JobStep(s) ==
    \/ MakeTorrent(s) \/ Seed(s) \/ SeedLost(s) \/ SaveImage(s)
    \/ Register(s) \/ WaitCovered(s) \/ WaitRun(s)

Fault ==
    \/ \E s \in Slots : PublishFault(s)
    \/ \E i \in Ids : FireStopFault(i)
    \/ SweepFault \/ RefreshFault

Next ==
    \/ \E s \in Slots, k \in Kinds, i \in Ids, c \in Contents :
          PublishBegin(s, k, i, c)
    \/ \E s \in Slots : JobStep(s) \/ WaitTimeout(s)
    \/ RefreshStart \/ RefreshStep
    \/ \E d \in Devices, ids \in SUBSET Ids : Assign(d, ids)
    \/ \E i \in Ids, override \in BOOLEAN : Release(i, override)
    \/ Resume
    \/ \E i \in Ids : DeleteBegin(i)
    \/ DeleteRefused \/ DeleteEntry \/ DeleteSeeder \/ DeleteTorrent
    \/ \E d \in Devices : RetireDevice(d) \/ RegisterDevice(d)
    \/ Fault
    \/ Restart

Spec == Init /\ [][Next]_vars

\* The refresh loop starts a run at every slot of its schedule, and a run that
\* was started goes on; nothing else is owed.
Fairness == WF_vars(RefreshStart) /\ WF_vars(RefreshStep)

FairSpec == Spec /\ Fairness

----------------------------------------------------------------------------
(* Properties.                                                             *)

RunType ==
    [pc : {"idle", "fetch", "list", "apply", "verdicts", "fire", "affected",
           "sweep", "write"},
     owner : Slots \cup {None}, gen : Nat, feed : Feeds \cup {None},
     found : [Ids -> Verdict \cup {None}], todo : SUBSET Ids,
     image : Ids \cup {None}, devices : SUBSET Devices,
     device : Devices \cup {None}, keep : SUBSET Ids, ok : BOOLEAN,
     listed : SUBSET Slots]

JobType ==
    [pc : {"new", "torrent", "seed", "save", "register", "wait", "running",
           "done", "failed"},
     kind : Kinds \cup {None}, id : Ids \cup {None},
     content : Contents \cup {None}, gen : Nat]

DeleteType ==
    [pc : {"idle", "check", "seeder", "torrent"}, id : Ids \cup {None},
     content : Contents \cup {None}, live : SUBSET Devices]

TypeOK ==
    /\ images \in [Ids -> Entry \cup {None}]
    /\ verdicts \in [Ids -> Contents \cup {None}]
    /\ torrents \in [Ids -> Contents \cup {None}]
    /\ seeder \subseteq Ids \X Contents
    /\ policy \in [Devices -> SUBSET Ids]
    /\ fleet \subseteq Devices
    /\ refresh \in RunType
    /\ waits \in [registered : Nat, covered : Nat]
    /\ jobs \in [Slots -> JobType]
    /\ release \in Ids \cup {None}
    /\ delete \in DeleteType
    /\ budget \in [Events -> Nat]
    /\ confirmed \subseteq Slots

\* _fire_quarantine "only marks the quarantine's actions complete" when every
\* device is clean, and set_policy admits the image to none afterwards: no
\* device is approved for a completely quarantined image, whatever assignment,
\* release, deletion, failure or restart happened around the sweep.
QuarantineUnassigned ==
    \A i \in Ids : Quarantined(i) /\ images[i].complete => AssignedTo(i) = {}

\* images.md: a mismatch "stops seeding", and "Seeding stays stopped across
\* container restarts".  As long as nobody releases or publishes it again, the
\* origin does not serve an image whose quarantine is complete, although the
\* seeder may have failed to answer and its torrent is still on disk.
QuarantineStopsSeeding ==
    \A i \in Ids : Quarantined(i) /\ images[i].complete
                      => <<i, images[i].content>> \notin seeder

\* "Every newly imported image is known to have been present in the successful
\* snapshot they accept": a console job reports a completed verification only
\* if a run that succeeded listed the catalog after the job saved its entry.
VerifiedJobWasListed ==
    \A s \in Slots :
        jobs[s].kind = "console" /\ jobs[s].pc = "done" => s \in confirmed

\* The convergence scan: a quarantine is completed, released or deleted in the
\* end, although the first sweep failed or the process died before it.
QuarantineConverges ==
    \A i \in Ids :
        (Quarantined(i) /\ ~images[i].complete) ~>
            ~(Quarantined(i) /\ ~images[i].complete)

\* images.md: "`verified` | The image's `sha512` matches the feed row."
VerifiedMatchesFeed ==
    \A i \in Ids :
        images[i] # None /\ images[i].state = "verified"
            => \E f \in Feeds : \E r \in f[i] : r.sha = images[i].content

\* The docstring of release_quarantine: the comparison is with "the STORED last
\* feed verdict (from the most recent apply_hash_verification() call".  A
\* release that ends verified follows a last verdict that said so.
CleanReleaseUsesLastVerdict ==
    [][\A i \in Ids :
          /\ Quarantined(i)
          /\ images'[i] # None
          /\ ~images'[i].quarantined /\ images'[i].state = "verified"
          => images[i].state = "verified"]_vars

\* The docstring of release_quarantine: "the ONLY way one is lifted".
OnlyReleaseLifts ==
    [][\A i \in Ids :
          Quarantined(i) /\ images'[i] # None /\ ~images'[i].quarantined
          => release' = i]_vars

\* images.md: "Either release also puts the image back into the origin seeder".
\* What a release has put back, the sweep it overtook does not take out again.
ReleaseKeepsSeeding ==
    [][\A i \in Ids :
          /\ images[i] # None /\ images' = images
          /\ ~Quarantined(i) /\ release # i
          /\ <<i, images[i].content>> \in seeder
          => <<i, images[i].content>> \in seeder']_vars

\* The comment in publish(): "a catalog entry must never advertise an unseeded
\* image".
PublishedIsSeeded ==
    \A i \in Ids :
        images[i] # None => Quarantined(i) \/ release = i
                            \/ <<i, images[i].content>> \in seeder

\* The docstring of delete_image: "If any device is assigned it, returns the
\* sorted list of those device ids and deletes NOTHING".
AssignedImagesExist ==
    \A d \in fleet : \A i \in policy[d] : images[i] # None

=============================================================================
