# TLA+ specifications of IRIS

IRIS (Intelligent Release Image Staging) distributes network operating system
images to a fleet of devices over BitTorrent. A management server publishes
images, decides which device is approved for which image, runs schedules,
tracks peers and signs instructions; an agent on each device accepts the
instructions, downloads, verifies and stages; recipes put the agent on a device
and take it away again; an installer and a maintenance worker look after the
server's own host. This directory holds TLA+ models of the parts of that system
whose correctness depends on the order of steps, the TLC instances that check
them and TLAPS proofs of the main results.

Paths below are relative to the repository root; `PROJECT.json` maps each
definition to the lines it models, lists the hazards the properties are about
and the mutant every property catches. A helper whose lines adjoin those of
another definition of its module shares that definition's entry.

## 1. Inventory

| Component | State | Operations | Meets |
|---|---|---|---|
| **Schedule definitions, cursor, claims** `server/schedules.py`, `schedule_runner.py` | `schedules.json`, retired floors, `schedule-progress`, `schedule-occurrences.json` | create, put, patch, reaffirm, delete; scan, resolve, claim | operators and the one runner thread share the shard locks; the runner keeps copies of rows between two locks |
| **Scheduled assignment** `schedule_runner.py`, `management_api.py` (`_ScheduledExecutor`), `assignment_service.py` | receipts, assignment claims, manual generations, catalog policy | begin, capture, apply, poll, finish, acknowledge | reads schedules, fleet, secrets; writes the catalog policy by compare-and-set |
| **Manual assignment** `assignment_service.py` | manual generation and pending flag | apply | competes with the scheduled one for a device's policy |
| **Images** `publish.py`, `gui_images.py`, `bulkhash_refresh.py`, `catalog.py`, `reseed_input.py` | `catalog.json`, `hash_verdicts.json`, torrents, seeder contents, policies | publish (console, command line), refresh, quarantine sweep, release, delete, restart | three locks (image policy, catalog, refresh) and a seeder that is called under none of them |
| **Instruction production** `instruction_stamper.py` | admissions, serial history, stamps, role index and artifacts | admit, reserve, render, commit, collect, recover | policy rows, keys; read by devices at any moment |
| **Instruction keys and trust** `instruction_keys.py`, `instruction_rotation.py`, `trust_rotation.py`, `gui_tls.py`, `tls_rotation.py` | key, certificate, keylist, journals of replacement | generate, renew, rotate, retire, attest, replace roots and certificates | stamper, devices, installer |
| **Instruction acceptance** `device/agent/instr.py` | state file, last-known-good and previous envelope, keylist | one tick: recover, poll, verify, promote | power loss between two files |
| **Device agent** `device/agent/iris_agent.py` | state file, stage directory, flash root, aria2 session | one tick: adopt, park, verify, place, download, purge | catalog, aria2, the operator at the console |
| **Guest Shell bundle** `device/bootstrap.sh`, `guestshell-start.sh`, `guestshell-publish.sh` | inputs, live parts, transaction directory, outcome, back-off | publish, collect, promote, launch, accept, roll back, recover | the EEM timer and an installer share one lock |
| **Recipes** `device/*-install.sh`, `*-uninstall.sh`, `gui_onboard.py` | configuration, application and files of a device | onboard, undeploy, forced undeploy | sessions that are cut, reloads, replaced boards |
| **Onboarding jobs** `gui_onboard.py`, `deployment_records.py`, `management_api.py` | job table, two queues, deployment records, receipts | submit, reserve, run, reap, cancel, delete, restart | scheduled and manual jobs share one pool |
| **IOx verification** `iox_verification.py`, `deployment_records.py` | journal, SCP claims, session fence, the board's switch | begin, disable, install, restore, finalise, recover, reconcile | a device shared with the operator; sessions that outlive their owner |
| **Origin blocking and policy** `peer_policy.py`, `origin_enforcement.py`, `blocklist_reconciler.py`, `tracker.py` | policy document with its ring and outbox, endpoints, approvals, status files, aria2's list | commit, restore, announce, preview, approve, one pass | console, tracker and aria2 are three processes |
| **Announce rotation** `rotate_seeder_announce.py`, `secrets_store.py`, `secretfs.py` | credentials, torrents, backups, manifest | rotate, undo, probe, recover | seeder, container restarts |
| **Transfer telemetry** `transfer_lifecycle.py`, `telemetry.py`, `otlp.py`, `report_attribution.py` | rings, plan rows with marks, evicting queue, pins | observe, emit, mark, flush, forget | catalog, tracker, collector |
| **Host maintenance** `tools/iris_installer/lifecycle_worker.py`, `backup*.py`, `restore*.py`, `credential_maintenance.py`, `lifecycle_retention.py` | jobs, archives, capture, restore and rotation records | backup, verify, restore, rotate, delete, recover | services that are stopped and started around every operation |
| **Installation and removal** `deploy.py`, `uninstall*.py`, `prebuilt_*.py`, `state.py` | journal, files, Docker resources, removal record | install, resume, plan, apply, recover, cancel | operators, reboots, the worker |
| **Roles, fleet, inventory** `role_management.py`, `gui_fleet.py`, `fleet_authority.py`, `peer_policy.py` | inventory rows with a revision, role definitions, memberships and ACLs of the policy | declare roles, edit, import, migrate, quarantine, retire, define | two stores changed in an order that depends on the direction; schedules name roles; snapshots without a lock |
| **Peer certificates** `peer_tls_revocations.py`, `peer_tls_issuer.py`, `peer_tls_seed.py`, `device/agent/peer_tls.py`, `peer_revocations.py` | ledger of withdrawn identities with its marker; key slots, manifest, list and checkpoint on a device; mode of the origin | withdraw, approve, activate, enroll, refresh, switch the mode | two consoles, onboarding, the device's agent and its watcher under one lease |
| **Device credentials** `catalog.py`, `secrets_store.py`, `secretfs.py`, `device/agent/iris_agent.py`, `instr.py` | plain and encrypted store; token, previous token and instruction key of a device; its configuration file | enroll, refresh, rotate, revoke | a lost answer after a rotation, a failed rewrite on the device |
| **Peer directory** `tracker.py`, `peer_registry.py`, `peer_handouts.py`, `credential_cache.py` | registry rows, role index, byte counters, cached views, hand-out rows and admissions | one announce | credentials and policy change in other processes while announces run in threads |
| **IOx supervisor** `iox_verification.py`, `iox_transport.py` | processes of a session, socket, board lock, fence file, transcript | spawn, wait, reap, conclude | it outlives the controller that started it |
| **Console sessions** `gui_auth.py`, `gui_app.py`, `gui_admin.py`, `management_api.py` | admin record with its floor, sessions, memo, setup grant, throttle | log in, set up, work, poll, change the password, revoke, log out, reset | threads, and `iris-gui-admin` in a process of its own |
| **Console calls** `gui_server.py`, `management_api.py` | idempotency ledger, credential pairs, limiter, certificate | every call that changes something, with its audit row | lost answers, repeats, restarts, rotation of the credential |
| **Keyed state** `keyed_state.py` | the fleet's old document, shards, marker, caches | update, delete, sweep, snapshot, read | processes that migrate and use the store at once |
| **Audit trail and export** `audit.py`, `audit_export.py` | trail file, an index per process; destination and its password | append, prune, page; save, clear, export, drain | several writers, readers without the lock |
| **Transfer reports** `device/agent/iris_agent.py`, `telemetry_report.py`, `catalog.py`, `live_samples.py` | the telemetry bag of an image, frozen reports, pull requests, live table | arm, freeze, send, sample, pause, pull | plans that change under an undelivered report |

Components without a module are listed in section 9 with the reason.

**What is hard here.** Each durable write is atomic (`os.replace` under a shard
lock) but the operations are not: nearly every one is several writes to several
files, and the process may die between any two. State is read under one lock
and used under another. Several processes (server, `iris-publish`, hash
reconciler, tracker, maintenance worker) write the same files. The wall clock is
not monotonic. Calls to the seeder, to aria2 and to devices happen outside all
locks, may fail, and may take effect after they were given up. `PROJECT.json`
lists these hazards with their lines.

**What makes each component correct.**

* *Schedules*: a strong ETag never names two contents; a slot becomes one
  occurrence, of one definition; the cursor neither skips nor runs ahead; every
  slot is accounted for.
* *Scheduled assignment*: one policy write per job whatever is retried; the
  operator's later work wins; no write without live authority; every device
  gets one true outcome and every occurrence ends.
* *Images*: a completed quarantine means that nobody is approved for the image
  and that the origin does not serve it; a reported verification looked at this
  image; an interrupted quarantine is finished.
* *Instructions*: a device's floor stands for an envelope it still holds, moves
  back only after repeated hints, and nothing revoked is attested; stamps of a
  device only advance and each has its artifact; the key files on disk belong to
  one signer and one trust, a retired key is revoked, and revocations only grow;
  a withdrawn peer identity stays withdrawn, its list never goes back behind a
  checkpoint, and a fresh one is activated only as approved.
* *Device*: aria2 never seeds a file with holes, nothing is reported ready
  without its copy, and neither an operator's file nor a bootable one is
  deleted; the launcher never runs two versions at once and can always go back;
  a completed undeploy leaves nothing behind and touches nothing of the
  operator's; a lost answer locks no device out and a revocation stands; a
  transfer is reported once, with its own evidence.
* *Onboarding*: one recipe per device at a time, whatever is on a device is on
  record, and whatever was turned off on a board is owed in a journal; one
  session speaks to a board, and the fence says so while a process of it lives;
  a failing change of roles leaves no device more open than was declared, and
  nobody is governed by a role that does not exist.
* *Peers*: the tracker's memory of aria2's list is true whenever it is trusted,
  `enforced` is said only of what aria2 holds, an address is blocked and released
  for a reason the pass knew, no policy operation disappears unaudited; a rotation can always give the old bytes back and never leaves a
  torrent announcing with a rejected credential.
* *Host*: an event is marked only when the collector has it and every loss is
  counted; a saved backup is whole, the server runs on one generation of data,
  keys and floor; a removal takes exactly what was reviewed; what is disclosed of
  a peer is permitted and on record; an ended session is never served; a repeated
  call changes once; no change of a state row and no audit event is lost; a
  password goes only where it was sent.

## 2. Modules

    ScheduleStore                 definitions, cursor, claims
      MCScheduleStore             instances
      ScheduleStoreProofs         inductive invariant, safety theorems
    AssignmentLedger              what scheduled assignment promises (abstract)
    ScheduledAssignment           receipts, claims, policy; implements the ledger
      MCScheduledAssignment       instances
      ScheduledAssignmentProofs   inductive invariant, safety theorems
      ScheduledAssignmentSteps    what a policy write may never do
      ScheduledAssignmentRefinement   the ledger is implemented
    ImageLifecycle                publish, verify, quarantine, release, delete
      MCImageLifecycle            instances
      ImageLifecycleProofs        inductive invariants, safety theorems
    InstructionAccept, InstructionStamper, KeyCustody, PeerIdentity
      MCInstructions              instances of the four
      InstructionProofs           acceptance and stamper: invariants, theorems
    AgentStaging, GuestBundle, DeviceRecipes, DeviceCredentials, TransferReports
      MCDevice                    instances of the five
    OnboardJobs, IoxVerification, IoxSupervisor, FleetRoles
      MCOnboarding                instances of the four
    PeerBlocking, AnnounceRotation
      MCPeers                     instances of the two
      PeersProofs                 inductive invariants of both, theorems
    TransferTelemetry, HostMaintenance, DeploymentLifecycle, PeerDirectory,
    ConsoleSessions, ConsoleCalls, KeyedState, AuditTrail, AuditExport
      MCHost                      instances of the nine
      HostProofs                  sessions, export, state files: invariants, theorems

No module uses a `RECURSIVE` operator. The bounds on outside events (`Limits`,
`Max...`, budgets and scenarios) appear in the guards of those events only; the
theorems hold for any value of them.

**Groups.** The components of one `MC` module meet through files or calls that
are outside of both (a published envelope, a recipe's exit status), and each
module models the other side of these by what it can do. Their product would
multiply unrelated interleavings, so a behaviour of a group runs one component
(`focus`) and leaves the others at rest. A group has an invariant, an action
property and a temporal property, each the conjunction of its components'
named properties under their focus, so `InstructionsSafe` fails if and only if
one of `AcceptSafe`, `StamperSafe`, `KeysSafe`, `IdentitySafe` does; the
definitions in the component modules carry the individual comments. In `host`,
`ConsoleSafe` and `PasswordsGoWhereSent`, which are proved, stand beside
`HostSafe`. A component's liveness definition is a state predicate, and the
group's temporal property says that it holds in the end (`<>[]`) or again and
again (`[]<>`).

### ScheduleStore

| Variable | Code |
|---|---|
| `rows`, `retired` | the definition rows and the revision floors left by deletions |
| `progress` | the durable cursor of a schedule: generation and last slot |
| `occurrences` | `schedule-occurrences.json` |
| `gens` | generations handed out (`uuid4` in the code: fresh, never reused) |
| `runner` | the thread's pass: rows kept by the scan, claims left, entry in hand |
| `writer` | a deletion between its two writes |
| `now`, `budget` | the wall clock, bounded events |
| `etags` | history: every (id, row) a client has been shown |

Actions: `Create`, `Edit` (put and patch), `Reaffirm`, `DeleteRetire` then
`DeleteRow` (two writes), `Scan`, `Resolve`, `RecheckEnd`, `ResolveError`,
`ClaimConflict`, `ClaimOccurrence` then `AdvanceProgress` (two writes),
`PushUpcoming` (the schedule's next slot rejoins the pass), `EndPass`, `Tick`,
`ClockBack`, `Crash`. `OccurrenceSlot` is the weekly arithmetic of `occurrence_slot`; the
properties compare it with `IsSlotOf`, which says from the calendar alone what
a slot is.

### ScheduledAssignment

A *job* is an occurrence and a device. The occurrences are already bound; each
holds a frozen definition (`Payload`, `Mode`, window).

| Variable | Code |
|---|---|
| `occ`, `receipts` | occurrence states and the receipts of schedules.py |
| `claims`, `manual` | the assignment authority's claim rows and manual generations |
| `policy`, `quarantined` | the catalog |
| `sched` | the live definition compared with the frozen one |
| `reg`, `revoked` | registration id (0 when absent), revoked secrets |
| `sweep` | the hash reconciler between reading and writing a policy |
| `pc`, `run`, `stop` | the runner thread, its locals and its stop event |
| `mw` | a manual writer inside `AssignmentService.apply` |
| `now`, `budget` | the wall clock, bounded events |
| `commits`, `overridden` | history: policy writes per job; jobs whose device was assigned by hand after the capture |

A visit to a device is a sequence of steps, each ending at a durable write or
at a read another actor can invalidate: `Visit`, then `VisitNotOpen` /
`VisitClosed` / `VisitOpen` (receipt intent), `RecheckClosed` / `RecheckOpen`
(the second `_admission_reason`), `Capture`, `ApplyRefused` / `ApplyBegin`
(live checks), `ApplyReplay` / `ApplyClaim`, `DecideRefusal` / `DecideRebase` /
`DecideCommit`, `SaveResult`, `PollUnprepared` / `PollNothing` / `PollClaim`,
`SavePrepared` / `SaveTerminal`, `Acknowledge`, `Finish`. `Recover` and `Serve`
start the thread and pick an occurrence. Around it: a manual assignment in three
steps, schedule edits and deletions, retirement, registration, revocation,
quarantine, release and sweep, clock steps, `Stop`, `Restart`, `Crash`, and
failing calls.

`AssignmentLedger` states what the user guide promises (`scheduling.md`): per
job at most one write and one outcome, success only of a write, and an
occurrence that ends when all of its jobs have an outcome.

### ImageLifecycle

| Variable | Code |
|---|---|
| `images`, `verdicts` | `catalog.json` and `hash_verdicts.json` |
| `torrents`, `seeder` | torrent files on disk, info hashes the origin serves |
| `policy`, `fleet` | approved images of each device, registered devices |
| `refresh` | the single-flight refresh run: position and locals |
| `waits` | `_WAIT_GENERATION` and the generation last covered |
| `jobs` | publish jobs of the console and of `iris-publish` |
| `release`, `delete` | a release before its seeder call; a deletion between its steps |
| `budget` | bounded events |
| `confirmed` | history: jobs whose entry was saved before a successful run listed the catalog |

Actions: a publish job is `PublishBegin`, `MakeTorrent`, `Seed` / `SeedLost`,
`SaveImage`, and for a console job `Register`, `WaitCovered` / `WaitRun` /
`WaitTimeout`; a run is `RefreshStart`, `RefreshStamp`, `RefreshList`,
`ApplyCatalog` and `ApplyVerdicts` (two writes), then per quarantined image
`FireGone` / `FireStop`, `FireAffected`, `SweepRead` and `SweepWrite` /
`SweepRefused` per device, `FireEnd`, and `RefreshEnd`. Operators `Assign`,
`Release` (then `Resume`), delete in up to four steps, retire and register
devices. `PublishFault`, `FireStopFault`, `SweepFault`, `RefreshFault` and
`Restart` interrupt.

### InstructionAccept, InstructionStamper, KeyCustody, PeerIdentity

*InstructionAccept* is one tick of `run_instruction_step`: `flash` (state file,
last-known-good envelope, its `.previous`, keylist, bootstrap candidate), `bag`
(the state in memory), `pc` and `tick` (where the tick is, what it has read),
`server` and `clock`. Every durable write is a step of its own: recovery of the
files, the poll with its hint (`note_hint` counts equal lower hints and arms a
reset at `ResetAfter`), installation of a keylist, the candidate, fetch,
verification, the two-file promotion, the save on the way out. The two writes of
a keylist may fail one by one: the tick then goes on with the list it had
(`tick.kfail`), as `run_instruction_step` does. `Crash`, `Damage`, failing saves,
a server restored from a backup and a clock that is ahead or steps back surround
it.

*InstructionStamper* has concurrent producers, each at a point of `stamp_device`,
`gc_roles` or `recover`, over `admitted`, `serials` (high water and
reservation), `stamps`, `roles` and `artifacts`, with the three file locks as
guards. `ProducerDies` may fall between any two writes and drops the locks. A
generation of a role is its epoch and its body, as in `_role_tuple`. An admission
is pending with the key it was begun for (`admitted.made`), and a visit that finds
another key refuses it.

*KeyCustody*: a handler reads under its lock and then replaces files one by one;
it is therefore an action that computes the list of its writes (`pen.todo`),
which `WriteNext` takes one at a time, `WriteFails` interrupts (with what the
handler puts back) and `Crash` cuts short. Handlers that leave the lock continue
in `conts`. `ApplyTrust` is the five-file replacement of roots, device identity
or peer CA, `ApplyGui` the Console certificate's, `Retire...`, `Attest...`,
`RecoverRotation` the online signer's.

*PeerIdentity*: `ledger` and `marker` are the server's list of withdrawn
identities; `Review` then `Submit` is a console's form, which may be of a state
that has passed, and an operation repeated by its id. Ledger operations are
steps, for they run under one file lock. On the device (`files`) the refresh of
the list (`FetchList`, `SaveCheckpoint`, `KeepList`, `PublishList`, by the agent
or the watcher, whoever has the lease) and the enrollment (`EnrollmentKey`,
`Enroll`, `InstallKey`, `InstallManifest`, `UnlinkKey`) are steps per durable
write. `OriginTurn` is the seeder's supervisor, which follows the saved mode.

### AgentStaging, GuestBundle, DeviceRecipes, DeviceCredentials, TransferReports

*AgentStaging* is one tick of the agent over `saved` and `mem` (state file and
memory), `files` (stage payload and control file, torrent, root, temporary),
`aria` and `cat`: plan adoption, park and reclaim, the steady-state check,
verification by hash, placement at the flash root with its attempts, download,
purge and report. Platforms (`shell`, `iox`, `xr`) differ in where the stage is
and in how space is reclaimed. `Kill`, `AriaRestart`, republication, changes of
the assignment and the operator's files interleave at every step.

*GuestBundle* is `bootstrap.sh` with its bundle transaction: `src` and `stage`
(inputs, collected inputs), `live` (version of each part), `tx`, `outcome`,
`daemon`, `backoff`. Every rename is a step; `GuestCrash` falls between any two
and the next tick recovers what `tx` says. `publ` is the installer's publication
under the same lock.

*DeviceRecipes*: a configuration is the set of its items, a recipe a sequence of
sessions; a cut session has applied a prefix. `dv` is the device (running and
startup configuration, application, files, board), `drec` the deployment record.
`Reload` drops the running configuration, `Swap` replaces the board.

*DeviceCredentials*: `plain` and `cipher` are the two copies of the store, of
which one may be written and the other not (`Persist`); `conf` and `proc` are
the device's file and the bearer its process holds. `HandleRefresh` rotates or,
for the previous token, repeats the bag; `AnswerArrives` rewrites the file or
fails to. Enrollment, revocation, rotation of the instruction key and
`ServerRestart` (which reads the ciphertext back) come between.

*TransferReports*: a tick (`rtick`) takes the state file (`flash`), adopts a
plan, observes, samples, heartbeats, answers a pull request and arms, freezes and
sends the terminal report, with a save before what must not be repeated;
`TickDies` may fall anywhere. `desk`, `inbox` and `shown` are the catalog's
requests, reports and live table. `ParseSnapshot` and `SanitizeRecords`, which
bound the peer records on the two sides, are compared with each other over small
snapshots.

### OnboardJobs, IoxVerification, IoxSupervisor, FleetRoles

*OnboardJobs*: `recs` and `jobs` (records, job table), `manualQ` and `schedQ`,
`receipt`, `fleet`, `box`. A submission reads (`SubmitRead`) and admits later
(`SubmitAdmit`); a reserved worker takes the record, runs the recipe, settles
the record; `Reap` gives up a late worker, which may still return. Deletion of a
device is three steps, `Restart` recovers the records that were in flight.

*IoxVerification*: the journal of one board, with the device's switch (`verif`),
its SCP server and its flash beside it. A command is modelled by its effect and
by what the controller learns of it (`done`, `lost`, `refused`); a session that
could not be reaped may land later (`stray`). `RestartContainer` ends every
attempt and leaves the journal and the fence.

*IoxSupervisor*: an attempt (`ses`) starts a supervisor (`sup`) and speaks to it
over `wire`: `Ask`, `Serve`, `Hear`, or `NoAnswer`. Its processes (`proc`) fork,
exit and outlive a kill; a reap concludes after `EmptyRounds` scans without a
process (`Count`) or on its deadline (`TimeUp`). `lockBy` is the board's flock,
which lives as long as a descriptor of it, and `seal` the fence file. The
server, the supervisor and the container may die at any step.

*FleetRoles*: a request is the list of steps it has still to do (`policy`,
`check`, `guard`, `write`, `bump`, `drop` and so on), in the order that
`change_direction` gives, over the inventory (`row`, `fleetRev`) and the policy
(`doc`). Each step may fail or be the last its process does. A preview leaves a
confirmation token that the change has to match (`TokenConfirms`). `PairPermitted`
and `Allows` are the compiled rules; properties compare who can reach whom.

### PeerBlocking, AnnounceRotation

*PeerBlocking*: `pf` is the policy with its last-known-good ring, watermark and
outbox; `ctl`, `app` and `proof` are the operator's approval, what was applied
and what it proves; `trk` is the tracker's memory and the pass it is in. `eps` are
the durable endpoints, at most `EndpointCap` per principal, of which an announce
may push out any other (`Evictable`), and `live` the registry's addresses, legacy
clients included, which only the list for an unreadable policy uses. Any principal
may announce from any address, the origin's own included. A pass is `PassReads`/`PassBegin`, QoS, apply, call, finish, export, status; commits,
announcements, approvals, an aria2 restart and `TrackerRestart` fall between.

*AnnounceRotation*: the rotation is per torrent prepare, remove, add, with every
call failing before or after its effect, then the verdict, the swarm probe and
the gate; `RecoverBegin`/`RestoreRow` is `--recover`; `KillCommand` and
`RelaunchSeeder` may come at any point.

### TransferTelemetry, HostMaintenance, DeploymentLifecycle

*TransferTelemetry*: plans minted by the catalog, reports and attestations in
bounded rings, `tl` (plan rows with emitted and delivered marks), `mail` (the
evicting queue), the sampler's pass in five steps, and the collector. `who4` is
whose the origin's address is, 0 while none is known: then a report is
provisional (`Provisional4`), exported and not pinned. A pin whose write fails is
not kept either; `firm` marks the records that had one. The process may die
anywhere, losing the queue and keeping the store, which may be torn.

*HostMaintenance*: one operation at a time, from the admission through stopped
services, storage and records to the end; a later request of the same operation
recovers. `host` is what runs and what is stored (data, credential files), `book`
the worker's files.

*DeploymentLifecycle*: `journal` with its stages, `docker`, `disk`, and
`removal` with its phases (none, prepared, fencing, removing, uninstalled). A
container counts as stopped only if it ended with 0 or 143 (`docker[c].clean`,
`Stopped`); one that is killed after its grace, or found dead after a reboot, is
refused by every later recovery. The worker must have no job left once it was
stopped (`jobs_idle`). An identity file that exists is never made again: one that
was cut short is refused. A command holds the journal lock and may be cut after
any durable write.

### PeerDirectory, ConsoleSessions, ConsoleCalls

*PeerDirectory*: an announce (`ask`) is the steps of the tracker's handler:
authenticate against a cached view of the credentials, take a view of the policy
that the file confirms, enter the registry and the role index, select permitted
peers, admit and record the hand-out, answer. `told` remembers what was
disclosed. Revocations and policy edits fall between, `DirectoryDies` keeps
only the files.

*ConsoleSessions*: a thread (`thr`) is a request at its step; looking a session
up, reading the record's identity, loading the record and keeping its floor are
four steps (`Look`, `Stat`, `Load`, `Keep`), because `iris-gui-admin` (`Reset`)
writes the record from another process. `sess` keeps for every session the
password it was opened with, which the code does not.

*ConsoleCalls*: a handler is a record of its refusals, its changes in order with
the ways each can fail, and whether it writes an audit row; `Operations` is the
table of the changing operations of the API. `CallStep` takes one call from the
authorization over the body, the idempotency entry, the changes, the row and the
entry's completion to the answer. `OwnedResources` and `TeardownAccepts` are the
ownership rules of deployment records, compared over the router types.

### KeyedState, AuditTrail, AuditExport

*KeyedState*: `document`, `marker` and `shard` are the files, `holder` the file
locks; a user of the store ensures the migration (bucket by bucket, then the
rename and the guard it leaves) and then updates, deletes, sweeps or reads, with
a lock per bucket for writers and none for readers. `held` collects what a row
was while a read was under way.

*AuditTrail*: `AppendEvent` writes a line, whole or cut, and prunes on every
`PRUNE_EVERY`-th append of its process; `Indexed` extends or rebuilds a reader's
index of the file it finds; `ReadPage` is a page by cursor. Inodes that were freed
may be used again.

*AuditExport*: a save is up to three writes (`SavePause`, `SaveSecret`,
`SaveWrite`), a clear two, under one lock; an export takes the pair under it, runs
without it and records its result. `CloseExports` and `DrainExports` are the
shutdown.

## 3. Runs that pass

| Run | Question | Shape of the instance |
|---|---|---|
| `store` | Do ETags, slots and cursor stay consistent under edits, deletion, recreation, a crash and a backward clock step, and is every slot accounted for? | 2 ids, 3 edits, or 2 with a crash or a clock step; one claim per pass, targets that may never resolve |
| `assign_job` | Does manual work win, is nothing written without live authority, and is the ledger implemented? | 1 device, 3 images, limit 2; 3 mixes: manual work with two quarantines, manual work with quarantine and a crash, or the schedule, the registration, the credentials and the clock changing with a crash |
| `assign_overlap` | Two occurrences (merge, replace) on one device: one write each, and none erases unseen work? | 2 occurrences, 2 images, manual write, crash |
| `assign_interrupted` | Does an occurrence of two devices end, with every device reported and every write remembered? | stop, crash, failing call, one each |
| `image_sweep` | Is a completed quarantine assigned nowhere? | 2 images, 2 contents, 2 assignments, release, deletion, feed that changes, `iris-publish` |
| `image_converge` | Is an interrupted quarantine finished and its image not served again; does a reported verification cover the job's image? | 2 devices, 2 console jobs, fleet change, failure, restart; rows deferred, missing, ambiguous or changed |
| `instructions` | `AcceptSafe`, `RollbackOnlyOnRepeatedHints`, `DeviceConverges`; `StamperSafe`, `StampsOnlyAdvance`, `StampsConverge`; `KeysSafe`, `RevocationsGrow`, `NoDeviceAtSwitch`, `AdmittedReplacementEnds`; `IdentitySafe` (`LedgerValid`, `RetryAppliesOnce`, `ManifestHolds`, `ListUnderCheckpoint`), `IdentitySteps` (`FloorOnlyRises`, `WithdrawalStands`, `FreshAfterWithdrawal`, `ActivationFollowsApproval`, `OriginFollowsMode`), `IdentityReturns` | 8 mixes of events; 1 device, 2 producers, 2 role bodies, 3 mixes; 3 keys, 3 keylists, 3 days, 11 mixes; 1 device, 2 consoles, up to 3 reviews, 7 mixes |
| `device` | `StagingSafe`, `ReadyIsBacked`, `OperatorFileSurvives`, `BootableFilesSurvive`, `StagingConverges`; `BundleSafe`, `LocalKeyKept`, `GuestSettles`; `RecipesSafe`, `SweepKeepsProof`, `UndeployConverges`; `CredSafe` (`NeverStranded`, `RevokedStands`, `LineageEnds`), `OverlapsKept`, `TokenArrives`; `ReportsSafe` (`CompletionReportedOnce`, `OwnEvidence`, `OwnRecords`, `OneAnswerPerRequest`, `FreshSampleAccepted`, `RecordsKeepTotal`), `ReportSteps` (`FrozenSurvives`, `PausedShowsNothing`, `PullClearsOwn`), `TransferReported` | 2 images of 2 versions on 3 platforms, 8 scenarios; 3 bundles of which one is damaged, one crash, one fault; 3 platforms, cut sessions, a reload, a swap; 5 mixes around the credentials; 10 mixes around the reports |
| `onboarding` | `JobsSafe`, `ScheduledNewOnly`, `ScheduledSameRegistration`, `JobsAndReceiptsEnd`; `BoardSafe`, `StartsVerified`, `BoardIsReleased`, `ObligationsSettle`; `CustodySafe` (`ReapedIsQuiet`, `LiveIsFenced`, `OneSessionOnBoard`, `FenceValidates`), `DiscoveryIsOver`, `LockReturns`; `RolesSafe` (`DriftOnlyFromFailure`, `RolesAreKnown`, `AbsentIsUngoverned`, `NetworksDisjoint`, `SnapshotsAgree`), `RolesSteps` (`SafeResidue`, `ConfirmedOnly`, `EnforcementContinues`, `RegistrationIsKept`), `LocksReturn` | 1 device, 2 jobs, 2 registrations, 8 scenarios; 2 attempts, 2 records, 4 budgets of crashes, faults and the operator's own changes; 2 sessions, 1 or 2 commands, a process that forks, late or lost answers, the death of each party; 2 devices, 2 roles, 2 editors, 11 plans with at most one fault and one death |
| `peers` | `BlockingSafe`, `EnforcedIsTrue`, `OnlyReviewedBlocked`, `ReleasesAreJustified`, `NoOperationLost`, `BlockingConverges`; `AnnounceSafe`, `RotationRecovers` | 2 devices and the seeder, 3 addresses of which a principal keeps 2, 16 scenes; 2 torrents, faults and kills |
| `host` | `TelemetrySafe`, `SeedingIsFinal`, `SeedingIsPublished`; `MaintenanceSafe`, `RetiredStaysRetired`, `MaintenanceEnds`; `DeploymentSafe`, `OnlyReviewedRemoved`, `RemovalIsExclusive`, `InstallationEnds`, `RemovalEnds`; `DirSafe` (`DisclosedIsRecorded`, `LedgerReopens`, `ViewsAreFresh`, `IndexIsExact`, `NeverOvercounted`), `OffersFollowPolicy`; `ConsoleSafe` (`ResetRevokes`, `OldPasswordsAreOut`, `SetupOnce`, `PollingDoesNotKeepAlive`), `FloorNeverFalls`; `CallsSafe` (`AppliedOnce`, `ReplayReportsChange`, `ChangesAreOnRecord`, `RotationRefusesNoCall`, `NewestCertificateServed`, `RecordProvesOwnership`), `CallsEnd`; `KeyedSafe` (`NoChangeLost`, `ReadsAreHonest`, `CacheIsCurrent`), `DamagedIsKept`, `StoreRests`; `TrailSafe` (`NoEventSwallowed`, `IndexIsFaithful`, `PagesMeet`, `TrailIsBounded`); `PasswordsGoWhereSent`, `DrainIsFinal`, `ResultsChangeNoDestination`, `ExportsRest` | 2 plans, a ring of 1, 4 mixes; 4 plans of two or three requests, a crash, a fault; 2 packages, one interruption (or a killed container) with a reboot, or one outside change; 2 devices, origin and a legacy client in 9 mixes; 3 threads in 8 plans; every operation once with a fault and a lost answer, and 6 repeats; 2 processes and 3 rows in 2 buckets in 9 plans; 4 mixes of up to 5 appends; 5 plans of the export |

**Why the bounds are enough.** In the store a week has two days of one unit, so
a weekly slot comes up twice before `MaxTime`, and the clock can step back over
a slot; the edits allow create, delete, recreate
under one id, and the crash can fall into any of the two-write operations. In
the assignment the window `[1, 2)` lets the clock be before, inside and after
it. One device shows everything that concerns one policy; the second device or
occurrence is there where the question is about two. In the image model two
contents and a feed that changes make an image verified, then mismatched, then
releasable. Elsewhere every file whose loss or age matters exists in at least
two generations, every cap (outbox, ring, queue, role index, hints, attempts) is
small enough to be reached, and every outside event happens once or twice and
interleaves at every step; a mix of events stands for one question (a rotation
that is cancelled and retried, a bundle damaged on the way), and events that
cannot influence one another are put into different mixes. The theorems of
section 6 remove these bounds for the properties they state.

`CHECK_DEADLOCK FALSE` appears where the system may stop: once the bounded
events are spent and everything is settled, nothing is left to do.

**Conditions.** `QuarantineStopsSeeding` is checked with neither releases nor
`iris-publish`: a quarantine that is renewed between a release and its seeder
call, or a republication, puts the torrent back, as section 5 shows for the
latter. The theorem of section 6 has the same condition. `SafeResidue` is about
the first failure of a request; what a second one leaves is not claimed.
`AppliedOnce` is about a key whose ledger entry was not evicted, expired or lost
with the process (`lost`); `TrailIsBounded` and the index properties about the
cases that section 5 does not take out. `RevokedNeverAttested` speaks of the
artifact on disk except in a tick whose own installation failed; of the list the
tick holds in memory it speaks always. `StampsConverge` leaves out a device whose
cut admission meets another key (`AdmissionRefused`). `AttributionIsStable` is
about records with a pin: the code exports provisional classifications, and those
whose pin could not be written, and may say something else later under the same
id. `RemovalEnds` leaves out the removals that stay in `fencing`: a device deployed
before the stop, a job the worker left unfinished, a container that did not end
cleanly. `OnlyReviewedBlocked` names the registry as a reason where no policy could
be read.

## 4. Fairness

`ScheduleStore`, `ScheduledAssignment` and `ImageLifecycle` state their fairness
themselves; that of the other components is in the `MC` module of their group, as
weak or strong fairness of `Runs(part, action)`, the action of a component
while it is the one that runs.

* `ScheduleStore`: weak fairness of the runner's steps (one thread, a loop that
  catches exceptions), of the second write of a deletion and of the clock.
  `ResolveError` is one of the runner's steps and may be chosen every time:
  success of resolution is not assumed.
* `ScheduledAssignment`: of the runner, of a manual writer that holds locks, of
  the restart of a stopped server (it runs under a container supervisor) and of
  the clock. Nothing is owed by operators, and no call is assumed to succeed;
  that failures end is the bound on `fault`.
* `ImageLifecycle`: of the start of a refresh and of its steps. The start is
  justified only when the operator has set the refresh schedule to daily or
  weekly; its default, `off`, starts none, and `QuarantineConverges` is not
  claimed of that setting.
* `InstructionAccept`, `AgentStaging`, `GuestBundle`: a timer (cron, EEM) starts
  tick after tick, a tick that runs goes on, a due poll is made although other
  steps come between (strong fairness: the interval is bounded by fifteen
  minutes whatever the instruction says), aria2 downloads and delays end.
* `InstructionStamper`: every producer works on; a device and a comparison are
  reached although locks are taken in between (strong fairness: the loop visits
  all devices).
* `KeyCustody`: a handler writes on and a stopped server boots. Operators repeat
  what the server tells them is unfinished: the recovery of a rotation, the
  identical retry of a keylist, the retirement of the old key, the replacement of
  trust or of the Console certificate that is already committed to. No new
  operation is owed.
* `DeviceRecipes`: a running recipe goes on and an undeploy is repeated until it
  completes, as its message asks.
* `OnboardJobs`: workers, reaper, runner and the deletion's handler run; a slow
  recipe returns once it was killed; the window closes by the clock.
* `IoxVerification`: attempts go on; recovery at start-up and the reconcile job
  are tried again although another attempt may hold the board (strong).
* `PeerIdentity`, `DeviceCredentials`, `TransferReports`: the agent's ticks and
  the lease timer go on, a missing ledger is created at the next start, the
  origin's supervisor takes its turns, and an enrollment that was minted is
  delivered.
* `IoxSupervisor`: client and supervisor run on; a reap that waits for a process
  meets its deadline in the end (strong, as scans come between).
* `FleetRoles`, `ConsoleCalls`, `KeyedState`, `AuditExport`: a request, call, use
  of the store or export that began runs on until it ends or its process dies.
  `PeerDirectory`, `ConsoleSessions` and `AuditTrail` have safety properties only.
* `PeerBlocking`, `TransferTelemetry`: the reconciler's or sampler's thread runs
  for ever (it always has a step), aria2 and the collector come back.
* `AnnounceRotation`, `HostMaintenance`, `DeploymentLifecycle`: a command that
  runs goes on, and the operator recovers or resumes what the command said is
  unfinished. These are obligations that the messages and the documentation put
  on the operator, and the liveness properties are conditional on them.

## 5. Disagreements between the code and its documentation

One has a run in which TLC finds the quoted statement violated by a short
behaviour of the model: in `assign_quarantine_sweep` the sweep writes a policy it
read earlier, without a compare-and-set, and takes an assignment made in between
with it (`catalog.py:1826`, against 1791-1793); `PROJECT.json` quotes both sides.

The others are stated as properties at the end of their modules and have no run
of their own. Checking one on the module's instance, with the outside events
named here among the budgets, shows the behaviour.

| Property | Events | What happens |
|---|---|---|
| ScheduledAssignment `SavedResultReported` | crash, revoke | A success is stored in the claim, the process dies, the device is revoked; the next visit refuses before it reads the claim and the receipt says skipped. |
| `ShutdownClosesNothing` | stop | The stop event arrives between two reads of one visit: the device is closed as `runner_stopping` with its window open (`schedule_runner.py:638`; `scheduling.md:143` says that interrupted occurrences are re-entered). |
| `ClaimsReleasedAtEnd` | crash, stop | Crash before the acknowledgement, then a stop in the first pass: the occurrence ends and its claim is never released (`schedule_runner.py:651`, against the docstring at 473). |
| `ClockStepClosesNothing` | back | The clock steps back after the intent: the device ends `window_not_open` (`schedule_runner.py:643`, against the comment at 618). |
| ImageLifecycle `VerifiedMatchesFeed` | none | Verdicts are applied by image id; an image republished since the listing gets the verdict of other bytes. |
| `CleanReleaseUsesLastVerdict` | restart, release | A crash between the two verdict files leaves an older hash, with which a release ends `verified` (`catalog.py:1762`, against 1867). |
| `OnlyReleaseLifts` | none, `Kinds = {"cli"}` | `iris-publish` replaces the entry of a quarantined image and the quarantine with it (`publish.py:307`, against `catalog.py:1863`). |
| `ReleaseKeepsSeeding` | release | A release that overtakes the sweep is followed by the sweep's seeder stop (`catalog.py:1814`, against `images.md:198`). |
| `PublishedIsSeeded` | delete | The seeder call of a deletion reaches an image published again since (`gui_images.py:136`, against `publish.py:299`). |
| `AssignedImagesExist` | delete, fleet, assign | The fleet of a deletion is listed before the lock: a device registered and assigned since does not count (`management_api.py:7994`, against `gui_images.py:84`). |
| InstructionAccept `RestartClassifiesFiles` | crash, disk | After a failed save and a crash the files are not what the restart's classification names (`instr.py:1465`). |
| `KeylistRecoverable` | disk | The write of the keylist's state fails after that of the first artifact (or a crash falls between): the artifact without a state is refused from then on (against `test_instr_verify.py:1074`). |
| InstructionStamper `AdmissionSurvivesRotation` | crash, key | A producer dies with an admission pending and the device's key is rotated: the last check compares `created_at` with the new key's and every later visit refuses (`instruction_stamper.py:487-493`, against the comment at 472-476). |
| AgentStaging `ReadyIsCurrent` | republish | An image republished between the hash and the report is reported ready (`iris_agent.py:2255`). |
| `ParkedTorrentStops` | unassign, rpc | A parked image keeps seeding when the call that stops it fails (near `iris_agent.py:1690`). |
| GuestBundle `AcceptedIsCommitted` | 2 crashes, 1 fault | A bundle is reported accepted and rolled back after (`bootstrap.sh:551` and `1511`, against `troubleshooting.md:109`). |
| DeviceRecipes `ForceCompleteIsClean` | cut, force | A forced undeploy ends complete with `ip nat outside` left (`router-uninstall.sh:704`). |
| OnboardJobs `StrandedIsUndeployable`, `RemovedLeavesNoActive` | restart; deletion | A record stranded by a restart is refused by undeploy (`deployment_records.py:23`); a removed device can keep an active record (`1242`). |
| IoxVerification `ClaimCanBeReleased` | crash | An SCP claim left behind cannot be released in every state (`iox_verification.py:2790`, `undeploy.md:166`). |
| PeerBlocking `QuarantineStillControls` | review | A quarantined approval still controls what is applied (`origin_enforcement.py:646`, `test_origin_enforcement.py:254`). |
| TransferTelemetry `EveryReplayAgrees` | torn store, `Retention = 9` | A replay after a torn store carries another instant under the same event id (`transfer_lifecycle.py:931`, against 19-22). |
| HostMaintenance `RecoveryIsAdmitted` | crash | A recovery the operator is told to request is refused (`backup_capture.py:222`, `deployment-rotation.md:147`). |

Observed while modelling, and part of the models: a producer that dies between
the unlink and the index write of `gc_roles` blocks later collections; the first
key generation cut by a crash has to be repaired by hand; a device deployed
between the drain check and the stop leaves an uninstall in `fencing`, and so do
a job that the stopped worker left unfinished and a container that was killed
(exit status 137, or out of memory), which no recovery takes for cleanly stopped
(`uninstall_docker.py:147`); a tracker that restarts while the secrets file is unreadable starts with no
revoked device.

Others are excluded from a property by a history variable that names them:

* *DeviceCredentials* (`overrun`). When the rewrite of the configuration fails,
  the process goes on with the new bearer; a second refresh in the same process
  (`instr.py:1371`, called at 1505) rotates again, and the token on flash is then
  in neither record. The comment at `catalog.py:3107` has a failed rewrite
  converge on the next tick.
* *TransferReports* (`past.unarmed`). The checkpoint of an observation writes
  `done` and `copied` to flash before the terminal report is armed; a death
  before the arm is saved leaves the completion unreported, the case the comment
  at `iris_agent.py:2041` is about for plans.
* (`past.relabelled`). The seeding-only arm does not refuse over another
  transfer's frozen report but takes its label over, so that a later arm drops
  the undelivered body; the docstring at `iris_agent.py:814` says that it is
  refused and nothing lost.
* (`past.strayed`). `adopt_plan` carries a pending report over a plan boundary
  also when nothing is frozen yet, and the report then speaks of the new
  transfer, although the comment at `telemetry_report.py:336` is about frozen
  bodies.
* *AuditTrail* (`said.recycled`). A rewrite need not land on a new inode
  (comment at `audit.py:153`): after two prunes the first inode may be free
  again, and an index whose first bytes still match is extended over another
  file. (`said.restarted`) The bound in the docstring (`audit.py:41`) is that of
  one process which is never restarted; with several it is the cap and
  `PRUNE_EVERY - 1` for each. Entries are aged by the wall clock (`audit.py:380`),
  so a clock that jumps forward empties the trail at the next prune, against the
  docstring at 29.
* *FleetRoles*. A settled snapshot may hold a row whose revision is not counted
  yet, so two pages of one revision can differ (`gui_fleet.py:846`);
  `SnapshotsAgree` says what remains. When the inventory's delete fails after the
  policy was cleaned up, a retired device stays registered without its
  quarantine. A bulk change with one row that cannot be merged fails its
  confirmation after the other rows were declared.
* *AuditExport*. The late result of an export is recorded on the destination
  that replaced its own (`last_run`); the destination itself is not changed,
  which is `ResultsChangeNoDestination`.

## 6. Proofs

All theorems hold for every value of the constants allowed by the named
assumptions of the modules (`...Assumption`), in particular for every bound on
outside events.

**ScheduleStoreProofs.** `Spec` implies always `TypeOK`, `ETagNeverRecycled`,
`OneOccurrencePerSlot`, `OccurrenceMatchesItsDefinition`,
`CursorNamesClaimedSlot`, `NoSlotSkipped`: one theorem each, from one inductive
invariant. An ETag cannot be recycled because the counter of the rows is above
every tag ever shown for the id, which a deletion hands to the retired floor
*before* the row goes (two writes, in this order). That a slot is claimed once
rests on the claim being looked up by slot and generation under the lock, and
on generations being fresh; that no slot is skipped rests on the runner's copy
of a row being compared again, under the lock, with the row that is live.

**ScheduledAssignmentProofs.** `TypeCorrect`, `AtMostOnce`, `CommitEvidence`,
`EndIsComplete`, from the invariant

    Inductive == TypeOK /\ CurrentJob /\ SnapshotExact /\ WorkIsOpen
                 /\ WritesClaimed /\ SuccessIsTrue
                 /\ EndedMeansEveryDeviceReported

`AtMostOneCommit` is not inductive: a commit is harmless only because the claim
was inserted by this visit with no earlier write (`WritesClaimed`), which holds
because a claim lives until the receipt is terminal, which needs that only open
jobs are worked on and only finished ones acknowledged (`WorkIsOpen`). That an
open job is picked rests on a list of completed devices made at the start of
the loop and not refreshed: `SnapshotExact` says it is still right for the
devices not visited yet. One lemma per group of actions shows that the
invariant is preserved.

**ScheduledAssignmentSteps.** The action properties `OperatorIntentWins`
(`ManualWorkWins`), `CommitUnderLiveAuthority` (`WritesHaveAuthority`) and
`CommitKeepsOthersWork` (`WritesKeepOthersWork`), from `Inductive` and

    Authority == CapturesBound /\ CaptureInHand /\ LiveWhileApplying
                 /\ IntentRemembered /\ WriterFlag

A capture is of the registration its occurrence was bound to and not newer than
the device's manual generation, also while the runner has it in hand and not yet
in the receipt. What the live check saw stays so while `apply` keeps its locks.
A job whose device was assigned by hand finds a later generation, or the pending
flag of a write that is not counted yet; `WriterFlag` is needed because a manual
write that fails puts the earlier flag back, which must still speak for the
writes before it.

**ScheduledAssignmentRefinement.** `Refinement`: `Spec => Ledger!Spec`, where
`commits` maps to `written`, terminal receipts to outcomes, and inactive
occurrences to `ended`. `DecideCommit` is the ledger's `Write`, a terminal receipt
(`SaveTerminal`, or a device closed without being dispatched) its `Report`,
`Finish` its `End`; all else stutters.
`SuccessIsTrue` discharges the ledger's condition on a reported success.

**ImageLifecycleProofs.** `TypeCorrect`, `QuarantineIsUnassigned`,
`VerifiedMeansListed`, from

    Inductive == TypeOK /\ Located /\ Safe
                 /\ Covered /\ OwnerCovered /\ VerifiedJobWasListed

where `Safe` is `QuarantineUnassigned` with `SweepExact`.

`SweepExact`: while a sweep has not failed, only the devices it has still to
clean hold the image. It survives concurrent assignment because `set_policy`
refuses a quarantined image, and concurrent release because a released image
cannot be quarantined again before the sweep ends (there is one run at a time).
`Covered` says that generations never run ahead of registrations and that
whoever a run's generation covers was in its listing: this is the order of
stamping and listing in `run_now`. `OwnerCovered` says the same of the job that
runs the refresh itself.

`QuarantineIsNotSeeded` proves `QuarantineStopsSeeding` as long as nobody releases
an image or publishes one that is listed (`Undisturbed`), and
`ConsoleQuarantineIsNotSeeded` derives the second half of that condition where
images are published from the console alone: `start_publish` refuses an image
that is listed, and one job at a time publishes an image. The invariant adds
`SweepStopped`: a sweep that has not failed took its image from the seeder before
it touched a policy, which is the order of `_fire_quarantine`.

**InstructionProofs.** Both ends of the instruction path. On the device,
`DeviceKeepsItsInstruction` (`AcceptSafe`) and `RollbackNeedsRepeatedHints`
(`RollbackOnlyOnRepeatedHints`) follow from

    AcceptInv == Typed /\ KeysHold /\ FilesHold /\ FloorsHold

A promotion writes four times (the previous file, the new one, the state, the end
of the previous file), and `FilesHold` says for each place in between which of the
two files a restart will find for the digest in the state file (`Backed`), also
when the save of the state fails and the tick puts back what it had (`tick.prior`).
`KeysHold` says that what the tick runs on is signed by nobody whom the list in
memory revokes, and that this list is the one on disk whenever the tick is about
to judge an envelope by it, unless its own installation or verification of the
list failed. `FloorsHold` says of every
serial that could still become the device's, in the state file, in memory, in the
candidate and in what a failed save puts back, that it is not below the last one
or was hinted often enough (`Allowed`), and that the counters of `note_hint` never
exceed the hints there were (`Counted`).

The proof corrected this property: as first stated it held only within the bounds
of the run. With two publications, a restored server and a lost state file the
device loads a last-known-good file that sets no floor, and what follows is no
rollback of a floor; and after a promotion to the hinted serial that was cut
between the save of the state and its end, the next one may be to a serial above
the hinted one that is still below the earlier. `top` is now the serial last run on under a floor, the
property speaks of hints for the serial or one below it, and the run has that mix
of events.

On the host, `StampsHaveArtifacts` (`StamperSafe`) and `StampsAdvance`
(`StampsOnlyAdvance`) follow from

    ProducerInv == ProducerTyped /\ LocksHold /\ SerialsHold /\ RolesHold

`LocksHold` is what the producer lock, the role lock and the device locks exclude.
`Recorded` says that all a device could have read lies at or below the high water
of its history, and that what lies *at* the high water has the content reserved
there: this is why a producer that dies after its commit, and whose reservation
the next one takes up, cannot put a second content under one pair. `Founded` and
`Housed` say what a producer knows at each of its steps: a collection has chosen
only generations that no row names, which stays so because rows are written under
the role lock.

**PeersProofs.** `RotationSafe`: the rotation keeps `AnnounceSafe`
(`OldBytesKept`, `ClaimIsServed`, `NoGoIsReported`, `DownloadsAccepted`). The
inductive invariant says, for every point of the command, which torrents have
been dealt with and what the manifest already admits: the credential that a
download uses is one the server accepts because the previous generation is kept
in the vault for as long as a manifest is recoverable, in the plain file and in
the ciphertext alike.

Of the blocking, `BlockingIsSafe` (the tracker's memory of aria2's list is true
whenever it is trusted), `EnforcedIsHeld` (no step says `enforced` of what aria2
does not hold, an action property) and `PeersAreSafe`, the invariant of the
`peers` run. They hold for any number of addresses; the cap is that of the
endpoints one principal keeps (`EndpointCap`). The invariant is

    BlockInductive == PolicyOK /\ ObservedOK /\ DecidedOK /\ StatusOK
                      /\ Outboxes /\ AriaOK /\ TrackerOK /\ PassOK /\ Memory

`Memory` ties what the tracker believes it applied to the session it applied it
to; since a session number is never reused, an aria2 restart between the call and
the status write makes the belief void instead of false. `PassOK` says which of
the pass's locals are still what the files held when the pass read them.
`Outboxes` bounds the outbox of every document the pass may still export.

Three more invariants, each on top of it, carry the action properties.
`Believed` (for `EnforcedIsHeld`) says what a pass knows when it says `enforced`:
without a call the list it wants is the one it remembers, and a call that was
due and not made is a reason not to say it.

`Audited` (for `OperationsReachTheTrail`: `commit_mutation` drops from the outbox
only what was exported) is about every document that may still be committed on,
restored or spoken of by a status, `Papers`. A document holds the operation that
made another only together with that document's older operations, and documents
of one epoch have one outbox (`Lineage`); so an acknowledged revision, which is
only a number and an epoch, means the same operations in whichever file is put
back. On this rests that what is acknowledged of any of them was exported, and
what the pass is about to acknowledge, too.

`Reviewed` (for `BlocksAreReviewed` and `ReleasesHaveReasons`) says that with
restrictions in force and no undecided attempt aria2 holds nothing outside the
list acknowledged last (`Backed`), that the call is made with its attempt in the
journal, and that every address on the prepared list, and every address that it
takes away, has its reason (`Planned`), in terms of what the pass read. The
announcements and edits that fall into the pass cannot disturb this, since it
works on what it read under its locks.

`PeerStepsHold` puts the four together as `PeerSteps`. The proof corrected two
properties: as first stated, `OnlyReviewedBlocked` and `ReleasesAreJustified`
held only within the bounds of the run. Two queued announces of one device, an
approval that a changed policy keeps from being applied, and shared addresses
that a control retains, lead outside; both now refer to where the pass knew a
principal to be (`KnownAt`).

**HostProofs.** `PasswordsStayWithTheirSite` and `DrainedExportsStayAtRest`, from

    ExportInv == ExportTypes /\ PairsAgree /\ DrainedRests

The files of the export are two, and `PairsAgree` says that they belong together
between the writes as well: while a save is between pausing and the secret there
is no destination, and the destination is written last. `EndedSessionsAreNotServed`
(`ConsoleSafe`) and `NoChangeReopensSessions` (`FloorNeverFalls`) follow from
`ConInv`: a thread's copy of the record is at most as new as the file, the memo is
right whenever its key is the file's (`ThreadKnows`, `FloorsFit`), and a session
of an earlier password lies under the floor or is about to be revoked by the
thread that changed the password (`OldGoes`). The order of `Stat`, `Load` and
`Keep` in `_sessions_not_before` is what the second of these needs.

`TheStoreLosesNothing` (`KeyedSafe`) and `DamagedFilesAreLeftAlone`
(`DamagedIsKept`) are about the state files, for any number of processes, rows
and buckets, from

    KeyedInv == KeyedTypes /\ Retiring /\ NoChangeLost /\ \A p \in Users : UserFits(p)

where `UserFits` says what a process may rely on at each of its steps. Whoever
writes has seen the document retired (`WriterKnows`): this is why a migration
that merges a row into a shard never meets a writer that has changed it, although
the two use different locks. What was read under a bucket's lock is still what
the shard holds (`UnderLock`). What is kept under the version a file has is the
file's (`CacheFits`), since a write or damage changes the version. And a row that
a reader does not have yet lies in a shard that it has still to read, because the
document is read before the shards are listed and rows move in that direction
only (`ReadSoFar`). `Retiring` ties the three files together: the marker appears
with the rename, and until then a shard holds copies of the document's rows. The
proof needed one fact the runs had not pointed to: a reader that noted the marker
may rely on it, because the marker never goes.

## 7. Only model-checked

* Liveness (`EverySlotAccountedFor`, `EveryOccurrenceEnds`,
  `QuarantineConverges`, and the temporal property of every group): temporal
  reasoning under fairness is outside the prover's reach.
* The invariants and action properties of the groups `device` and `onboarding`,
  those of the keys and the identities (`KeyCustody`, `PeerIdentity`) in the group
  `instructions`, and of `host` all but those of the sessions, the export and the
  state files: not proved yet.
* What `ParseSnapshot`, `SanitizeRecords`, `Histogram`, `OwnedResources` and
  `OccurrenceSlot` compute is compared with a second definition over small inputs
  only: induction over data is outside the prover's reach.

## 8. Abstractions

* *Common.* A shard update is one atomic durable step, which is what `os.replace`
  under the shard lock gives its callers. Ordered image lists are sets. A digest
  is the thing digested, a certificate what it certifies. Wording, audit records
  and metrics are left out.
* *ScheduleStore.* One zone without daylight saving; store size limits and the
  wave annotation are left out.
* *ScheduledAssignment.* Retry delays and the dispatch budget are shorter than
  a unit of the clock. The two reads of `_admission_reason` are one step.
  `Acknowledge` takes the membership lock even for a receipt without a capture.
  Role refusals, waves and legacy device identities are left out; the onboard
  verb is in OnboardJobs.
* *ImageLifecycle.* A content stands for bytes, digests and (with the id) info
  hash. The feed is reduced to the rows that an image's name and size select;
  its download, signature and parsing, and uploads with their reservations, are
  left out. The entry read and the seeder stop of a sweep are one step, and so
  are a device's retirement and its purge. One release and one deletion run at a
  time.
* *InstructionAccept.* An (epoch, serial) pair is one ordered number. A keylist
  is its sequence number.
* *InstructionStamper.* A device is registered after the activation (the refusals
  of an earlier `registered_at`, `instruction_stamper.py:467-469`, are left out);
  the cap on admissions is not reached.
* *PeerBlocking.* The order of a principal's announces is not kept, so any of its
  other addresses may be the one pushed out. The caps on all principals and on the
  addresses of a review are not reached, and the origin's configured address is
  valid.
* *TransferTelemetry.* The file of pins can be read; a report is attributed
  as a whole, by one address.
* *KeyCustody.* The timer of `key_maintenance` is left out: its operations are.
* *AgentStaging.* All images have one size; a file of full size may have holes.
  Timers, transfer statistics and peer mTLS are left out.
* *IoxVerification.* One board. A read-only command and the journal event it is
  evidence for are one step. A session is reaped before a restart ends.
* *AnnounceRotation.* The thirty-day window of a previous credential lapses only
  between commands.
* *PeerIdentity.* One device. Certificates and keys are numbers in the order of
  their issue; encodings and the handshake are left out.
* *DeviceCredentials.* A copy of the store can be read or not; encryption is no
  more than that.
* *TransferReports.* One device and image; the device's clock is monotonic; a lost
  state file, and one older than `report_transfer_id`, do not occur; telemetry and
  the stream are on, the cadence is open, byte caps are not reached. The caps are
  `FailBad` 1, `ReportTries` 2, `HookRows` 2, `NamedRows` and `StoredRows` 1.
* *IoxSupervisor.* One fork per session; sessions start one after another and only
  the first discovers. A reap that ends on its deadline counts the processes it
  knows of (`Doubtful` takes it out of `ReapedIsQuiet`). A wait that times out at
  the client ends the session.
* *FleetRoles.* Validation of a record is a flag; quality-of-service settings and
  the policy's outbox are left out; requests name the current revision, and as
  policy writers hold the role lock their compare-and-set does not fail. One
  explicit ACL.
* *PeerDirectory.* One torrent; a client does not overlap its own announces.
* *ConsoleSessions.* The clock is monotonic; sessions expire when looked at; their
  count is left out.
* *ConsoleCalls.* A handler's effect is that it happened; a refusal of a called
  service changes nothing; failures to write the audit row, which are swallowed,
  are left out. Schedule changes and the quarantine of a device by `PUT` write no
  row.
* *KeyedState.* A value is the number of its changes; validators are the
  difference between a readable and a damaged file; a rename is durable.
* *AuditTrail.* Offsets are line positions; filters of a listing are left out.
* *AuditExport.* Copy and encryption are one step; records of finished jobs and the
  timeouts of a drain are left out.
* *HostMaintenance, DeploymentLifecycle.* Archive formats, encryption, the split
  and Kubernetes targets and the jobs container are left out.

## 9. Not modelled

* Wave gates between schedules (`ScheduleRunner._wave`): left for later.
* The bounded request pool: an admission semaphore in front of the handlers.
* Metrics, spans and the peer ledger of `telemetry.py`: observations without an
  influence on the state.
* Console UI, HTTP routing, schema validation and the OpenAPI contract: no
  durable state of their own.
* Packaging, the Kubernetes and split targets, the aria2 build and its patches,
  the lab: outside the running system.

## 10. Plan

1. Done: the modules of section 2 and the theorems of section 6.
2. Left to model: wave gates, the request pool, the split and Kubernetes targets
   of the installer.
3. Left to prove: of the group `instructions` the keys and the ledger
   (`RevocationsGrow`, `WithdrawalStands`), `device` (`SeedsWholeFiles`, `NeverStranded`),
   `onboarding` (`NoTwoRecipes`, `TurnedOffIsOwed`) and the rest of `host`
   (`AppliedOnce`, `NoEventSwallowed`).
