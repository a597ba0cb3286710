--------------------------- MODULE DeploymentLifecycle ---------------------------
(* One deployment from `irisctl install` to `irisctl uninstall`                  *)
(* (tools/iris_installer): the installation journal with its stages, resumed     *)
(* after any interruption, and the removal record that fences the writers and    *)
(* removes exactly the resources it was reviewed for.  Commands hold the journal *)
(* lock, so one runs at a time; it may be cut after any durable write.  Target   *)
(* is Docker on one host with a prebuilt kit.  File contents are numbered; 0 is  *)
(* a missing file.                                                               *)
EXTENDS Naturals, FiniteSets, Sequences

CONSTANTS
    Inputs,          \* source files and public roots reserved by the journal
    Packages,        \* native wrapper files published into artifacts/
    DeployTroubles   \* budgets of interruptions, reboots and outside changes

ASSUME DeployAssumption ==
    /\ Inputs # {} /\ Packages # {}
    /\ DeployTroubles \subseteq [cut : Nat, disturb : Nat, reboot : Nat, touched : {FALSE}]

VARIABLES
    journal,    \* installation.json: its state and the evidence of each stage
    disk,       \* what the commands leave beside it
    docker,     \* the Compose project's resources, by name
    removal,    \* uninstall.json
    worker,     \* the lifecycle worker: its systemd unit, an unfinished job
    fleet,      \* whether a device still runs IRIS
    cmd,        \* the command that holds the lock: its step and arguments
    dleft       \* what may still go wrong

deployVars == <<journal, disk, docker, removal, worker, fleet, cmd, dleft>>

Stages == {"prepared", "imageIntent", "images", "server", "signing", "intent", "generated", "packages",
           "guestshell"}
Containers == {"server", "console"}
Resources == Containers \cup {"network", "volume"}
Foreign == 9           \* bytes of somebody else

Idle == [step |-> "idle", cert |-> FALSE, recovery |-> FALSE, purge |-> FALSE]
\* clean: it runs, or its last end was an exit with 0 or 143.
Absent == [id |-> 0, owned |-> FALSE, running |-> FALSE, restart |-> FALSE, clean |-> TRUE]
NoRemoval == [phase |-> "none", ids |-> [r \in Resources |-> 0], targets |-> <<>>,
              completed |-> {}, pending |-> "none", drained |-> FALSE,
              unitIntent |-> FALSE, purge |-> FALSE, journal |-> "none"]

DeployInit ==
    /\ journal = [state |-> "none", done |-> [s \in Stages |-> 0]]
    /\ disk = [inputs |-> {}, identity |-> 0, torn |-> FALSE, compose |-> 0, image |-> 0,
               secrets |-> 0, key |-> 0, approved |-> 0, cert |-> 0,
               producer |-> 0, gen |-> 0, cache |-> {},
               artifacts |-> [p \in Packages |-> 0]]
    /\ docker = [r \in Resources |-> Absent]
    /\ removal = NoRemoval
    /\ worker = [unit |-> FALSE, enabled |-> FALSE, running |-> FALSE, job |-> FALSE]
    /\ fleet = "none"
    /\ cmd = Idle
    /\ dleft \in DeployTroubles

-----------------------------------------------------------------------------
(* The journal lock and its guard.                                           *)

Goto(s) == cmd' = [cmd EXCEPT !.step = s]
Refuse == cmd' = Idle

Checkpoint(s, evidence) ==
    journal' = [state |-> s, done |-> [journal.done EXCEPT ![s] = evidence]]

\* Mutant: the guard lets a command through until resources are being removed.
RemovalGuard_Late == removal.phase # "removing"

\* A retained removal blocks every other command once it was applied.
RemovalGuard == removal.phase \in {"none", "prepared"}

At(s) == cmd.step = s /\ UNCHANGED dleft
OnlyJournal == UNCHANGED <<disk, docker, removal, worker, fleet>>
OnlyDisk == UNCHANGED <<journal, docker, removal, worker, fleet>>

-----------------------------------------------------------------------------
(* install and resume                                                        *)

\* start: identities and inputs are reserved before anything is written.
StartInstall ==
    /\ At("idle")
    /\ journal.state = "none" /\ RemovalGuard
    /\ \A r \in Resources : docker[r] = Absent
    /\ journal' = [journal EXCEPT !.state = "INITIALIZING"]
    /\ cmd' = [Idle EXCEPT !.step = "inputs"]
    /\ OnlyJournal

\* Each input is verified in a buffer and renamed into place.
PublishInput(i) ==
    /\ At("inputs") /\ i \notin disk.inputs
    /\ disk' = [disk EXCEPT !.inputs = @ \cup {i}]
    /\ OnlyDisk /\ UNCHANGED cmd

CompleteInitialization ==
    /\ At("inputs") /\ disk.inputs = Inputs
    /\ journal' = [journal EXCEPT !.state = "INITIALIZED"]
    /\ Goto("verify") /\ OnlyJournal

\* resume, with the certificate once its holder has returned it.
Resume(cert) ==
    /\ At("idle")
    /\ journal.state # "none" /\ RemovalGuard
    /\ cert <=> disk.approved # 0 /\ disk.cert = 0
    /\ cmd' = [Idle EXCEPT !.step = IF journal.state = "INITIALIZING" THEN "inputs" ELSE "verify",
                           !.cert = cert]
    /\ OnlyJournal /\ UNCHANGED journal

\* verify_inputs, verify_resource_ownership: nothing of another owner is adopted.
VerifyResources ==
    /\ At("verify")
    /\ IF \A r \in Resources : docker[r].id # 0 => docker[r].owned
       THEN Goto("prepare") ELSE Refuse
    /\ OnlyJournal /\ UNCHANGED journal

\* prepare: the identity is made once.  age-keygen cut before it wrote leaves a
\* file that is neither used nor replaced.
MakeIdentity ==
    /\ \/ /\ At("prepare") /\ journal.done["prepared"] = 0
          /\ disk.identity = 0 /\ ~disk.torn
          /\ disk' = [disk EXCEPT !.torn = TRUE] /\ Goto("keygen")
       \/ /\ At("keygen")
          /\ disk' = [disk EXCEPT !.torn = FALSE, !.identity = 1] /\ Goto("compose")
    /\ OnlyDisk

KeepIdentity ==
    /\ At("prepare") /\ journal.done["prepared"] = 0
    /\ disk.identity # 0 \/ disk.torn
    /\ IF disk.identity # 0 THEN Goto("compose") ELSE Refuse
    /\ OnlyJournal /\ UNCHANGED journal

WriteCompose ==
    /\ At("compose") /\ disk' = [disk EXCEPT !.compose = disk.identity]
    /\ Goto("prepared") /\ OnlyDisk

RecordPrepared ==
    /\ At("prepared") /\ Checkpoint("prepared", disk.compose)
    /\ Goto("build") /\ OnlyJournal

CheckPrepared ==
    /\ At("prepare") /\ journal.done["prepared"] # 0
    /\ IF disk.compose = journal.done["prepared"] THEN Goto("build") ELSE Refuse
    /\ OnlyJournal /\ UNCHANGED journal

\* acquire_images: the import is recorded before the tag exists; a tag found
\* without that record belongs to somebody else.
IntendImages ==
    /\ At("build") /\ journal.done["images"] = 0
    /\ \/ journal.done["imageIntent"] # 0 /\ Goto("import-images") /\ UNCHANGED journal
       \/ /\ journal.done["imageIntent"] = 0 /\ disk.image = 0
          /\ Checkpoint("imageIntent", 1) /\ Goto("import-images")
       \/ /\ journal.done["imageIntent"] = 0 /\ disk.image # 0
          /\ Refuse /\ UNCHANGED journal
    /\ OnlyJournal

\* import_core_image: a tag left by a cut import must hold the kit's image.
ImportImages ==
    /\ At("import-images")
    /\ \/ disk.image # Foreign /\ disk' = [disk EXCEPT !.image = 1] /\ Goto("built")
       \/ disk.image = Foreign /\ Refuse /\ UNCHANGED disk
    /\ OnlyDisk

RecordImages ==
    /\ At("built") /\ Checkpoint("images", disk.image)
    /\ Goto("bootstrap") /\ OnlyJournal

CheckImages ==
    /\ At("build") /\ journal.done["images"] # 0
    /\ IF disk.image = journal.done["images"] THEN Goto("bootstrap") ELSE Refuse
    /\ OnlyJournal /\ UNCHANGED journal

\* Compose creates what is missing under the project's labels and starts s.
Up(s, names) ==
    docker' = [r \in Resources |->
        IF r \notin names THEN docker[r]
        ELSE LET held == IF docker[r].id = 0 THEN [Absent EXCEPT !.id = 1, !.owned = TRUE]
                                             ELSE docker[r]
             IN IF r = s THEN [held EXCEPT !.running = TRUE, !.restart = TRUE, !.clean = TRUE]
                ELSE held]

\* bootstrap: the secrets are sealed to the identity of the configuration.
Bootstrap ==
    /\ At("bootstrap")
    /\ \/ /\ disk.secrets \in {0, disk.identity}
          /\ Up("server", {"server", "network", "volume"})
          /\ disk' = [disk EXCEPT !.secrets = disk.compose]
          /\ Goto("server")
       \/ /\ disk.secrets \notin {0, disk.identity}
          /\ Refuse /\ UNCHANGED <<docker, disk>>
    /\ UNCHANGED <<journal, removal, worker, fleet>>

RecordServer ==
    /\ At("server") /\ Checkpoint("server", 1)
    /\ Goto("signing") /\ OnlyJournal

\* Mutant: every attempt asks for a new key.
KeyStep_Fresh == disk.key + 1

\* signing: the online key is made once and its public half exported.
KeyStep == IF disk.key = 0 THEN 1 ELSE disk.key

OnlineKey ==
    /\ At("signing")
    /\ disk' = [disk EXCEPT !.key = KeyStep]
    /\ Goto(IF cmd.cert THEN "import" ELSE "status") /\ OnlyDisk

ImportCertificate ==
    /\ At("import")
    /\ \/ /\ disk.approved = disk.key
          /\ disk' = [disk EXCEPT !.cert = disk.key] /\ Goto("status")
       \/ disk.approved # disk.key /\ Refuse /\ UNCHANGED disk
    /\ OnlyDisk

AwaitApproval ==
    /\ At("status") /\ disk.cert # disk.key
    /\ journal' = [journal EXCEPT !.state = "WAITING"]
    /\ Refuse /\ OnlyJournal

InitializeProducer ==
    /\ At("status") /\ disk.cert = disk.key
    /\ disk' = [disk EXCEPT !.producer = IF @ = 0 THEN disk.key ELSE @]
    /\ Goto("signed") /\ OnlyDisk

RecordSigning ==
    /\ At("signed") /\ Checkpoint("signing", disk.key)
    /\ Goto("intent") /\ OnlyJournal

-----------------------------------------------------------------------------
(* Native packages: intent, generation in a private directory, publication.   *)

PackageIntent ==
    /\ At("intent")
    /\ \/ /\ journal.done["intent"] # 0
          /\ Goto("generate") /\ UNCHANGED journal
       \/ /\ journal.done["intent"] = 0
          /\ \A p \in Packages : disk.artifacts[p] = 0
          /\ Checkpoint("intent", 1) /\ Goto("generate")
       \/ /\ journal.done["intent"] = 0
          /\ \E p \in Packages : disk.artifacts[p] # 0
          /\ Refuse /\ UNCHANGED journal
    /\ OnlyJournal

\* A directory whose generation is not recorded is never adopted.
Generate ==
    /\ At("generate") /\ journal.done["generated"] = 0
    /\ disk' = [disk EXCEPT !.gen = @ + 1, !.cache = @ \cup {disk.gen + 1}]
    /\ Goto("generated") /\ OnlyDisk

\* Mutant: publication begins before the generation is recorded.
RecordGenerated_Late ==
    /\ At("generated") /\ UNCHANGED journal
    /\ Goto("publish") /\ OnlyJournal

RecordGenerated ==
    /\ At("generated") /\ Checkpoint("generated", disk.gen)
    /\ Goto("publish") /\ OnlyJournal

CheckGenerated ==
    /\ At("generate") /\ journal.done["generated"] # 0
    /\ IF journal.done["generated"] \in disk.cache THEN Goto("publish") ELSE Refuse
    /\ OnlyJournal /\ UNCHANGED journal

\* The generation this command publishes.
Generation == IF journal.done["generated"] # 0 THEN journal.done["generated"] ELSE disk.gen
Published == \A p \in Packages : disk.artifacts[p] = Generation

\* _publish_prebuilt_packages: an existing file is kept or refused, never replaced.
MayPublish(p) == disk.artifacts[p] = 0

PublishPackage(p) ==
    /\ At("publish") /\ journal.done["packages"] = 0
    /\ MayPublish(p)
    /\ disk' = [disk EXCEPT !.artifacts[p] = Generation]
    /\ OnlyDisk /\ UNCHANGED cmd

RefusePackage ==
    /\ At("publish") /\ ~Published
    /\ \/ journal.done["packages"] # 0
       \/ \E p \in Packages : ~MayPublish(p) /\ disk.artifacts[p] # Generation
    /\ Refuse /\ OnlyJournal /\ UNCHANGED journal

RecordPackages ==
    /\ At("publish") /\ Published
    /\ IF journal.done["packages"] = 0 THEN Checkpoint("packages", Generation)
                                       ELSE UNCHANGED journal
    /\ Goto("guestshell") /\ OnlyJournal

\* The server provisions and verifies the Guest Shell bundle.
RecordGuestShell ==
    /\ At("guestshell") /\ Published
    /\ Checkpoint("guestshell", Generation)
    /\ Goto("finish") /\ OnlyJournal

FinishInstall ==
    /\ At("finish")
    /\ Up("console", {"console"})
    /\ journal' = [journal EXCEPT !.state = "FINISHED"]
    /\ Refuse /\ UNCHANGED <<disk, removal, worker, fleet>>

-----------------------------------------------------------------------------
(* uninstall: plan, apply or recover, cancel                                  *)

AllOwned == \A r \in Resources : docker[r].id # 0 /\ docker[r].owned
NothingRuns == \A c \in Containers : ~docker[c].running
WorkerStopped == ~worker.running /\ ~worker.enabled
Drained == fleet # "deployed"

Targets(purge) ==
    <<"console", "server", "network">> \o (IF purge THEN <<"volume">> ELSE <<>>)
TargetSet == {removal.targets[i] : i \in DOMAIN removal.targets}

PlanRemoval(purge) ==
    /\ At("idle")
    /\ removal.phase = "none" /\ journal.state # "none"
    /\ worker.unit /\ ~worker.job /\ AllOwned /\ Drained
    /\ removal' = [NoRemoval EXCEPT !.phase = "prepared", !.purge = purge,
                        !.ids = [r \in Resources |-> docker[r].id],
                        !.targets = Targets(purge), !.journal = journal.state]
    /\ UNCHANGED <<journal, disk, docker, worker, fleet, cmd>>

CancelRemoval ==
    /\ At("idle") /\ removal.phase = "prepared"
    /\ removal' = NoRemoval
    /\ UNCHANGED <<journal, disk, docker, worker, fleet, cmd>>

\* The resources recovery expects: those of the plan without the removed ones.
Expected == {r \in Resources : r \notin removal.completed}
Inventory == {r \in Resources : docker[r].id # 0}
Intact(names) == \A r \in names : docker[r].owned /\ docker[r].id = removal.ids[r]

\* reconcile: a pending removal that took effect is completed; any other
\* difference stops the operation.
PendingGone == removal.pending # "none" /\ docker[removal.pending].id = 0
\* Mutant: only the names of what is left are compared.
Settles_Names == Inventory = Expected \ (IF PendingGone THEN {removal.pending} ELSE {})

Settles == Inventory = Expected \ (IF PendingGone THEN {removal.pending} ELSE {})
           /\ Intact(Inventory)
Settled(r) ==
    IF PendingGone THEN [r EXCEPT !.completed = @ \cup {removal.pending}, !.pending = "none"]
                   ELSE r

\* apply admits only a prepared plan, recover any unfinished operation.
ApplyRemoval(recovery) ==
    /\ At("idle")
    /\ removal.phase \in {"prepared", "fencing", "removing"}
    /\ recovery \/ removal.phase = "prepared"
    /\ journal.state = removal.journal
    /\ worker.unit \/ removal.unitIntent
    /\ Settles
    /\ removal' = Settled(removal)
    /\ cmd' = [Idle EXCEPT !.step = CASE removal.phase = "prepared" -> "admit"
                                      [] removal.phase = "fencing" -> "fence"
                                      [] removal.phase = "removing" -> "remove",
                           !.recovery = recovery, !.purge = removal.purge]
    /\ UNCHANGED <<journal, disk, docker, worker, fleet>>

AdmitRemoval ==
    /\ At("admit")
    /\ IF Drained /\ ~worker.job
       THEN removal' = [removal EXCEPT !.phase = "fencing"] /\ Goto("fence")
       ELSE Refuse /\ UNCHANGED removal
    /\ UNCHANGED <<journal, disk, docker, worker, fleet>>

\* The worker is disabled, then stopped; a job it left unfinished stops the
\* removal (jobs_idle).
DisableWorker ==
    /\ At("fence") /\ worker.enabled
    /\ worker' = [worker EXCEPT !.enabled = FALSE]
    /\ UNCHANGED <<journal, disk, docker, removal, fleet, cmd>>

StopWorker ==
    /\ At("fence") /\ ~worker.enabled
    /\ worker' = [worker EXCEPT !.running = FALSE]
    /\ IF worker.job THEN Refuse ELSE Goto("stop")
    /\ UNCHANGED <<journal, disk, docker, removal, fleet>>

Stopped(c) == ~docker[c].running /\ ~docker[c].restart /\ docker[c].clean

\* docker update --restart=no, then docker stop, of one container after the other.
\* One that does not end within the grace period is killed (clean is false), and
\* the exit status of a container found dead is read like that of one just stopped.
StopContainer(c, clean) ==
    /\ cmd.step = "stop"
    /\ ~Stopped(c) /\ (c = "server" => Stopped("console"))
    /\ \/ /\ Settles /\ docker[c].restart /\ clean
          /\ docker' = [docker EXCEPT ![c].restart = FALSE]
          /\ UNCHANGED <<cmd, dleft>>
       \/ /\ Settles /\ ~docker[c].restart /\ docker[c].running
          /\ docker' = [docker EXCEPT ![c].running = FALSE, ![c].clean = clean]
          /\ IF clean THEN UNCHANGED <<cmd, dleft>>
             ELSE dleft.cut > 0 /\ dleft' = [dleft EXCEPT !.cut = @ - 1] /\ Refuse
       \/ /\ ~Settles \/ (~docker[c].restart /\ ~docker[c].running)
          /\ clean /\ Refuse /\ UNCHANGED <<docker, dleft>>
    /\ UNCHANGED <<journal, disk, removal, worker, fleet>>

\* Mutant: the proof made before the services were stopped is trusted.
ProveDrained_Before ==
    /\ At("stop")
    /\ \A c \in Containers : Stopped(c)
    /\ removal' = [removal EXCEPT !.phase = "removing", !.drained = TRUE] /\ Goto("remove")
    /\ UNCHANGED <<journal, disk, docker, worker, fleet>>

\* The device removal is proved again when no server can deploy one any more.
ProveDrained ==
    /\ At("stop")
    /\ \A c \in Containers : Stopped(c)
    /\ IF Drained
       THEN removal' = [removal EXCEPT !.phase = "removing", !.drained = TRUE] /\ Goto("remove")
       ELSE Refuse /\ UNCHANGED removal
    /\ UNCHANGED <<journal, disk, docker, worker, fleet>>

NextTarget ==
    CHOOSE r \in TargetSet \ removal.completed :
        \A i, j \in DOMAIN removal.targets :
            removal.targets[i] = r /\ j < i => removal.targets[j] \in removal.completed

IntendTarget ==
    /\ At("remove")
    /\ TargetSet \ removal.completed # {}
    /\ IF /\ removal.drained /\ (removal.unitIntent \/ WorkerStopped)
          /\ removal.pending \in {"none", NextTarget}
          /\ Settles
       THEN removal' = [removal EXCEPT !.pending = NextTarget] /\ Goto("target")
       ELSE Refuse /\ UNCHANGED removal
    /\ UNCHANGED <<journal, disk, docker, worker, fleet>>

\* The exact identifier is removed, with every container stopped.
RemoveTarget ==
    /\ At("target")
    /\ IF Settles /\ ~PendingGone /\ NothingRuns
       THEN docker' = [docker EXCEPT ![removal.pending] = Absent] /\ Goto("removed")
       ELSE Refuse /\ UNCHANGED docker
    /\ UNCHANGED <<journal, disk, removal, worker, fleet>>

RecordTarget ==
    /\ At("removed")
    /\ IF Settles /\ PendingGone
       THEN removal' = Settled(removal) /\ Goto("remove")
       ELSE Refuse /\ UNCHANGED removal
    /\ UNCHANGED <<journal, disk, docker, worker, fleet>>

\* Mutant: the intent is recorded after the unit is gone.
IntendUnit_Late ==
    /\ At("remove")
    /\ TargetSet \subseteq removal.completed
    /\ IF Settles THEN Goto("unit") ELSE Refuse
    /\ UNCHANGED <<journal, disk, docker, removal, worker, fleet>>

IntendUnit ==
    /\ At("remove")
    /\ TargetSet \subseteq removal.completed
    /\ IF Settles THEN removal' = [removal EXCEPT !.unitIntent = TRUE] /\ Goto("unit")
                  ELSE Refuse /\ UNCHANGED removal
    /\ UNCHANGED <<journal, disk, docker, worker, fleet>>

RemoveUnit ==
    /\ At("unit") /\ worker.unit
    /\ worker' = [worker EXCEPT !.unit = FALSE]
    /\ UNCHANGED <<journal, disk, docker, removal, fleet, cmd>>

RecordUninstalled ==
    /\ At("unit") /\ ~worker.unit
    /\ removal' = [removal EXCEPT !.phase = "uninstalled"]
    /\ Refuse /\ UNCHANGED <<journal, disk, docker, worker, fleet>>

-----------------------------------------------------------------------------
(* What happens around the commands.                                         *)

\* The holder of the signing keys approves the exported request.
ApproveKey ==
    /\ disk.key # 0 /\ disk.approved = 0
    /\ disk' = [disk EXCEPT !.approved = disk.key]
    /\ OnlyDisk /\ UNCHANGED <<cmd, dleft>>

InstallWorker ==
    /\ journal.state = "FINISHED" /\ cmd = Idle /\ RemovalGuard
    /\ ~worker.unit
    /\ worker' = [worker EXCEPT !.unit = TRUE, !.enabled = TRUE, !.running = TRUE]
    /\ UNCHANGED <<journal, disk, docker, removal, fleet, cmd, dleft>>

\* The worker takes a job of the Console, and ends it.
LifecycleJob ==
    /\ worker.running /\ \A c \in Containers : worker.job \/ docker[c].running
    /\ worker' = [worker EXCEPT !.job = ~@]
    /\ UNCHANGED <<journal, disk, docker, removal, fleet, cmd, dleft>>

\* Operators deploy and undeploy devices through the running server.
ChangeFleet ==
    /\ docker["server"].running /\ docker["console"].running
    /\ \/ fleet = "none" /\ fleet' = "deployed"
       \/ fleet = "deployed" /\ fleet' = "undeployed"
    /\ UNCHANGED <<journal, disk, docker, removal, worker, cmd, dleft>>

\* A kill, a failing step or a lost answer ends the command where it is.
CutCommand ==
    /\ cmd.step # "idle" /\ dleft.cut > 0
    /\ cmd' = Idle
    /\ dleft' = [dleft EXCEPT !.cut = @ - 1]
    /\ UNCHANGED <<journal, disk, docker, removal, worker, fleet>>

\* A reboot ends the command and starts what is enabled; what is not started again
\* ended cleanly or was killed.
Reboot ==
    /\ dleft.reboot > 0
    /\ dleft' = [dleft EXCEPT !.reboot = @ - 1]
    /\ \E clean \in BOOLEAN :
          docker' = [r \in Resources |->
             [docker[r] EXCEPT !.running = docker[r].restart,
                !.clean = IF docker[r].restart THEN TRUE
                          ELSE IF docker[r].running THEN clean ELSE @]]
    /\ worker' = [worker EXCEPT !.running = worker.unit /\ worker.enabled]
    /\ cmd' = Idle
    /\ UNCHANGED <<journal, disk, removal, fleet>>

\* Somebody recreates a resource or takes its name, or removes an image, edits a
\* package or the configuration between two commands.
Disturb ==
    /\ dleft.disturb > 0
    /\ dleft' = [dleft EXCEPT !.disturb = @ - 1, !.touched = TRUE]
    /\ \/ /\ \E r \in Resources, owned \in BOOLEAN :
                docker' = [docker EXCEPT ![r] = [id |-> docker[r].id + 1, owned |-> owned,
                              running |-> r \in Containers, restart |-> r \in Containers,
                              clean |-> TRUE]]
          /\ UNCHANGED disk
       \/ /\ cmd = Idle
          /\ \/ \E p \in Packages : disk' = [disk EXCEPT !.artifacts[p] = Foreign]
             \/ disk' = [disk EXCEPT !.image = IF @ = 1 THEN 0 ELSE Foreign]
             \/ disk.compose # 0 /\ disk' = [disk EXCEPT !.compose = Foreign]
          /\ UNCHANGED docker
    /\ UNCHANGED <<journal, removal, worker, fleet, cmd>>

Undisturbed == ~dleft.touched

InstallStep ==
    \/ \E i \in Inputs : PublishInput(i)
    \/ CompleteInitialization \/ VerifyResources
    \/ MakeIdentity \/ KeepIdentity \/ WriteCompose \/ RecordPrepared \/ CheckPrepared
    \/ IntendImages \/ ImportImages \/ RecordImages \/ CheckImages
    \/ Bootstrap \/ RecordServer
    \/ OnlineKey \/ ImportCertificate \/ AwaitApproval \/ InitializeProducer \/ RecordSigning
    \/ PackageIntent \/ Generate \/ RecordGenerated \/ CheckGenerated
    \/ \E p \in Packages : PublishPackage(p)
    \/ RefusePackage \/ RecordPackages \/ RecordGuestShell \/ FinishInstall

RemovalStep ==
    \/ AdmitRemoval \/ DisableWorker \/ StopWorker
    \/ \E c \in Containers, clean \in BOOLEAN : StopContainer(c, clean)
    \/ ProveDrained \/ IntendTarget \/ RemoveTarget \/ RecordTarget
    \/ IntendUnit \/ RemoveUnit \/ RecordUninstalled

DeployNext ==
    \/ StartInstall \/ (\E cert \in BOOLEAN : Resume(cert))
    \/ InstallStep
    \/ (\E purge \in BOOLEAN : PlanRemoval(purge)) \/ CancelRemoval
    \/ (\E recovery \in BOOLEAN : ApplyRemoval(recovery))
    \/ RemovalStep
    \/ ApproveKey \/ InstallWorker \/ LifecycleJob \/ ChangeFleet
    \/ CutCommand \/ Reboot \/ Disturb

-----------------------------------------------------------------------------
(* Properties                                                                *)

DeployTypeOK ==
    /\ journal.done \in [Stages -> Nat]
    /\ disk.inputs \subseteq Inputs
    /\ disk.artifacts \in [Packages -> Nat]
    /\ docker \in [Resources -> [id : Nat, owned : BOOLEAN, running : BOOLEAN, restart : BOOLEAN,
                              clean : BOOLEAN]]
    /\ removal.phase \in {"none", "prepared", "fencing", "removing", "uninstalled"}
    /\ removal.completed \subseteq Resources
    /\ fleet \in {"none", "deployed", "undeployed"}

\* Over any number of attempts the deployment keeps one identity and one signing
\* key: the secrets open with age.txt, the certificate and the producer belong to
\* the key in use (deploy.py prepare, bootstrap, signing).
OneCustody ==
    /\ disk.secrets # 0 => disk.secrets = disk.identity
    /\ disk.approved # 0 => disk.approved = disk.key
    /\ disk.producer # 0 => disk.producer = disk.cert

\* What is in artifacts/ comes from one recorded generation: an interrupted
\* generation is never published beside another (_acquire_prebuilt_packages).
OnePackageGeneration ==
    \A p \in Packages :
        disk.artifacts[p] \in {0, Foreign, journal.done["generated"]}

\* A finished installation has every stage behind it (deploy.py resume, finish).
FinishedIsComplete ==
    journal.state = "FINISHED" =>
        /\ \A s \in Stages : journal.done[s] # 0
        /\ disk.inputs = Inputs
        /\ journal.done["packages"] = journal.done["generated"]
        /\ disk.cert = disk.key

\* Once a removal has taken something away no device runs IRIS and nothing
\* writes (uninstall.py apply, uninstall_docker.py perform).
RemovedIsQuiet ==
    (removal.completed # {} /\ Undisturbed) =>
        /\ Drained
        /\ ~worker.running
        /\ \A c \in Containers : ~docker[c].running

\* uninstalled means the targets and the unit are gone and the data that was not
\* to be purged is still there (uninstall.py apply).
UninstalledIsGone ==
    (removal.phase = "uninstalled" /\ Undisturbed) =>
        /\ \A r \in Resources : (docker[r].id = 0) <=> (r \in TargetSet)
        /\ ~worker.unit /\ ~worker.running

DeploymentSafe ==
    /\ DeployTypeOK
    /\ OneCustody
    /\ OnePackageGeneration
    /\ FinishedIsComplete
    /\ RemovedIsQuiet
    /\ UninstalledIsGone

\* Only the reviewed identity of a target disappears, and a package somebody put
\* there is not overwritten (uninstall_docker.py perform,
\* deploy.py _publish_prebuilt_packages).
OnlyReviewedRemoved ==
    /\ \A r \in Resources :
        (docker[r].id # 0 /\ docker'[r].id = 0) =>
            /\ r \in TargetSet /\ docker[r].owned /\ docker[r].id = removal.ids[r]
            /\ NothingRuns
    /\ \A p \in Packages : disk.artifacts[p] = Foreign => disk'.artifacts[p] = Foreign

\* From its first change on, a removal is the only command that works on the
\* deployment (state.py uninstall_guard).
RemovalIsExclusive ==
    removal.phase \in {"fencing", "removing", "uninstalled"} =>
        /\ journal' = journal
        /\ removal'.phase # "none"

\* An installation that is resumed is finished in the end, unless its identity
\* file was cut short, somebody interfered, or it is being removed
\* (deploy.py resume).  Holds again and again.
InstallationEnds ==
    journal.state # "none" =>
        \/ journal.state = "FINISHED" \/ ~Undisturbed
        \/ (disk.torn /\ cmd.step = "idle") \/ ~RemovalGuard

\* A removal that was admitted is finished by its recovery, unless a device was
\* deployed before the server stopped, the stopped worker left a job unfinished, a
\* container ended by a kill, or somebody interfered (uninstall.py apply): these
\* three stay in fencing, whatever recovery is asked for.  Holds again and again.
RemovalEnds ==
    removal.phase \in {"fencing", "removing"} =>
        \/ ~Undisturbed
        \/ removal.phase = "fencing" /\ (~Drained \/ worker.job)
        \/ removal.phase = "fencing" /\ \E c \in Containers : ~docker[c].clean
=============================================================================
