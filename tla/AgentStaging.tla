---------------------------- MODULE AgentStaging ----------------------------
(***************************************************************************)
(* The device agent's staging loop (device/agent/iris_agent.py): one tick  *)
(* reads the assigned set, parks what left it, and takes every image of    *)
(* the set through plan adoption, the steady-state check, verification,    *)
(* placement at the flash root and download by aria2.                      *)
(*                                                                         *)
(* The agent is a process per tick: it loads its state file (saved) into   *)
(* memory (mem) and saves it at the end, while files and aria2 live on.    *)
(* The steps of a tick are separate, so the catalog, aria2, an operator at *)
(* the device's console and a kill can come between any two of them.       *)
(*                                                                         *)
(* An image's content (its sha, its torrent) is a version number; a file   *)
(* is its content, how much of it is there and who wrote it.  A file of    *)
(* full size may still have holes.  All images have the same size.         *)
(***************************************************************************)
EXTENDS Integers, FiniteSets

CONSTANTS
    Images,         \* image ids, which are also the names of their files
    Others,         \* other files at the flash root
    Running,        \* the one of them the device runs
    MaxVersion,     \* bound on republications of an image
    Capacity,       \* images the flash holds
    MaxAttempts,    \* _ROOT_COPY_MAX_ATTEMPTS
    MaxDefers,      \* _PARK_DEFER_MAX_ATTEMPTS
    Scenarios,      \* platforms, modes, assignments and budgets to start with
    NoFile          \* no file, no record, nothing

ASSUME StagingAssumption ==
    /\ Running \in Others /\ Images \cap Others = {}
    /\ MaxVersion \in Nat \ {0} /\ Capacity \in Nat
    /\ MaxAttempts \in Nat \ {0} /\ MaxDefers \in Nat \ {0}

VARIABLES
    box,        \* the platform, its reclaim mode and the BOOT variable
    files,      \* stage dir (payload, control file, torrent), root and temp
    aria,       \* what aria2's session holds for each image
    mem,        \* the state of the running tick
    saved,      \* the state file
    job,        \* where the tick is and what it has read
    cat,        \* the catalog's images and this device's policy row
    reports,    \* what the server last heard of each image
    ghost,      \* what the operator did and what raced (for the properties)
    agBudget    \* what is left of the outside events

agentVars == <<box, files, aria, mem, saved, job, cat, reports, ghost, agBudget>>

AgEvents == {"republish", "assign", "unassign", "replan", "drop", "kill",
             "restart", "ctl", "rpc", "copy", "place", "remove", "boot", "save"}
AgSpend(e) == agBudget[e] > 0 /\ agBudget' = [agBudget EXCEPT ![e] = @ - 1]

Names == Images \cup Others
Versions == 1 .. MaxVersion
File(c, q, by) == [c |-> c, q |-> q, by |-> by]
Files == [c : 0 .. MaxVersion, q : {"part", "holes", "whole"}, by : {"agent", "operator"}]
NoAria == [st |-> "none", c |-> 0]

FreshRec ==
    [done |-> FALSE, copied |-> FALSE, sha |-> 0, ok |-> FALSE, plan |-> 0,
     replan |-> FALSE, tid |-> 0, fmt |-> FALSE, parked |-> FALSE, defer |-> 0,
     origin |-> "none", started |-> FALSE, att |-> 0, term |-> FALSE,
     begun |-> FALSE, wait |-> FALSE, chk |-> FALSE, spent |-> {}, rootf |-> FALSE]

InPlace == box.plat = "xr"
RootOf(i) == IF InPlace THEN files.stage[i] ELSE files.root[i]
FullSize(f) == f # NoFile /\ f.q # "part"

\* What target_fs reports as free; the IOx app stages in storage of its own.
Free ==
    Capacity - Cardinality({n \in Names : files.root[n] # NoFile})
             - Cardinality({i \in Images : files.tmp[i] # NoFile})
             - IF box.plat = "iox" THEN 0
               ELSE Cardinality({i \in Images : files.stage[i] # NoFile})

----------------------------------------------------------------------------
StagingInit ==
    /\ \E s \in Scenarios :
        /\ box = [plat |-> s.plat, mode |-> s.mode, boot |-> Running, queue |-> s.queue]
        /\ cat = [ver |-> [i \in Images |-> 1], set |-> s.set,
                  plan |-> [i \in Images |-> IF i \in s.set THEN 1 ELSE 0]]
        /\ files = [stage |-> [i \in Images |-> IF s.plat = "xr" THEN s.root[i] ELSE NoFile],
                    ctl |-> [i \in Images |-> FALSE],
                    torr |-> [i \in Images |-> 0],
                    root |-> [n \in Names |-> IF n \in Others THEN File(0, "whole", "operator")
                                              ELSE IF s.plat = "xr" THEN NoFile ELSE s.root[n]],
                    tmp |-> [i \in Images |-> NoFile]]
        /\ agBudget = s.budget
    /\ aria = [i \in Images |-> NoAria]
    /\ mem = [i \in Images |-> NoFile] /\ saved = mem
    /\ job = [at |-> "idle", ids |-> {}, left |-> {}, img |-> NoFile, want |-> 0, plan |-> 0,
              said |-> [i \in Images |-> "none"]]
    /\ reports = [i \in Images |-> "none"]
    /\ ghost = [touched |-> {}, swapped |-> {}, raced |-> {}, renewed |-> {}]

World1 == UNCHANGED <<cat, reports, ghost>>
Cur == job.img
Rec == mem[Cur]
Step(where) == job' = [job EXCEPT !.at = where]
\* The image is finished for this tick; its verdict waits for the heartbeat.
Say(status) == job' = [job EXCEPT !.at = "look", !.said[Cur] = status]
Put(r) == mem' = [mem EXCEPT ![Cur] = r]

\* main and run_once: the state is loaded and the policy row read.
BeginTick ==
    /\ job.at = "idle"
    /\ mem' = saved
    /\ job' = [job EXCEPT !.at = "reconcile", !.ids = cat.set, !.left = cat.set, !.img = NoFile,
                          !.said = [i \in Images |-> "none"]]
    /\ World1 /\ UNCHANGED <<box, files, aria, saved, agBudget>>

----------------------------------------------------------------------------
(* _reconcile_set *)

\* _reset_copy_failures
ResetCopy(r) == [r EXCEPT !.att = 0, !.term = FALSE, !.begun = FALSE, !.wait = FALSE,
                          !.chk = FALSE, !.spent = {}]

Stale == {i \in Images \ job.ids : mem[i] # NoFile /\ ~mem[i].parked}
Nameable(i) == mem[i].rootf \/ cat.ver[i] # 0
Parking == {i \in Stale : Nameable(i)}

\* _protect_adopted_root
Protected(i) == InPlace /\ mem[i].rootf /\ mem[i].origin # "downloaded"

\* Mutant: the provenance of the bytes outlives the assignment.
ParkedRec_KeepsOrigin(r) ==
    [r EXCEPT !.parked = TRUE, !.ok = FALSE, !.replan = FALSE, !.defer = 0]

ParkedRec(r) ==
    [r EXCEPT !.parked = TRUE, !.ok = FALSE, !.replan = FALSE, !.defer = 0, !.started = FALSE,
              !.origin = IF InPlace \/ @ # "adopted" THEN "none" ELSE @]

\* Mutant: a record nobody can name is deferred for ever.
DeferredRec_Forever(r) == [r EXCEPT !.defer = @ + 1]

\* A record nobody can name is given up after MaxDefers ticks.
DeferredRec(r) == IF r.defer + 1 >= MaxDefers THEN NoFile ELSE [r EXCEPT !.defer = @ + 1]

\* Images back in the set are un-parked, those that left it are parked: the
\* torrent is stopped and the stage copy deleted, each best-effort.  With
\* every assigned image named, purge_others sweeps what is left.
Reconcile ==
    /\ job.at = "reconcile"
    /\ mem' = [i \in Images |->
          CASE i \in job.ids /\ mem[i] # NoFile /\ mem[i].parked
                                    -> [ResetCopy(mem[i]) EXCEPT !.parked = FALSE]
            [] i \in Parking        -> ParkedRec(mem[i])
            [] i \in Stale \ Parking -> DeferredRec(mem[i])
            [] OTHER                -> mem[i]]
    /\ LET sweep == Stale # {} /\ \A i \in job.ids : cat.ver[i] # 0 \/ (mem[i] # NoFile /\ mem[i].rootf)
           swept == IF sweep THEN Images \ job.ids ELSE {}
           gone == {i \in Parking : ~Protected(i)} \cup
                      IF InPlace THEN {} ELSE swept
       IN  /\ files' = [files EXCEPT
                  !.stage = [i \in Images |-> IF i \in gone THEN NoFile ELSE @[i]],
                  !.ctl = [i \in Images |-> IF i \in swept THEN FALSE ELSE @[i]],
                  !.torr = [i \in Images |-> IF i \in swept THEN 0 ELSE @[i]]]
           /\ \/ /\ aria' = [i \in Images |-> IF i \in Parking \cup swept THEN NoAria ELSE aria[i]]
                 /\ UNCHANGED agBudget
              \/ Stale # {} /\ AgSpend("rpc") /\ UNCHANGED aria
    /\ Step("look")
    /\ World1 /\ UNCHANGED <<box, saved>>

----------------------------------------------------------------------------
(* _stage_image: lookup, plan and steady state *)

\* The next image of the set; one the catalog does not have is an error.
Lookup ==
    /\ job.at = "look" /\ job.left # {}
    /\ \E i \in job.left :
        /\ job' = IF cat.ver[i] = 0
                  THEN [job EXCEPT !.left = @ \ {i}, !.img = i, !.said[i] = "error"]
                  ELSE [job EXCEPT !.left = @ \ {i}, !.img = i, !.at = "plan",
                            !.want = cat.ver[i], !.plan = cat.plan[i]]
        /\ mem' = IF cat.ver[i] # 0 /\ mem[i] = NoFile
                  THEN [mem EXCEPT ![i] = FreshRec] ELSE mem
    /\ World1 /\ UNCHANGED <<box, files, aria, saved, agBudget>>

\* adopt_plan: a first plan names the running transfer; another plan resets
\* its evidence and asks for one re-verification of a finished image.
AdoptPlan ==
    /\ job.at = "plan"
    /\ Put(IF job.plan = 0 \/ Rec.plan = job.plan THEN Rec
           ELSE IF Rec.plan = 0 THEN [Rec EXCEPT !.plan = job.plan]
           ELSE [Rec EXCEPT !.plan = job.plan, !.ok = FALSE,
                            !.replan = Rec.done /\ Rec.copied])
    /\ Step(IF Rec.done /\ Rec.copied THEN "steady" ELSE "queue")
    /\ World1 /\ UNCHANGED <<box, files, aria, saved, agBudget>>

Migrate == files.torr[Cur] # 0 /\ Rec.tid \in {0, job.want} /\ ~Rec.fmt
ContentOk == Rec.sha = job.want
SteadyOk == ContentOk /\ files.stage[Cur] # NoFile /\ FullSize(RootOf(Cur)) /\ ~Migrate
Hashes(f) == f # NoFile /\ f.q = "whole" /\ f.c = job.want

\* What aria2 makes of a torrent: it resumes from a control file, starts from
\* nothing, and believes a file without a control file to be complete.
Added(i, c) ==
    IF files.stage[i] # NoFile /\ ~files.ctl[i]
    THEN [st |-> "seeding", c |-> c] ELSE [st |-> "loading", c |-> c]

\* download_torrent: the catalog serves the torrent of now, not of the lookup.
FetchTorrent == files.torr[Cur] = 0 \/ Rec.tid # job.want
Fetched == IF FetchTorrent THEN cat.ver[Cur] ELSE files.torr[Cur]
Racing(v) == ghost' = [ghost EXCEPT !.raced = IF v # job.want THEN @ \cup {Cur} ELSE @ \ {Cur}]

\* Mutant: a finished image aria2 forgot is not handed to it again.
Reseeds_Never == FALSE

Reseeds == /\ FullSize(files.stage[Cur]) /\ (Rec.ok \/ Rec.replan)
           /\ aria[Cur].st = "none" /\ cat.ver[Cur] # 0

\* The steady short-circuit: one hash under a new plan, and a re-add of an
\* image aria2 no longer holds.
Steady ==
    /\ job.at = "steady" /\ SteadyOk
    /\ Rec.replan => Hashes(files.stage[Cur])
    /\ IF Reseeds
       THEN \/ /\ aria' = [aria EXCEPT ![Cur] = Added(Cur, Fetched)]
               /\ files' = [files EXCEPT !.torr[Cur] = Fetched]
               /\ Put([Rec EXCEPT !.ok = TRUE, !.replan = FALSE, !.tid = job.want, !.fmt = TRUE])
               /\ Racing(Fetched)
               /\ UNCHANGED agBudget
            \/ /\ AgSpend("rpc")
               /\ Put([Rec EXCEPT !.ok = TRUE, !.replan = FALSE])
               /\ UNCHANGED <<aria, files, ghost>>
       ELSE /\ Put([Rec EXCEPT !.ok = @ \/ Rec.replan, !.replan = FALSE])
            /\ UNCHANGED <<aria, files, ghost, agBudget>>
    /\ Say("ready")
    /\ UNCHANGED <<box, saved, cat, reports>>

\* The re-verification failed: the staged file goes and is acquired again.
ReplanMismatch ==
    /\ job.at = "steady" /\ SteadyOk
    /\ Rec.replan /\ ~Hashes(files.stage[Cur])
    /\ Put([Rec EXCEPT !.done = FALSE, !.copied = FALSE, !.replan = FALSE])
    /\ files' = [files EXCEPT !.stage[Cur] = NoFile]
    /\ Say("error")
    /\ World1 /\ UNCHANGED <<box, aria, saved, agBudget>>

\* Mutant: a root copy of the right size is kept whatever its content.
CopyStands_AnyContent == FullSize(RootOf(Cur))

CopyStands == FullSize(RootOf(Cur)) /\ ContentOk

\* The re-acquire fall-through: stale content is dropped, evidence and
\* provenance go with it, and `copied` stands only for the root copy seen.
Recheck ==
    LET staged == files.stage[Cur] # NoFile
        kept == staged /\ ContentOk
        r == IF staged /\ ~ContentOk THEN ResetCopy(Rec) ELSE Rec
    IN  /\ job.at = "steady" /\ ~SteadyOk
        /\ Put([r EXCEPT !.replan = FALSE, !.ok = FALSE, !.done = kept, !.copied = CopyStands,
                         !.origin = IF kept THEN @ ELSE "none",
                         !.started = IF kept THEN @ ELSE FALSE])
        /\ files' = IF staged /\ ~ContentOk THEN [files EXCEPT !.stage[Cur] = NoFile] ELSE files
        /\ ghost' = IF ContentOk THEN ghost ELSE [ghost EXCEPT !.renewed = @ \ {Cur}]
        /\ Step("queue")
        /\ UNCHANGED <<box, aria, saved, cat, reports, agBudget>>

----------------------------------------------------------------------------
(* The legacy queue of root deletions *)

Origins(n) == IF n \in Images /\ mem[n] # NoFile /\ mem[n].rootf THEN {mem[n].origin} ELSE {}
Claimed == {Cur} \cup {i \in job.ids : TRUE}

\* Mutant: the BOOT target is looked up in the running image only.
Bootable_RunningOnly == {Running}

Bootable == {Running, box.boot}

\* A queued name goes unless it is adopted, bootable or assigned again; an
\* unreadable BOOT variable or an unknown sibling leaves the queue alone.
DrainQueue ==
    LET known == box.boot # NoFile /\ \A i \in job.ids : cat.ver[i] # 0
        doomed == {n \in box.queue \ {Cur} :
                      /\ "adopted" \notin Origins(n)
                      /\ InPlace => Origins(n) = {"downloaded"}}
        deleted == doomed \ (Bootable \cup Claimed)
    IN  /\ job.at = "queue"
        /\ IF box.queue # {} /\ known
           THEN /\ files' = [files EXCEPT !.root = [n \in Names |->
                                IF n \in deleted THEN NoFile ELSE @[n]]]
                /\ box' = [box EXCEPT !.queue = {}]
           ELSE UNCHANGED <<files, box>>
        /\ Step("complete")
        /\ World1 /\ UNCHANGED <<aria, mem, saved, agBudget>>

----------------------------------------------------------------------------
(* Verification of a complete download *)

Candidate == FullSize(files.stage[Cur]) /\ ~files.ctl[Cur]

\* The tracker transport changed: the same torrent is fetched and re-added.
Migration ==
    /\ job.at = "complete" /\ Migrate
    /\ Candidate => Hashes(files.stage[Cur])
    /\ \/ /\ files' = [files EXCEPT !.torr[Cur] = cat.ver[Cur]]
          /\ cat.ver[Cur] # 0
          /\ aria' = IF files.ctl[Cur] \/ Candidate
                     THEN [aria EXCEPT ![Cur] = Added(Cur, cat.ver[Cur])] ELSE aria
          /\ Put([Rec EXCEPT !.tid = job.want, !.fmt = TRUE])
          /\ Racing(cat.ver[Cur])
          /\ UNCHANGED <<job, agBudget>>
       \/ /\ cat.ver[Cur] = 0 \/ AgSpend("rpc")
          /\ cat.ver[Cur] = 0 => UNCHANGED agBudget
          /\ Say("error")
          /\ UNCHANGED <<files, aria, mem, ghost>>
    /\ UNCHANGED <<box, saved, cat, reports>>

\* The staged file hashes to the catalog's sha.
Verified ==
    /\ job.at = "complete" /\ Candidate /\ Hashes(files.stage[Cur]) /\ ~Migrate
    /\ LET r == IF Rec.sha \notin {0, job.want} THEN ResetCopy(Rec) ELSE Rec
       IN  Put([r EXCEPT !.ok = TRUE, !.sha = job.want, !.done = TRUE])
    /\ IF Rec.copied THEN Say("ready") ELSE Step("adopt")
    /\ World1 /\ UNCHANGED <<box, files, aria, saved, agBudget>>

\* It does not: the file and the torrent that delivered it go.
Mismatch ==
    /\ job.at = "complete" /\ Candidate /\ ~Hashes(files.stage[Cur])
    /\ Put([Rec EXCEPT !.ok = FALSE, !.done = FALSE, !.tid = 0, !.fmt = FALSE])
    /\ files' = [files EXCEPT !.stage[Cur] = NoFile, !.torr[Cur] = 0]
    /\ Say("error")
    /\ World1 /\ UNCHANGED <<box, aria, saved, agBudget>>

Incomplete ==
    /\ job.at = "complete" /\ ~Candidate /\ ~Migrate
    /\ Step("space")
    /\ World1 /\ UNCHANGED <<box, files, aria, mem, saved, agBudget>>

----------------------------------------------------------------------------
(* Reclaim *)

Protect == {Cur} \cup Bootable \cup {i \in Images : mem[i] # NoFile /\ mem[i].rootf /\ ~mem[i].parked}
Reclaimable ==
    IF box.mode = "bundle" /\ box.boot # NoFile
    THEN {n \in Names : files.root[n] # NoFile} \ Protect ELSE {}
Temps == {i \in Images : files.tmp[i] # NoFile}

\* _reclaim_for_mode, once per image and gate, and only if something ran.
\* `install remove inactive` may be refused and removes what is inactive.
Reclaim(gate) ==
    /\ job.at = gate
    /\ gate \notin Rec.spent
    /\ \/ /\ Reclaimable \cup Temps # {} /\ box.mode = "bundle" /\ box.boot # NoFile
          /\ files' = [files EXCEPT
                 !.root = [n \in Names |-> IF n \in Reclaimable THEN NoFile ELSE @[n]],
                 !.tmp = [i \in Images |-> NoFile]]
       \/ /\ box.mode = "install"
          /\ files' = [files EXCEPT
                 !.root = [n \in Names |-> IF n \in Others \ Bootable THEN NoFile ELSE @[n]]]
    /\ Put([Rec EXCEPT !.spent = @ \cup {gate}])
    /\ World1 /\ UNCHANGED <<box, aria, saved, job, agBudget>>

CanReclaim(gate) ==
    /\ gate \notin Rec.spent
    /\ \/ box.mode = "bundle" /\ box.boot # NoFile /\ Reclaimable \cup Temps # {}
       \/ box.mode = "install"

----------------------------------------------------------------------------
(* Placement at the flash root *)

\* _try_adopt_guestshell_root: IOS attests a file already at the name; a
\* different one blocks the placement, an IRIS temp copy beside it is removed.
Adopt ==
    LET f == files.root[Cur]
        same == Hashes(f)
        good == [ResetCopy(Rec) EXCEPT !.copied = TRUE, !.rootf = TRUE, !.origin = "adopted"]
        blocked == [Rec EXCEPT !.chk = TRUE, !.term = TRUE, !.wait = TRUE]
    IN  /\ job.at = "adopt"
        /\ IF InPlace \/ (Rec.chk /\ Rec.wait) \/ f = NoFile
           THEN /\ Put(IF ~InPlace /\ f = NoFile /\ Rec.chk /\ ~Rec.wait
                       THEN ResetCopy(Rec) ELSE Rec)
                /\ IF ~InPlace /\ Rec.chk /\ Rec.wait THEN Say("copy_failed")
                   ELSE Step("copyroom")
                /\ UNCHANGED <<files, ghost>>
           ELSE /\ Put(IF same /\ (files.tmp[Cur] = NoFile \/ box.boot # NoFile)
                       THEN good ELSE blocked)
                /\ files' = IF same /\ box.boot # NoFile
                            THEN [files EXCEPT !.tmp[Cur] = NoFile] ELSE files
                /\ Say(IF same /\ (files.tmp[Cur] = NoFile \/ box.boot # NoFile)
                       THEN "ready" ELSE "copy_failed")
                /\ ghost' = [ghost EXCEPT !.touched = @ \ {Cur}]
        /\ UNCHANGED <<box, aria, saved, cat, reports, agBudget>>

CopyNeeds == CASE InPlace -> 0 [] box.plat = "iox" -> 2 [] OTHER -> 1

\* The copy gate: no room for a second full image keeps the device seeding.
CopyGate ==
    /\ job.at = "copyroom"
    /\ \/ /\ Free >= CopyNeeds
          /\ IF Rec.term THEN Say("copy_failed")
             ELSE IF Rec.wait /\ Rec.att # 1 THEN Say("staging")
             ELSE Step("copy")
       \/ /\ Free < CopyNeeds /\ ~CanReclaim("copyroom")
          /\ Say("flash_full_seeding_only")
    /\ World1 /\ UNCHANGED <<box, files, aria, mem, saved, agBudget>>

\* An attempt that failed; only one that reached IOS arms the clean-up of
\* its temp copy when the attempts are used up.
Failed(started) ==
    LET n == Rec.att + 1
        begun == Rec.begun \/ started
    IN  [Rec EXCEPT !.att = n, !.begun = begun, !.wait = n > 1 /\ n < MaxAttempts,
                    !.term = n >= MaxAttempts]
FailedStatus == IF Rec.att + 1 >= MaxAttempts THEN "copy_failed" ELSE "staging"
GiveUp(started) ==
    Rec.att + 1 >= MaxAttempts /\ (Rec.begun \/ started) /\ box.boot # NoFile

\* copy_to_root, phase 1: the temp copy.  Refused before any IOS command,
\* failed with a partial temp copy, or proven.
CopyTemp ==
    /\ job.at = "copy" /\ ~InPlace
    /\ \/ /\ AgSpend("copy")            \* the running image is unknown: no attempt
          /\ Say("staging")
          /\ UNCHANGED <<files, mem>>
       \/ /\ AgSpend("copy")
          /\ Put(Failed(FALSE))
          /\ files' = IF GiveUp(FALSE) THEN [files EXCEPT !.tmp[Cur] = NoFile] ELSE files
          /\ Say(FailedStatus)
       \/ /\ AgSpend("copy")
          /\ Put(Failed(TRUE))
          /\ files' = [files EXCEPT !.tmp[Cur] =
                          IF GiveUp(TRUE) THEN NoFile
                          ELSE IF files.stage[Cur] = NoFile THEN NoFile
                          ELSE [files.stage[Cur] EXCEPT !.q = "part", !.by = "agent"]]
          /\ Say(FailedStatus)
       \/ /\ files.stage[Cur] # NoFile
          /\ files' = [files EXCEPT !.tmp[Cur] = [files.stage[Cur] EXCEPT !.by = "agent"]]
          /\ Step("rename")
          /\ UNCHANGED <<mem, agBudget>>
       \/ /\ files.stage[Cur] = NoFile
          /\ Put(Failed(TRUE))
          /\ files' = [files EXCEPT !.tmp[Cur] = NoFile]
          /\ Say(FailedStatus)
          /\ UNCHANGED agBudget
    /\ World1 /\ UNCHANGED <<box, aria, saved>>

PlacedRec(origin) == [ResetCopy(Rec) EXCEPT !.copied = TRUE, !.rootf = TRUE, !.origin = origin]

\* Phase 2: the rename, which IOS refuses over an existing file.
Rename ==
    /\ job.at = "rename"
    /\ IF files.root[Cur] = NoFile /\ files.tmp[Cur] # NoFile
       THEN /\ files' = [files EXCEPT !.root[Cur] = files.tmp[Cur], !.tmp[Cur] = NoFile]
            /\ Put(PlacedRec("downloaded"))
            /\ Say("ready")
            /\ ghost' = [ghost EXCEPT !.touched = @ \ {Cur}, !.swapped = @ \ {Cur},
                                      !.renewed = @ \ {Cur}]
       ELSE /\ Put(Failed(TRUE))
            /\ files' = IF GiveUp(TRUE) THEN [files EXCEPT !.tmp[Cur] = NoFile] ELSE files
            /\ Say(FailedStatus)
            /\ UNCHANGED ghost
    /\ UNCHANGED <<box, aria, saved, cat, reports, agBudget>>

\* Where the stage directory is the root, placing is attesting.
AttestInPlace ==
    /\ job.at = "copy" /\ InPlace
    /\ IF FullSize(files.stage[Cur])
       THEN Put(PlacedRec(IF Rec.started THEN "downloaded" ELSE "adopted")) /\ Say("ready")
       ELSE Put(Failed(FALSE)) /\ Say(FailedStatus)
    /\ World1 /\ UNCHANGED <<box, files, aria, saved, agBudget>>

----------------------------------------------------------------------------
(* Download *)

StageNeeds ==
    IF box.plat = "iox" /\ files.root[Cur] = NoFile THEN 2 ELSE 1
KeepRoot == box.plat = "iox" /\ files.root[Cur] # NoFile

SpaceGate ==
    /\ job.at = "space"
    /\ \/ Free >= StageNeeds /\ Step("fetch")
       \/ Free < StageNeeds /\ (KeepRoot \/ ~CanReclaim("space")) /\ Say("flash_full")
    /\ World1 /\ UNCHANGED <<box, files, aria, mem, saved, agBudget>>

\* A torrent of another content goes with its control file and its bytes;
\* then the torrent of the catalog is fetched.
FetchStep ==
    LET stale == files.torr[Cur] # 0 /\ Rec.tid \notin {0, job.want}
        kept == IF stale THEN 0 ELSE files.torr[Cur]
        fetch == kept = 0 \/ Rec.tid # job.want
        swept == IF stale THEN [files EXCEPT !.stage[Cur] = NoFile, !.ctl[Cur] = FALSE,
                                             !.torr[Cur] = 0] ELSE files
    IN  /\ job.at = "fetch"
        /\ IF ~fetch THEN /\ Step("add") /\ UNCHANGED <<files, mem, ghost>>
           ELSE IF cat.ver[Cur] = 0
           THEN Say("error") /\ files' = swept /\ UNCHANGED <<mem, ghost>>
           ELSE /\ files' = [swept EXCEPT !.torr[Cur] = cat.ver[Cur]]
                /\ Put([Rec EXCEPT !.tid = job.want, !.fmt = TRUE])
                /\ Racing(cat.ver[Cur])
                /\ Step("add")
        /\ UNCHANGED <<box, aria, saved, cat, reports, agBudget>>

\* Mutant: a partial file without its control file is handed to aria2.
Discards_Never == FALSE

\* aria2 does not know the file and there is no control file to resume from.
Discards == files.stage[Cur] # NoFile /\ aria[Cur].st = "none" /\ ~files.ctl[Cur]

Adds == files.stage[Cur] = NoFile \/ aria[Cur].st = "none"

\* addTorrent, only for a file that is not there or that aria2 forgot.
AddTorrent ==
    /\ job.at = "add"
    /\ \/ /\ Adds
          /\ LET base == IF Discards THEN [files EXCEPT !.stage[Cur] = NoFile] ELSE files
             IN  /\ files' = [base EXCEPT !.ctl[Cur] =
                                 base.stage[Cur] = NoFile \/ @,
                              !.stage[Cur] = IF @ = NoFile THEN File(files.torr[Cur], "part", "agent") ELSE @]
                 /\ aria' = [aria EXCEPT ![Cur] =
                        [st |-> IF base.stage[Cur] # NoFile /\ ~base.ctl[Cur] THEN "seeding" ELSE "loading",
                         c |-> files.torr[Cur]]]
          /\ Put([Rec EXCEPT !.started = TRUE])
          /\ Say("staging")
          /\ UNCHANGED agBudget
       \/ /\ Adds /\ AgSpend("rpc")
          /\ files' = IF Discards THEN [files EXCEPT !.stage[Cur] = NoFile] ELSE files
          /\ Say("error")
          /\ UNCHANGED <<aria, mem>>
       \/ /\ ~Adds
          /\ Say("staging")
          /\ UNCHANGED <<files, aria, mem, agBudget>>
    /\ World1 /\ UNCHANGED <<box, saved>>

\* The set heartbeat, and the save of the state.
EndTick ==
    /\ job.at = "look" /\ job.left = {}
    /\ reports' = [i \in Images |-> IF i \in job.ids THEN job.said[i] ELSE "none"]
    /\ \/ /\ saved' = mem /\ UNCHANGED agBudget
          /\ ghost' = [ghost EXCEPT !.touched = {i \in @ : mem[i] # NoFile /\ mem[i].copied}]
       \/ AgSpend("save") /\ UNCHANGED <<saved, ghost>>
    /\ mem' = [i \in Images |-> NoFile]
    /\ job' = [job EXCEPT !.at = "idle", !.img = NoFile, !.ids = {}, !.want = 0, !.plan = 0,
                          !.said = [i \in Images |-> "none"]]
    /\ UNCHANGED <<box, files, aria, cat>>

----------------------------------------------------------------------------
(* aria2, the server, the operator and failures *)

\* aria2 writes pieces; complete, it removes its control file and seeds.
Download(i) ==
    /\ aria[i].st = "loading"
    /\ LET f == files.stage[i]
       IN  IF f # NoFile /\ f.q = "part" /\ f.c = aria[i].c
           THEN /\ files' = [files EXCEPT !.stage[i].q = "holes"]
                /\ UNCHANGED aria
           ELSE /\ files' = IF f = NoFile THEN files
                            ELSE [files EXCEPT !.stage[i] = File(aria[i].c, "whole", "agent"),
                                               !.ctl[i] = FALSE]
                /\ aria' = [aria EXCEPT ![i].st = "seeding"]
    /\ World1 /\ UNCHANGED <<box, mem, saved, job, agBudget>>

\* aria2 or its container is restarted and its session is empty; or a
\* control file is lost with it.
AriaRestart ==
    /\ AgSpend("restart")
    /\ aria' = [i \in Images |-> NoAria]
    /\ \/ UNCHANGED files
       \/ files' = [files EXCEPT !.ctl = [i \in Images |-> FALSE]]
    /\ World1 /\ UNCHANGED <<box, mem, saved, job>>

\* The tick is killed: its memory is gone, what it did to files stays.
Kill ==
    /\ job.at # "idle" /\ AgSpend("kill")
    /\ job' = [job EXCEPT !.at = "idle", !.img = NoFile, !.ids = {}, !.left = {}, !.want = 0,
                          !.plan = 0, !.said = [i \in Images |-> "none"]]
    /\ mem' = [i \in Images |-> NoFile]
    /\ World1 /\ UNCHANGED <<box, files, aria, saved>>

\* Backoff delays pass.
Later ==
    /\ job.at = "idle"
    /\ \E i \in Images : saved[i] # NoFile /\ saved[i].wait
    /\ saved' = [i \in Images |-> IF saved[i] = NoFile THEN NoFile ELSE [saved[i] EXCEPT !.wait = FALSE]]
    /\ World1 /\ UNCHANGED <<box, files, aria, mem, job, agBudget>>

\* Assignments, plans and publications of the server.
ServerEvent ==
    /\ \E i \in Images :
        \/ /\ AgSpend("republish") /\ cat.ver[i] \in 1 .. MaxVersion - 1
           /\ cat' = [cat EXCEPT !.ver[i] = @ + 1]
           /\ ghost' = [ghost EXCEPT !.renewed = @ \cup {i}]
        \/ /\ UNCHANGED ghost /\ AgSpend("drop") /\ cat.ver[i] # 0
           /\ cat' = [cat EXCEPT !.ver[i] = 0]
        \/ /\ UNCHANGED ghost /\ AgSpend("unassign") /\ i \in cat.set
           /\ cat' = [cat EXCEPT !.set = @ \ {i}]
        \/ /\ UNCHANGED ghost /\ AgSpend("assign") /\ i \notin cat.set
           /\ cat' = [cat EXCEPT !.set = @ \cup {i}, !.plan[i] = @ + 1]
        \/ /\ UNCHANGED ghost /\ AgSpend("replan") /\ i \in cat.set
           /\ cat' = [cat EXCEPT !.plan[i] = @ + 1]
    /\ UNCHANGED <<box, files, aria, mem, saved, job, reports>>

\* The operator's hand: a file placed or removed at the root, the BOOT
\* variable changed or unreadable.
OperatorEvent ==
    /\ \E i \in Images :
        \/ /\ AgSpend("place") /\ RootOf(i) = NoFile /\ aria[i].st # "loading"
           /\ \E c \in {0, cat.ver[i]} :
                 files' = IF InPlace THEN [files EXCEPT !.stage[i] = File(c, "whole", "operator")]
                          ELSE [files EXCEPT !.root[i] = File(c, "whole", "operator")]
           /\ ghost' = [ghost EXCEPT !.touched = @ \cup {i},
                           !.swapped = IF \E s \in {mem[i], saved[i]} :
                                             s # NoFile /\ ~s.parked /\ (s.origin = "downloaded" \/ s.started)
                                       THEN @ \cup {i} ELSE @ \ {i}]
           /\ UNCHANGED box
        \/ /\ AgSpend("remove") /\ RootOf(i) # NoFile /\ aria[i].st # "loading"
           /\ files' = IF InPlace THEN [files EXCEPT !.stage[i] = NoFile]
                       ELSE [files EXCEPT !.root[i] = NoFile]
           /\ ghost' = [ghost EXCEPT !.touched = @ \cup {i}]
           /\ UNCHANGED box
        \/ /\ AgSpend("boot")
           /\ box' = [box EXCEPT !.boot = IF @ = NoFile THEN Running
                                          ELSE IF RootOf(i) # NoFile THEN i ELSE NoFile]
           /\ UNCHANGED <<files, ghost>>
    /\ UNCHANGED <<aria, mem, saved, job, cat, reports>>

TickStep ==
    \/ BeginTick \/ Reconcile \/ Lookup \/ AdoptPlan
    \/ Steady \/ ReplanMismatch \/ Recheck \/ DrainQueue
    \/ Migration \/ Verified \/ Mismatch \/ Incomplete
    \/ Reclaim("copyroom") /\ Free < CopyNeeds
    \/ Reclaim("space") /\ Free < StageNeeds /\ ~KeepRoot
    \/ Adopt \/ CopyGate \/ CopyTemp \/ Rename \/ AttestInPlace
    \/ SpaceGate \/ FetchStep \/ AddTorrent \/ EndTick

StagingNext ==
    \/ TickStep \/ (\E i \in Images : Download(i))
    \/ AriaRestart \/ Kill \/ Later \/ ServerEvent \/ OperatorEvent

StagingSpec == StagingInit /\ [][StagingNext]_agentVars

----------------------------------------------------------------------------
(* Properties *)

Recs == [done : BOOLEAN, copied : BOOLEAN, sha : 0 .. MaxVersion, ok : BOOLEAN, plan : Nat,
         replan : BOOLEAN, tid : 0 .. MaxVersion, fmt : BOOLEAN, parked : BOOLEAN,
         defer : 0 .. MaxDefers - 1, origin : {"none", "downloaded", "adopted"},
         started : BOOLEAN, att : 0 .. MaxAttempts, term : BOOLEAN, begun : BOOLEAN,
         wait : BOOLEAN, chk : BOOLEAN, spent : SUBSET {"space", "copyroom"}, rootf : BOOLEAN]
Statuses == {"none", "ready", "staging", "error", "copy_failed", "flash_full",
             "flash_full_seeding_only"}

\* The records of the state file, with their counts of attempts and of
\* deferred parks, the files and what was reported stay in their domains.
StagingTypeOK ==
    /\ \A i \in Images : mem[i] \in Recs \cup {NoFile} /\ saved[i] \in Recs \cup {NoFile}
    /\ files.stage \in [Images -> Files \cup {NoFile}]
    /\ files.root \in [Names -> Files \cup {NoFile}]
    /\ files.tmp \in [Images -> Files \cup {NoFile}]
    /\ files.torr \in [Images -> 0 .. MaxVersion] /\ files.ctl \in [Images -> BOOLEAN]
    /\ aria \in [Images -> [st : {"none", "loading", "seeding"}, c : 0 .. MaxVersion]]
    /\ reports \in [Images -> Statuses] /\ job.said \in [Images -> Statuses]

\* aria2 takes a file without a control file for complete and announces it
\* to the swarm unhashed: what it seeds is whole, and is the content of its
\* torrent unless the image was republished between lookup and fetch.
SeedsWholeFiles ==
    \A i \in Images : aria[i].st = "seeding" /\ files.stage[i] # NoFile /\ i \notin ghost.touched =>
        files.stage[i].q = "whole" /\ (files.stage[i].c = aria[i].c \/ i \in ghost.raced)

\* "ready" is said only over a whole root copy, and of the content looked up
\* in that tick unless the image was republished since the copy was placed;
\* what the operator does to the file behind the agent's back is excepted.
ReadyIsBacked ==
    \A i \in Images :
       job'.said[i] = "ready" /\ job.said[i] # "ready" /\ i \notin ghost'.touched =>
          /\ RootOf(i)' # NoFile /\ RootOf(i)'.q = "whole"
          /\ RootOf(i)'.c = job.want \/ i \in ghost.renewed

\* iris_agent.py:2255 "Content that CHANGED invalidates the root copy too, so
\* a stale sha still forces the re-placement": "ready" is never said over a
\* root copy of other content than the one looked up in that tick.
ReadyIsCurrent ==
    [][\A i \in Images :
          job'.said[i] = "ready" /\ job.said[i] # "ready" /\ i \notin ghost'.touched =>
             RootOf(i)' = NoFile \/ RootOf(i)'.c = job.want]_agentVars

AgentStep == job' # job
ReclaimStep == job.at \in {"space", "copyroom"}

\* A file the operator placed survives every step of the agent, parking
\* first of all, unless its content is not the assigned one on a platform
\* without a separate stage, space had to be reclaimed, or the operator put
\* it in the place of a download the agent still holds for its own.
OperatorFileSurvives ==
    \A i \in Images :
       LET f == RootOf(i)
       IN  f # NoFile /\ f.by = "operator" /\ i \notin ghost.swapped /\ RootOf(i)' = NoFile
              => \/ mem' = mem /\ job' = job /\ saved' = saved
                 \/ InPlace /\ job.at # "reconcile" /\ (f.c # job.want \/ ~ContentOk)
                 \/ ~InPlace /\ (ReclaimStep \/ job.at = "queue")

\* Neither the running image nor the file the device boots next is deleted
\* by a reclaim or by the queue of old deletions, whatever they were before.
BootableFilesSurvive ==
    \A n \in Names : n \in {Running, box.boot} /\ files.root[n] # NoFile
       /\ files'.root[n] = NoFile => agBudget'["remove"] < agBudget["remove"]

Settled1(i) == reports[i] \in {"copy_failed", "flash_full", "flash_full_seeding_only"}

\* Every assigned image ends up ready and seeded, or the server is told why
\* not: no forgotten download, lost control file, stale torrent or changed
\* plan leaves it waiting in silence.  Holds for good in the end.
StagingConverges ==
    \A i \in cat.set : cat.ver[i] # 0 =>
        Settled1(i) \/ (reports[i] = "ready" /\ aria[i].st = "seeding")

\* iris_agent.py:1690 "the purge sweep below drops the download once the RPC
\* is back": no image stays parked with its torrent running.
ParkedTorrentStops ==
    <>[](\A i \in Images : saved[i] # NoFile /\ saved[i].parked => aria[i].st = "none")

\* What holds in every state of the agent.
StagingSafe ==
  /\ StagingTypeOK
  /\ SeedsWholeFiles
=============================================================================
