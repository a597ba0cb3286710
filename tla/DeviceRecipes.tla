---------------------------- MODULE DeviceRecipes ----------------------------
(***************************************************************************)
(* The recipes a job runs against one management address: onboarding and   *)
(* undeploying Guest Shell on a routed switch (device-*.sh), behind NAT on  *)
(* a router (router-*.sh) and the application of IOS-XR (xr-*.sh), with     *)
(* the read-only preflight of gui_onboard.py before an onboarding.          *)
(*                                                                         *)
(* A configuration is its set of items, an item one command or block IRIS  *)
(* sends.  A recipe is a sequence of sessions; a session that is cut has    *)
(* applied a prefix of its commands and reports failure.  A reload throws   *)
(* the running configuration away; the board at the address may be swapped. *)
(***************************************************************************)
EXTENDS Integers, Sequences, SequencesExt

CONSTANTS
  RecipeKinds,   \* platforms explored
  RecipeFaults,  \* bound: cut or lost sessions
  RecipeReloads, \* bound: reloads
  RecipeSwaps,   \* bound: replaced boards
  RecipeJobs     \* bound: onboardings

ASSUME RecipeAssumption ==
  /\ RecipeKinds \subseteq {"switch", "nat", "xr"}
  /\ {RecipeFaults, RecipeReloads, RecipeSwaps, RecipeJobs} \subseteq Nat

VARIABLES
  kind,   \* platform of the deployment
  dv,     \* the device: running, startup, application, files, board
  theirs, \* items of the running configuration that are the operator's
  drec,   \* deployment record; history: its onboarding completed, no Force since
  djob,   \* the recipe that runs
  dch     \* faults, reloads, swaps and onboardings left

recipeVars == <<kind, dv, theirs, drec, djob, dch>>

\* ios_config: what an onboarding configures, in the order of the commands.
SwitchConfig == <<"vlan", "trunk", "svi", "apphost", "irisq", "applet">>
RouterConfig == <<"vpg", "outside", "acl", "overload", "static", "apphost", "irisq", "applet">>
Configured == IF kind = "switch" THEN SwitchConfig ELSE IF kind = "nat" THEN RouterConfig ELSE <<>>

Items == {"vlan", "trunk", "svi", "apphost", "irisq", "applet", "trust",
          "vpg", "outside", "acl", "overload", "static"}
XrFiles == {"rpm", "boot", "cert", "source", "work", "key", "manifest"}
NoRecipe == [act |-> "none", pc |-> "idle", force |-> FALSE, owned |-> {}]
NoRecord == [live |-> FALSE, board |-> 0, natOwned |-> FALSE, whole |-> FALSE]

\* The device, the record and the recipe keep their shape; a recipe that takes
\* a deployment down has one on record.
RecipeTypeOK ==
  /\ kind \in RecipeKinds
  /\ dv \in [run : SUBSET Items, start : SUBSET Items, app : {"none", "up", "down"},
             files : SUBSET (XrFiles \cup {"share"}), board : {1, 2}]
  /\ drec \in [live : BOOLEAN, board : 0..2, natOwned : BOOLEAN, whole : BOOLEAN]
  /\ djob.act \in {"none", "on", "off"} /\ djob.owned \subseteq Items
  /\ dch \in [faults : 0..RecipeFaults, reloads : 0..RecipeReloads,
              swaps : 0..RecipeSwaps, jobs : 0..RecipeJobs]
  /\ djob.act = "off" => drec.live  \* what undeploy takes down is on record

RecipeInit ==
  /\ kind \in RecipeKinds
  /\ theirs \in IF kind = "nat" THEN {{}, {"outside"}} ELSE {{}}
  /\ dv = [run |-> theirs, start |-> theirs, app |-> "none", files |-> {},
           board |-> 1]
  /\ drec = NoRecord /\ djob = NoRecipe
  /\ dch = [faults |-> RecipeFaults, reloads |-> RecipeReloads,
            swaps |-> RecipeSwaps, jobs |-> RecipeJobs]

-----------------------------------------------------------------------------
SpendCut == dch.faults > 0 /\ dch' = [dch EXCEPT !.faults = @ - 1]
At3(act, pc) == djob.act = act /\ djob.pc = pc
Goto3(pc) == djob' = [djob EXCEPT !.pc = pc]
AbortRecipe == djob' = NoRecipe
SameRecipe == UNCHANGED <<kind, theirs, drec>>

\* One session with the commands s: all of them, or a prefix with a failure.
\* Done(_) is the device after the commands that were applied.
Whole3(s, Done(_)) == dv' = Done(ToSet(s)) /\ UNCHANGED dch
Cut3(s, Done(_)) == SpendCut /\ \E k \in 0..Len(s) : dv' = Done(ToSet(SubSeq(s, 1, k)))

With(set) == [dv EXCEPT !.run = @ \cup set]
Without(set) == [dv EXCEPT !.run = @ \ set]

-----------------------------------------------------------------------------
(* Onboarding.                                                              *)

\* What makes the preflight refuse: IRIS's names, an application or files
\* left over, and on a router the VPG and the NAT rules of the plan.  On
\* IOS-XR the application and the package source.
GuestCollides == \/ dv.run \cap {"apphost", "irisq", "applet", "trust"} # {}
                 \/ dv.app # "none" \/ dv.files # {}
RouterCollides == GuestCollides \/ dv.run \cap {"vpg", "acl", "overload", "static"} # {}
XrCollides == dv.app # "none" \/ "source" \in dv.files
Collides == IF kind = "switch" THEN GuestCollides ELSE IF kind = "nat" THEN RouterCollides ELSE XrCollides

NatOwned == kind = "nat" /\ "outside" \notin dv.run

\* The preflight passed and was bound into the record, then the recipe starts.
\* A routed switch is given a free VLAN; its preflight does not look.
OnboardBegin ==
  /\ djob = NoRecipe /\ ~drec.live /\ dch.jobs > 0
  /\ ~Collides /\ (kind = "switch" => "vlan" \notin theirs)
  /\ drec' = [live |-> TRUE, board |-> dv.board, natOwned |-> NatOwned, whole |-> FALSE]
  /\ djob' = [NoRecipe EXCEPT !.act = "on", !.pc = "precheck"]
  /\ dch' = [dch EXCEPT !.jobs = @ - 1]
  /\ UNCHANGED <<kind, dv, theirs>>

\* What the recipe reads and stages before it touches the device: routing,
\* clock, the inputs of the publication, a share that can be written.
Precheck(platform, next) ==
  /\ At3("on", "precheck") /\ kind = platform /\ UNCHANGED dv
  /\ \/ Goto3(next) /\ UNCHANGED dch
     \/ SpendCut /\ AbortRecipe
  /\ SameRecipe
SwitchPrecheck == Precheck("switch", "config")
RouterPrecheck == Precheck("nat", "config")
XrPrecheck == Precheck("xr", "stagefiles")

\* The configuration session; `set -e` ends the recipe when it is cut.
OnboardConfig ==
  /\ At3("on", "config")
  /\ \/ Whole3(Configured, With) /\ Goto3("enable")
     \/ Cut3(Configured, With) /\ AbortRecipe
  /\ SameRecipe

\* guestshell enable, polled; the share's directory was made before.  Without
\* the application-hosting configuration (a reload) it never runs.
OnboardEnable ==
  /\ At3("on", "enable")
  /\ \/ /\ "apphost" \in dv.run /\ Goto3("trustpoint") /\ UNCHANGED dch
        /\ dv' = [dv EXCEPT !.app = "up", !.files = {"share"}]
     \/ "apphost" \notin dv.run /\ AbortRecipe /\ UNCHANGED <<dv, dch>>
     \/ SpendCut /\ dv' = [dv EXCEPT !.app = "down", !.files = {"share"}] /\ AbortRecipe
  /\ SameRecipe

\* Mutant: a cut session for the trustpoint does not end the recipe.
OnboardTrust_Ignored ==
  /\ At3("on", "trustpoint")
  /\ \/ Whole3(<<"trust">>, With) /\ Goto3("publish")
     \/ Cut3(<<"trust">>, With) /\ Goto3("publish")
  /\ SameRecipe

\* The trustpoint is removed and made again in one session.
OnboardTrust ==
  /\ At3("on", "trustpoint")
  /\ \/ Whole3(<<"trust">>, With) /\ Goto3("publish")
     \/ Cut3(<<"trust">>, LAMBDA set : [dv EXCEPT !.run = (@ \ {"trust"}) \cup set]) /\ AbortRecipe
  /\ SameRecipe

\* artifact_preflight, the publication of the inputs, and on a router the
\* verification of every item; what fails ends the recipe before the save.
OnboardPublish ==
  /\ At3("on", "publish") /\ UNCHANGED dv
  /\ \/ /\ kind = "nat" => /\ ToSet(Configured) \cup {"trust"} \subseteq dv.run
                           /\ dv.app = "up" /\ dv.files # {}
        /\ Goto3("save") /\ UNCHANGED dch
     \/ SpendCut /\ AbortRecipe
  /\ SameRecipe

\* copy running-config startup-config; a reload in between takes the session.
OnboardSave ==
  /\ At3("on", "save") /\ AbortRecipe
  /\ \/ /\ dv' = [dv EXCEPT !.start = dv.run]
        /\ drec' = [drec EXCEPT !.whole = TRUE] /\ UNCHANGED dch
     \/ /\ SpendCut /\ dv' \in {dv, [dv EXCEPT !.start = dv.run]} /\ UNCHANGED drec
  /\ UNCHANGED <<kind, theirs>>

\* xr_https.py places package, bootstrap and certificate; then the package is
\* registered.  Registering is retried after a read of the source table.
XrStage ==
  /\ At3("on", "stagefiles")
  /\ LET Put3(set) == [dv EXCEPT !.files = @ \cup set]
     IN  \/ Whole3(<<"rpm", "boot", "cert">>, Put3) /\ Goto3("register")
         \/ Cut3(<<"rpm", "boot", "cert">>, Put3) /\ AbortRecipe
  /\ SameRecipe

XrRegister ==
  /\ At3("on", "register")
  /\ \/ dv' = [dv EXCEPT !.files = @ \cup {"source"}] /\ Goto3("activate") /\ UNCHANGED dch
     \/ SpendCut /\ dv' \in {dv, [dv EXCEPT !.files = @ \cup {"source"}]}
        /\ (UNCHANGED djob \/ AbortRecipe)
  /\ SameRecipe

XrActivate ==
  /\ At3("on", "activate")
  /\ \/ dv' = [dv EXCEPT !.app = "up"] /\ AbortRecipe
        /\ drec' = [drec EXCEPT !.whole = TRUE] /\ UNCHANGED dch
     \/ SpendCut /\ dv' \in {dv, [dv EXCEPT !.app = "up"]} /\ AbortRecipe /\ UNCHANGED drec
  /\ UNCHANGED <<kind, theirs>>

\* The container of IOS-XR takes the bootstrap file into its work directory
\* and enrols its peer identity, private key first, manifest last.
XrImport ==
  /\ kind = "xr" /\ dv.app = "up" /\ "boot" \in dv.files
  /\ dv' = [dv EXCEPT !.files = (@ \ {"boot"}) \cup {"work"}]
  /\ UNCHANGED <<kind, theirs, drec, djob, dch>>

XrEnroll ==
  /\ kind = "xr" /\ dv.app = "up" /\ "work" \in dv.files /\ "manifest" \notin dv.files
  /\ dv' = [dv EXCEPT !.files = @ \cup (IF "key" \in @ THEN {"manifest"} ELSE {"key"})]
  /\ UNCHANGED <<kind, theirs, drec, djob, dch>>

-----------------------------------------------------------------------------
(* Undeploying Guest Shell.                                                 *)

\* Mutant: the board is not compared with the record.
SameBoard_Any == TRUE

SameBoard == dv.board = drec.board

\* show version before anything is touched; Force does not compare the board.
UndeployBegin(force) ==
  /\ djob = NoRecipe /\ drec.live
  /\ kind # "xr" /\ ~force => SameBoard
  /\ djob' = [NoRecipe EXCEPT !.act = "off", !.force = force,
                !.pc = IF kind = "xr" THEN "deactivate" ELSE "timers"]
  /\ drec' = [drec EXCEPT !.whole = @ /\ ~force]
  /\ UNCHANGED <<kind, dv, theirs, dch>>

\* The applets go first.  On a switch a cut session refuses to go on, on a
\* router its result is not read.
UndeployTimers ==
  /\ At3("off", "timers")
  /\ \/ Whole3(<<"applet">>, Without) /\ Goto3("destroy")
     \/ Cut3(<<"applet">>, Without) /\ IF kind = "switch" THEN AbortRecipe ELSE Goto3("destroy")
  /\ SameRecipe

\* guestshell disable and destroy, polled: a lost poll reads as no
\* application, a destroy that was lost leaves it for the poll to report.
UndeployDestroy ==
  /\ At3("off", "destroy")
  /\ LET next == IF kind = "switch" THEN "cleanup" ELSE IF djob.force THEN "agentonly" ELSE "static"
     IN  \/ dv' = [dv EXCEPT !.app = "none"] /\ Goto3(next) /\ UNCHANGED dch
         \/ SpendCut /\ dv' \in {dv, [dv EXCEPT !.app = "none"]} /\ (Goto3(next) \/ AbortRecipe)
  /\ SameRecipe

\* Mutant: the inbound mapping is left to the verification.
NatStatic_Left == At3("off", "static") /\ Goto3("overload") /\ UNCHANGED <<dv, dch>> /\ SameRecipe

\* The recorded NAT of a router: the inbound mapping first.
NatStatic ==
  /\ At3("off", "static") /\ Goto3("overload")
  /\ \/ Whole3(<<"static">>, Without)
     \/ Cut3(<<"static">>, Without)
  /\ SameRecipe

\* IOS refuses to remove an overload rule translations refer to; cleared ones
\* come back as long as the mapping or the application is there.
Refusable == "overload" \in dv.run /\ ("static" \in dv.run \/ dv.app = "up")

\* Clear, remove, read back, up to NAT_REMOVE_ATTEMPTS times: the rule goes,
\* stays (the recipe ends), or the read is lost and taken for its absence.
NatOverload ==
  /\ At3("off", "overload")
  /\ \/ dv' = Without({"overload"}) /\ Goto3("cleanup") /\ UNCHANGED dch
     \/ Refusable /\ UNCHANGED <<dv, dch>> /\ AbortRecipe
     \/ SpendCut /\ UNCHANGED dv /\ Goto3("cleanup")
  /\ SameRecipe

\* config_cleanup in command order; the trustpoint is last, and verified.
SwitchCleanup ==
  IF djob.force THEN <<"apphost", "irisq", "trust">>
  ELSE <<"apphost", "svi", "vlan", "trunk", "irisq", "trust">>
RouterCleanup ==
  <<"apphost", "acl">> \o (IF drec.natOwned THEN <<"outside">> ELSE <<>>) \o <<"vpg", "irisq", "trust">>
CleanupNames == IF kind = "switch" THEN SwitchCleanup ELSE RouterCleanup

UndeployCleanup ==
  /\ At3("off", "cleanup") /\ Goto3("files")
  /\ \/ Whole3(CleanupNames, Without)
     \/ Cut3(CleanupNames, Without)
  /\ SameRecipe

\* Force on a router: what carries IRIS's name, whatever the session did.
ForceAgentOnly ==
  /\ At3("off", "agentonly") /\ Goto3("scan")
  /\ \/ Whole3(<<"apphost", "irisq", "trust">>, Without)
     \/ Cut3(<<"apphost", "irisq", "trust">>, Without)
  /\ SameRecipe

\* The description IRIS gives its VirtualPortGroup.
MarkedVpg == "vpg" \in dv.run \ theirs

\* iris_owned_config: names, and the mappings inside the marked subnet.
OwnedNow ==
  (dv.run \cap {"acl", "overload"}) \cup (IF MarkedVpg THEN {"vpg"} \cup (dv.run \cap {"static"}) ELSE {})

\* A scan that is lost finds nothing (`|| true`).
ForceScan ==
  /\ At3("off", "scan") /\ UNCHANGED dv
  /\ \/ djob' = [djob EXCEPT !.pc = "reclaim", !.owned = OwnedNow] /\ UNCHANGED dch
     \/ SpendCut /\ Goto3("files")
  /\ SameRecipe

\* Mapping, translations and overload, list, VPG: each a session of its own
\* whose result is not read, except that the overload is read back.
ForceReclaim ==
  /\ At3("off", "reclaim")
  /\ \/ dv' = Without(djob.owned) /\ Goto3("files") /\ UNCHANGED dch
     \/ /\ SpendCut
        /\ \E lost \in djob.owned :
             /\ dv' = Without(djob.owned \ {lost})
             /\ IF lost = "overload" THEN AbortRecipe ELSE Goto3("files")
  /\ SameRecipe

\* pending_inputs: the publication's files a router still lists; a listing
\* that cannot be read refuses.
InputsRemain == dv.files # {}

\* The files under guest-share, whatever the session did; a router lists the
\* inputs that remain before it goes on.
UndeployFiles ==
  /\ At3("off", "files")
  /\ \/ dv' = [dv EXCEPT !.files = {}] /\ Goto3("verify") /\ UNCHANGED dch
     \/ /\ SpendCut /\ UNCHANGED dv
        /\ IF kind = "nat" /\ InputsRemain THEN AbortRecipe ELSE Goto3("verify")
  /\ SameRecipe

\* Mutant: the trustpoint is not among the artifacts looked for.
SwitchLeftover_NoTrust ==
  dv.run \cap ({"applet", "irisq"} \cup (IF djob.force THEN {} ELSE {"svi"}))

\* What the verification looks for in the running configuration.
SwitchLeftover ==
  dv.run \cap ({"applet", "irisq", "trust"} \cup (IF djob.force THEN {} ELSE {"svi"}))
RouterLeftover ==
  dv.run \cap ({"applet", "irisq", "trust", "apphost"}
               \cup (IF djob.force THEN djob.owned
                     ELSE {"vpg", "acl", "overload", "static"}
                          \cup (IF drec.natOwned THEN {"outside"} ELSE {})))
Leftover == IF kind = "switch" THEN SwitchLeftover ELSE RouterLeftover

\* Mutant: the record is retired before the configuration is saved.
UndeployVerify_Retires ==
  /\ At3("off", "verify") /\ UNCHANGED <<kind, dv, theirs, dch>>
  /\ Leftover = {} /\ dv.app = "none" /\ dv.files = {}
  /\ Goto3("save") /\ drec' = [drec EXCEPT !.live = FALSE]

UndeployVerify ==
  /\ At3("off", "verify") /\ UNCHANGED dv
  /\ \/ /\ UNCHANGED dch
        /\ IF Leftover = {} /\ dv.app = "none" /\ dv.files = {} THEN Goto3("save") ELSE AbortRecipe
     \/ SpendCut /\ AbortRecipe
  /\ SameRecipe

\* The saved configuration ends it; the record is retired.
UndeploySave ==
  /\ At3("off", "save") /\ UNCHANGED <<kind, theirs>>
  /\ \/ /\ dv' = [dv EXCEPT !.start = dv.run] /\ UNCHANGED dch
        /\ djob' = [NoRecipe EXCEPT !.pc = "complete", !.force = djob.force]
        /\ drec' = [drec EXCEPT !.live = FALSE]
     \/ SpendCut /\ dv' \in {dv, [dv EXCEPT !.start = dv.run]} /\ AbortRecipe /\ UNCHANGED drec

-----------------------------------------------------------------------------
(* Undeploying IOS-XR: two sessions, the second one sweeps and verifies.    *)

\* peer_custody_safe: no identity file at all, or the manifest beside them.
CustodySafe == "key" \in dv.files => "manifest" \in dv.files

XrDeactivate ==
  /\ At3("off", "deactivate")
  /\ \/ /\ dv' = [dv EXCEPT !.app = "none"] /\ UNCHANGED dch
        /\ IF CustodySafe THEN Goto3("sweep") ELSE AbortRecipe
     \/ SpendCut /\ dv' \in {dv, [dv EXCEPT !.app = "none"]} /\ AbortRecipe
  /\ SameRecipe

\* Mutant: the manifest is deleted with the first file.
SweepOrder_ManifestFirst == <<"source", "rpm", "cert", "work", "manifest", "key">>

SweepOrder == <<"source", "rpm", "cert", "work", "key", "manifest">>

XrSweep ==
  /\ At3("off", "sweep") /\ UNCHANGED <<kind, theirs>>
  /\ LET Wipe(set) == [dv EXCEPT !.files = @ \ set]
     IN  \/ /\ Whole3(SweepOrder, Wipe)
            /\ djob' = [NoRecipe EXCEPT !.pc = "complete", !.force = djob.force]
            /\ drec' = [drec EXCEPT !.live = FALSE]
         \/ Cut3(SweepOrder, Wipe) /\ AbortRecipe /\ UNCHANGED drec

-----------------------------------------------------------------------------
(* The device and its operator.                                             *)

\* A reload takes minutes: a recipe outlives it only inside a polling loop.
Reload ==
  /\ dch.reloads > 0 /\ kind # "xr" /\ djob.pc # "complete"
  /\ dch' = [dch EXCEPT !.reloads = @ - 1]
  /\ dv' = [dv EXCEPT !.run = dv.start]
  /\ djob' = IF djob.pc \in {"enable", "destroy", "idle"} THEN djob ELSE NoRecipe
  /\ UNCHANGED <<kind, theirs, drec>>

\* Another board answers at the address, with an operator's own network that
\* happens to use the same numbers.
Swap ==
  /\ dch.swaps > 0 /\ djob = NoRecipe /\ kind # "xr" /\ drec.live /\ dv.board = 1
  /\ dch' = [dch EXCEPT !.swaps = @ - 1]
  /\ theirs' = IF kind = "nat" THEN {"vpg", "outside"} ELSE {"vlan", "svi", "trunk"}
  /\ dv' = [run |-> theirs', start |-> theirs', app |-> "none", files |-> {},
            board |-> 2]
  /\ UNCHANGED <<kind, drec, djob>>

\* The outcome was reported; the next job may come.
Report ==
  /\ djob.pc = "complete" /\ djob' = NoRecipe
  /\ UNCHANGED <<kind, dv, theirs, drec, dch>>

RecipeSteps ==
  \/ SwitchPrecheck \/ RouterPrecheck \/ XrPrecheck
  \/ OnboardConfig \/ OnboardEnable \/ OnboardTrust \/ OnboardPublish \/ OnboardSave
  \/ XrStage \/ XrRegister \/ XrActivate
  \/ UndeployTimers \/ UndeployDestroy \/ NatStatic \/ NatOverload \/ UndeployCleanup
  \/ ForceAgentOnly \/ ForceScan \/ ForceReclaim \/ UndeployFiles \/ UndeployVerify \/ UndeploySave
  \/ XrDeactivate \/ XrSweep \/ Report

RecipeNext ==
  \/ OnboardBegin \/ \E force \in BOOLEAN : UndeployBegin(force)
  \/ RecipeSteps \/ XrImport \/ XrEnroll \/ Reload \/ Swap

RecipeSpec == RecipeInit /\ [][RecipeNext]_recipeVars

-----------------------------------------------------------------------------
\* A recorded undeploy that reports completion of a whole deployment (one
\* that was completed and that Force has not worked on since) left
\* nothing of it on the device, neither in the running configuration nor in
\* what the next boot loads: not the items its verification reads, and not
\* those it does not (the VLAN, the trunk's list), although cut sessions are
\* not fatal to it.  (An `ip nat outside` a Force left behind counts as the
\* operator's from then on.)
CompleteIsClean ==
  djob.pc = "complete" /\ ~djob.force /\ drec.whole =>
    /\ dv.app = "none" /\ dv.files \subseteq {"boot"}
    /\ dv.run \cup dv.start \subseteq theirs \cup (IF drec.natOwned THEN {} ELSE {"outside"})

\* Nothing the operator configured is ever taken from the running or the
\* saved configuration: not the marking that was there before, not the
\* network of another board at the address, not the one Force finds.
OperatorConfigKept == theirs \subseteq dv.run /\ theirs \subseteq dv.start

\* A deployment that was recorded as whole and that nothing has touched since
\* survives a reload: everything IRIS configured is in the saved
\* configuration too.
DeployedIsWhole ==
  drec.live /\ drec.whole /\ dv.board = drec.board /\ djob = NoRecipe /\ dv.app = "up" =>
    ToSet(Configured) \subseteq dv.start /\ (kind # "xr" => "trust" \in dv.start)

\* An identity the device holds can be proved IRIS's as long as any file of
\* it is left, so that an undeploy cut anywhere can be finished: once the
\* manifest was written, a key never stands alone.
SweepKeepsProof ==
  kind = "xr" /\ "manifest" \in dv.files /\ "manifest" \notin dv.files'
    => "key" \notin dv.files'

\* Repeating the undeploy comes to an end whatever was cut, lost, reloaded or
\* replaced before, except for an IOS-XR identity whose enrolment never
\* wrote its manifest.  Holds again and again.
UndeployConverges == ~drec.live \/ ~CustodySafe

\* router-uninstall.sh: what the reclaim step of Force removes must be gone
\* before the device counts as clean.
ForceCompleteIsClean ==
  djob.pc = "complete" /\ djob.force /\ kind = "nat" =>
    dv.run \cap {"vpg", "acl", "overload", "static"} \subseteq theirs

\* What holds in every state of a device and its record.
RecipesSafe ==
  /\ RecipeTypeOK
  /\ CompleteIsClean
  /\ OperatorConfigKept
  /\ DeployedIsWhole
=============================================================================
