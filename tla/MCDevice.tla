------------------------------ MODULE MCDevice ------------------------------
(* Small instances of what runs on and against a device: the agent's       *)
(* staging loop, the Guest Shell bundle launcher, the onboarding recipes,  *)
(* the device's credentials and its reports on a transfer.  They keep no   *)
(* state in common, so each behaviour runs one of them (focus) while the   *)
(* others rest in an initial state.                                        *)
EXTENDS AgentStaging, GuestBundle, DeviceRecipes, DeviceCredentials,
        TransferReports, TLC

CONSTANTS i1, i2, run, old

VARIABLE focus

deviceVars == <<focus, agentVars, guestVars, recipeVars, credVars, reportVars>>

\* Scenarios of the staging loop: platform, reclaim mode, assigned images,
\* queue of old deletions, files at the root, and outside events.
AgZero == [e \in AgEvents |-> 0]
Bare   == [i \in Images |-> NoFile]
Case(p, m, set, queue, root, b) ==
    [plat |-> p, mode |-> m, set |-> set, queue |-> queue, root |-> root,
     budget |-> b @@ AgZero]

\* A device with nothing assigned.
Resting == Case("shell", "none", {}, {}, Bare, AgZero)

MCScenarios == {Resting,
  Case("shell", "bundle", {i1}, {}, Bare,
       "restart" :> 1 @@ "kill" :> 1 @@ "replan" :> 1 @@ "rpc" :> 1),
  Case("shell", "bundle", {i1}, {}, Bare,
       "republish" :> 1 @@ "unassign" :> 1 @@ "save" :> 1),
  Case("shell", "bundle", {i1}, {}, Bare,
       "republish" :> 1 @@ "unassign" :> 1 @@ "assign" :> 1),
  Case("shell", "bundle", {i1}, {i2}, [Bare EXCEPT ![i2] = File(1, "whole", "operator")],
       "unassign" :> 1 @@ "assign" :> 1 @@ "boot" :> 1),
  Case("shell", "install", {i1}, {}, Bare,
       "drop" :> 1 @@ "unassign" :> 1 @@ "rpc" :> 1),
  Case("iox", "install", {i1}, {}, Bare,
       "place" :> 1 @@ "remove" :> 1 @@ "copy" :> 2 @@ "drop" :> 1),
  Case("xr", "none", {i1}, {}, Bare,
       "place" :> 1 @@ "unassign" :> 2 @@ "assign" :> 1),
  Case("xr", "none", {i1}, {}, Bare,
       "republish" :> 1 @@ "kill" :> 1 @@ "remove" :> 1 @@ "replan" :> 1)}

\* Outside events of the credentials.
CrZero == [e \in CredEvents |-> 0]
MCCredentials == {CrZero,
    "lost" :> 1 @@ "disk" :> 1 @@ "crash" :> 1 @@ "badkey" :> 2 @@ "time" :> 3 @@ CrZero,
    "persist" :> 1 @@ "diverge" :> 1 @@ "restart" :> 1 @@ "badkey" :> 2 @@ "time" :> 2 @@ CrZero,
    "revoke" :> 2 @@ "badkey" :> 2 @@ "rotate" :> 1 @@ "restart" :> 1 @@ CrZero,
    "revoke" :> 1 @@ "enroll" :> 1 @@ "badkey" :> 1 @@ "time" :> 2 @@ "lost" :> 1 @@ CrZero,
    "rotate" :> 2 @@ "cut" :> 1 @@ "time" :> 2 @@ CrZero}

\* Outside events of the transfer reports.
RpZero == [e \in ReportFaults |-> 0]
MCReports == {RpZero,
    "replan" :> 1 @@ "lost" :> 2 @@ "full" :> 1 @@ RpZero,
    "replan" :> 1 @@ "lost" :> 1 @@ "crash" :> 1 @@ RpZero,
    "replan" :> 1 @@ "lost" :> 1 @@ "badhash" :> 1 @@ "disk" :> 1 @@ RpZero,
    "unassign" :> 1 @@ "assign" :> 1 @@ "lost" :> 1 @@ RpZero,
    "noplan" :> 2 @@ "lost" :> 1 @@ "crash" :> 1 @@ RpZero,
    "pull" :> 2 @@ "expire" :> 1 @@ "lost" :> 1 @@ RpZero,
    "pull" :> 1 @@ "torn" :> 1 @@ "crash" :> 1 @@ "disk" :> 1 @@ RpZero,
    "fast" :> 1 @@ "late" :> 1 @@ "crash" :> 1 @@ "seen" :> 1 @@ "evict" :> 1 @@ RpZero,
    "pause" :> 1 @@ "late" :> 1 @@ "fast" :> 1 @@ "seen" :> 1 @@ RpZero,
    "loss" :> 1 @@ "replan" :> 1 @@ "slow" :> 1 @@ "full" :> 1 @@ RpZero}

Init ==
    /\ focus \in {"staging", "bundle", "recipes", "credentials", "reports"}
    /\ StagingInit /\ (focus = "staging" \/ cat.set = {})
    /\ GuestInit
    /\ RecipeInit /\ (focus = "recipes" \/ kind = "xr")
    /\ CredInit /\ (focus = "credentials" \/ credLeft = CrZero)
    /\ ReportsInit /\ (focus = "reports" \/ rleft = RpZero)

Next ==
    \/ focus = "staging" /\ StagingNext /\ UNCHANGED <<focus, guestVars, recipeVars, credVars, reportVars>>
    \/ focus = "bundle" /\ GuestNext /\ UNCHANGED <<focus, agentVars, recipeVars, credVars, reportVars>>
    \/ focus = "recipes" /\ RecipeNext /\ UNCHANGED <<focus, agentVars, guestVars, credVars, reportVars>>
    \/ focus = "credentials" /\ CredNext /\ UNCHANGED <<focus, agentVars, guestVars, recipeVars, reportVars>>
    \/ focus = "reports" /\ ReportsNext
       /\ UNCHANGED <<focus, agentVars, guestVars, recipeVars, credVars>>

\* Weak and strong fairness of what each component's processes keep doing, while
\* it is the one that runs.
\* Staging: a timer starts tick after tick, aria2 keeps downloading and delays end.
\* Bundle: the EEM watchdog fires for ever, a running tick goes on, and a
\* publication that holds the lock ends.  Recipes: the job's worker runs its recipe,
\* and an operator repeats an undeploy that did not complete, with Force once the
\* board is another one.  Credentials: the agent's ticks go on, and an enrollment is
\* delivered.  Reports: tick follows tick.
Runs(part, act) == focus = part /\ act
Fairness ==
    /\ WF_agentVars(Runs("staging", TickStep))
    /\ \A i \in Images : WF_agentVars(Runs("staging", Download(i)))
    /\ WF_guestVars(Runs("bundle", TickBegin)) /\ WF_guestVars(Runs("bundle", LaunchStep))
    /\ WF_guestVars(Runs("bundle", PublishRename))
    /\ WF_recipeVars(Runs("recipes", RecipeSteps))
    /\ WF_recipeVars(Runs("recipes", UndeployBegin(~SameBoard)))
    /\ WF_credVars(Runs("credentials", TickSteps))
    /\ WF_credVars(Runs("credentials", DeliverEnrollment))
    /\ WF_reportVars(Runs("reports", ReportTick))
    /\ SF_agentVars(Runs("staging", Later))

Spec == Init /\ [][Next]_deviceVars /\ Fairness

\* aria2 seeds whole files (iris_agent.py); an interrupted bundle exchange can be
\* restored and nothing runs mixed versions (bootstrap.sh); a deployment is whole, an
\* undeploy clean and the operator's configuration untouched (the recipes); a device
\* is never locked out by a lost answer and a revocation stands (catalog.py); a
\* report is made once and says nothing of another transfer (telemetry_report.py).
DeviceSafe ==
    /\ focus = "staging" => StagingSafe
    /\ focus = "bundle" => BundleSafe
    /\ focus = "recipes" => RecipesSafe
    /\ focus = "credentials" => CredSafe
    /\ focus = "reports" => ReportsSafe

\* No step reports an image ready without its copy, deletes an operator's file or a
\* bootable one, replaces the local key, removes the proof of an identity
\* before its key, ends an overlap early, loses an undelivered report or shows a
\* sample while the stream is paused.
DeviceSteps ==
    [][/\ focus = "staging" => ReadyIsBacked
       /\ focus = "staging" => OperatorFileSurvives
       /\ focus = "staging" => BootableFilesSurvive
       /\ focus = "bundle" => LocalKeyKept
       /\ focus = "recipes" => SweepKeepsProof
       /\ focus = "credentials" => OverlapsKept
       /\ focus = "reports" => ReportSteps
      ]_deviceVars

\* Assigned images are staged or the reason is reported, bundles are decided and
\* launched, a repeated undeploy ends, a rotated token reaches its device, and a
\* completed transfer is reported.
DeviceConverge ==
    /\ <>[](/\ focus = "staging" => StagingConverges
            /\ focus = "credentials" => TokenArrives
            /\ focus = "reports" => TransferReported)
    /\ []<>(/\ focus = "bundle" => GuestSettles
            /\ focus = "recipes" => UndeployConverges)
=============================================================================
