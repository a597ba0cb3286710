-------------------------------- MODULE MCHost --------------------------------
(* Small instances of what runs beside the server on its host: the transfer  *)
(* telemetry it exports, the maintenance worker that backs it up, restores it *)
(* and rotates its credentials, the installer, the tracker's directory of    *)
(* peers, the sessions of the Console and its calls to the management API,   *)
(* the per-device state files, the audit trail and its export.               *)
(* Each behaviour runs one of them (focus) while the others rest.            *)
EXTENDS TransferTelemetry, HostMaintenance, DeploymentLifecycle, PeerDirectory,
        ConsoleSessions, ConsoleCalls, KeyedState, AuditTrail, AuditExport

VARIABLE focus

serviceVars == <<telVars, maintVars, deployVars, dirVars, conVars, callVars>>
recordVars == <<keyedVars, trailVars, exportVars>>
hostVars == <<focus, serviceVars, recordVars>>

\* Outside events around the telemetry threads.
Spent == [e \in {"mint", "withdraw", "post", "crash", "fault", "swarm", "down",
                "tick"} |-> 0]
Budgets ==
  {events @@ Spent : events \in
     {[swarm |-> 6],
      [mint |-> 1, post |-> 1, swarm |-> 1, down |-> 1],
      [mint |-> 2, withdraw |-> 1, down |-> 1, tick |-> 1],
      [mint |-> 1, post |-> 1, crash |-> 1, fault |-> 1]}}

\* What the operators ask of the maintenance worker, in order.
Requests == {<<"backup", "restore">>, <<"rotate", "delete">>,
             <<"backup", "verify", "delete">>, <<"backup", "rotate">>}

\* Interruptions, reboots and outside changes around an installation.
Hardship(c, d, r) == [cut |-> c, disturb |-> d, reboot |-> r, touched |-> FALSE]
Hardships == {Hardship(1, 0, 1), Hardship(0, 1, 0)}

\* Who announces, and what happens to the tracker and its files meanwhile.
Around(who, events) == events @@ [e \in DirEvents |-> 0] @@ [who |-> who]
Announcements ==
  {Around({"d1"}, [revoke |-> 1, crash |-> 1]),
   Around({"d1", "d2"}, [revoke |-> 1]),
   Around({"d1"}, [deny |-> 2, close |-> 1]),
   Around({Origin}, [send |-> 2, renew |-> 1, crash |-> 1, stop |-> 1]),
   Around({Origin}, [send |-> 2, time |-> 3]),
   Around({"d1", Origin}, [disk |-> 1, crash |-> 1]),
   Around({"d1", Origin}, [time |-> 2]),
   Around({"d1", Legacy}, [group |-> 1, blind |-> 1]),
   Around({"d1", "d2"}, [group |-> 2])}

\* What the Console's requests ask, with or without an admin, and what happens
\* around them.
Asked(set, kinds, events) ==
    events @@ [set |-> set, kind |-> kinds, reset |-> 0, time |-> 0, crash |-> 0]
Visits ==
  {Asked(TRUE, <<"work", "work", "none">>, [reset |-> 1, time |-> 1]),
   Asked(TRUE, <<"login", "change", "none">>, [time |-> 1, reset |-> 1]),
   Asked(TRUE, <<"login", "change", "none">>, [crash |-> 1]),
   Asked(TRUE, <<"change", "work", "none">>, [reset |-> 1]),
   Asked(TRUE, <<"login", "login", "none">>, [time |-> 2]),
   Asked(TRUE, <<"revoke", "logout", "login">>, [crash |-> 0]),
   Asked(TRUE, <<"poll", "poll", "none">>, [time |-> 3]),
   Asked(FALSE, <<"login", "setup", "setup">>, [time |-> 1, reset |-> 1])}

\* Every operation once, with a fault and a lost answer; operations that are sent
\* twice, with the same key or another body, around a restart, an eviction and a
\* rotation of the credential.
Calling(op, n, events) ==
    events @@ [op |-> op, n |-> n, body |-> <<1, 1>>, rotate |-> FALSE, rate |-> 2,
               lose |-> 0, fault |-> 0, evict |-> 0, expire |-> 0, crash |-> 0]
Callings ==
  {Calling(op, 1, [fault |-> 1, lose |-> 1]) : op \in DOMAIN Operations}
  \cup {Calling("submit", 2, [lose |-> 1, fault |-> 1]),
        Calling("submit", 2, [body |-> <<1, 2>>, rate |-> 1]),
        Calling("upsert", 2, [crash |-> 1, evict |-> 1]),
        Calling("request", 2, [expire |-> 1]),
        Calling("item", 1, [rotate |-> TRUE]),
        Calling("guicert", 2, [fault |-> 1])}

\* A document of the whole fleet or none, what two processes do with the store, and
\* whether one dies or a file is damaged.
Doing(op, key) == [op |-> op, key |-> key]
Storing(doc, one, two, dies, damage) ==
    [doc |-> doc, ops |-> <<one, two>>, crash |-> dies, damage |-> damage]
Buckets3 == [k1 |-> "b1", k2 |-> "b1", k3 |-> "b2"]
OldDoc == [k1 |-> 1, k2 |-> 0, k3 |-> 1]
Storings ==
  {Storing(OldDoc, <<Doing("update", "k1")>>, <<Doing("delete", "k2"), Doing("delete", "k1")>>, 1, 0),
   Storing(OldDoc, <<Doing("many", "k1")>>, <<Doing("sweep", "k1")>>, 0, 0),
   Storing(OldDoc, <<Doing("snapshot", "k1")>>, <<Doing("delete", "k3")>>, 0, 0),
   Storing(OldDoc, <<Doing("all", "k1")>>, <<Doing("delete", "k1")>>, 1, 0),
   Storing(OldDoc, <<Doing("strict", "k1")>>, <<Doing("delete", "k1")>>, 1, 0),
   Storing(NoRows, <<Doing("cached", "k1"), Doing("cached", "k1")>>,
           <<Doing("many", "k1"), Doing("update", "k2")>>, 0, 0),
   Storing(OldDoc, <<Doing("sweep", "k1")>>, <<Doing("delete", "k1")>>, 1, 1),
   Storing(OldDoc, <<Doing("strict", "k1")>>, <<Doing("sweep", "k1")>>, 0, 1),
   Storing(OldDoc, <<Doing("all", "k1")>>, <<Doing("cached", "k1")>>, 0, 1)}

\* Events written and pages read, with writes cut short, restarts and the clock.
Quiet == [e \in {"append", "torn", "restart", "time", "back", "page"} |-> 0]
Trails ==
  {events @@ Quiet : events \in
     {[append |-> 5, page |-> 2], [append |-> 5, page |-> 1, torn |-> 2],
      [append |-> 4, page |-> 2, time |-> 1, back |-> 1],
      [append |-> 4, page |-> 1, torn |-> 1, restart |-> 1]}}

\* What operators do with the export, with a fault, a crash or a shutdown.
Unused == [e \in ExportEvents |-> 0]
Exports ==
  {events @@ Unused : events \in
     {[save |-> 2, run |-> 1], [save |-> 2, crash |-> 1],
      [save |-> 1, clear |-> 1, run |-> 1, stop |-> 1, fault |-> 1],
      [save |-> 1, clear |-> 1, keep |-> 1, crash |-> 1],
      [save |-> 1, run |-> 2, fault |-> 1, stop |-> 1]}}

Init ==
  /\ focus \in {"telemetry", "maintenance", "deployment", "directory", "sessions", "calls",
                "keyed", "trail", "export"}
  /\ TelInit /\ (focus = "telemetry" \/ tleft["swarm"] = 6)
  /\ MaintInit /\ (focus = "maintenance" \/ requests[1] = "rotate")
  /\ DeployInit /\ (focus = "deployment" \/ dleft.cut = 0)
  /\ DirInit /\ (focus = "directory" \/ dirLeft["time"] = 3)
  /\ ConInit /\ (focus = "sessions" \/ ~sleft.set)
  /\ CallInit /\ (focus = "calls" \/ cleft.rotate)
  /\ KeyedInit /\ (focus = "keyed" \/ kleft.doc = NoRows)
  /\ TrailInit /\ (focus = "trail" \/ aleft["back"] = 1)
  /\ ExportInit /\ (focus = "export" \/ eleft["run"] = 2)

Next ==
  \/ focus = "telemetry" /\ TelNext
     /\ UNCHANGED <<focus, maintVars, deployVars, dirVars, conVars, callVars, recordVars>>
  \/ focus = "maintenance" /\ MaintNext
     /\ UNCHANGED <<focus, telVars, deployVars, dirVars, conVars, callVars, recordVars>>
  \/ focus = "deployment" /\ DeployNext
     /\ UNCHANGED <<focus, telVars, maintVars, dirVars, conVars, callVars, recordVars>>
  \/ focus = "directory" /\ DirNext
     /\ UNCHANGED <<focus, telVars, maintVars, deployVars, conVars, callVars, recordVars>>
  \/ focus = "sessions" /\ ConNext
     /\ UNCHANGED <<focus, telVars, maintVars, deployVars, dirVars, callVars, recordVars>>
  \/ focus = "calls" /\ CallNext
     /\ UNCHANGED <<focus, telVars, maintVars, deployVars, dirVars, conVars, recordVars>>
  \/ focus = "keyed" /\ KeyedNext /\ UNCHANGED <<focus, serviceVars, trailVars, exportVars>>
  \/ focus = "trail" /\ TrailNext /\ UNCHANGED <<focus, serviceVars, keyedVars, exportVars>>
  \/ focus = "export" /\ ExportNext /\ UNCHANGED <<focus, serviceVars, keyedVars, trailVars>>

\* Weak and strong fairness of what each component's processes keep doing, while
\* it is the one that runs.
\* Telemetry: the sampler thread keeps running, a device that has the file announces
\* and posts its report until it is taken, and the collector comes back.
\* Maintenance: the thread runs on, systemd starts the worker again, and the operator
\* recovers what needs it.  Deployment: a command runs to its end; operators resume
\* an installation, approve the key and recover a removal as the documentation tells
\* them to.  Calls: the threads of the front and of the API run on.  Keyed: so do the
\* processes that use the state files.  Export: so do the exports and the shutdown.
Runs(part, act) == focus = part /\ act
Fairness ==
    /\ focus # "telemetry" \/ []<><<SamplerStep>>_telVars
    /\ WF_telVars(Runs("telemetry", Announced))
    /\ WF_telVars(Runs("telemetry", ~coll.up /\ CollectorToggles))
    /\ \A p \in Plans : WF_telVars(Runs("telemetry", RecordTelemetry(<<p, 1>>, 3)))
    /\ WF_maintVars(Runs("maintenance", ThreadSteps))
    /\ WF_maintVars(Runs("maintenance", WorkerStarts))
    /\ WF_maintVars(Runs("maintenance", Resubmit))
    /\ WF_deployVars(Runs("deployment", InstallStep))
    /\ WF_deployVars(Runs("deployment", RemovalStep))
    /\ WF_deployVars(Runs("deployment", ApproveKey))
    /\ WF_deployVars(Runs("deployment", ApplyRemoval(TRUE) /\ removal.phase # "prepared"))
    /\ SF_deployVars(Runs("deployment",
          journal.state # "FINISHED" /\ \E cert \in BOOLEAN : Resume(cert)))
    /\ \A t \in Attempts : WF_callVars(Runs("calls", CallStep(t)))
    /\ \A p \in Users : WF_keyedVars(Runs("keyed", UserStep(p)))
    /\ WF_exportVars(Runs("export", ExportSteps))

Spec == Init /\ [][Next]_hostVars /\ Fairness

\* Telemetry counts what it drops and marks only what was received
\* (transfer_lifecycle.py, otlp.py); backups are whole, the server runs on one
\* generation and one operation owns the host (lifecycle_worker.py, restore.py);
\* an installation keeps one custody and a removal takes what was reviewed
\* (deploy.py, uninstall.py); a disclosed peer is on record and permitted by fresh
\* views (tracker.py, peer_registry.py, peer_handouts.py); a call repeated with its
\* key changes once, is on record and is told so (gui_server.py, management_api.py);
\* no change of a row is lost and no read of the store is wrong while it is migrated
\* (keyed_state.py); the audit trail loses and repeats no event (audit.py).
\* What is proved of the Console's sessions and of the export stands beside it as
\* ConsoleSafe and PasswordsGoWhereSent.
HostSafe ==
    /\ focus = "telemetry" => TelemetrySafe
    /\ focus = "maintenance" => MaintenanceSafe
    /\ focus = "deployment" => DeploymentSafe
    /\ focus = "directory" => DirSafe
    /\ focus = "calls" => CallsSafe
    /\ focus = "keyed" => KeyedSafe
    /\ focus = "trail" => TrailSafe

\* No step takes a transfer out of seeding, starts a retired request again, or
\* removes what the reviewed plan does not name; an offer follows the policy;
\* no password change lowers the floor under the sessions; an unreadable state file is
\* not written over; an export changes no destination, and none runs after a drain.
HostSteps ==
    [][/\ focus = "telemetry" => SeedingIsFinal
       /\ focus = "maintenance" => RetiredStaysRetired
       /\ focus = "deployment" => OnlyReviewedRemoved
       /\ focus = "deployment" => RemovalIsExclusive
       /\ focus = "directory" => OffersFollowPolicy
       /\ focus = "sessions" => FloorNeverFalls
       /\ focus = "keyed" => DamagedIsKept
       /\ focus = "export" => DrainIsFinal /\ ResultsChangeNoDestination
      ]_hostVars

\* A seeding transfer is published; an interrupted operation, installation or
\* removal ends, and so does every call, every use of a state file and every
\* shutdown of the export.
HostConverges ==
    /\ <>[](focus = "telemetry" => SeedingIsPublished)
    /\ []<>(/\ focus = "maintenance" => MaintenanceEnds
            /\ focus = "deployment" => InstallationEnds /\ RemovalEnds
            /\ focus = "calls" => CallsEnd
            /\ focus = "keyed" => StoreRests
            /\ focus = "export" => ExportsRest)
===============================================================================
