---------------------------- MODULE MCOnboarding ----------------------------
(* Small instances of onboarding: the job queue with its deployment        *)
(* records and scheduled receipts, and the verification of an IOx board    *)
(* that a job turns off and owes back, the supervisor that has custody of  *)
(* the processes it does that with, and the roles of the devices in the    *)
(* inventory.  Each knows the next one only by its outcome, so a behaviour *)
(* runs one of them (focus) while the others rest.                         *)
EXTENDS OnboardJobs, IoxVerification, IoxSupervisor, FleetRoles

CONSTANTS d1, b1, b2

VARIABLE focus

onboardingVars == <<focus, jobVars, ioxVars, supVars, roleVars>>

\* A device of a platform, with or without a scheduled onboarding.
Alone(platform, scheduled) ==
    [plat |-> (d1 :> platform), sched |-> scheduled, io |-> 0, adopt |-> 0,
     stop |-> 0, del |-> 0, reg |-> 1, crash |-> 0, slow |-> FALSE,
     giveup |-> 0, gaveup |-> FALSE, failed |-> FALSE]
QueueScenarios == {
    [Alone("guestshell", TRUE) EXCEPT !.crash = 1],
    [Alone("router", FALSE) EXCEPT !.crash = 1, !.io = 1],
    [Alone("guestshell", TRUE) EXCEPT !.adopt = 1],
    [Alone("guestshell", FALSE) EXCEPT !.adopt = 1, !.stop = 1],
    [Alone("guestshell", TRUE) EXCEPT !.del = 1],
    [Alone("iox", FALSE) EXCEPT !.crash = 1],
    [Alone("iox", FALSE) EXCEPT !.adopt = 1],
    [Alone("router", FALSE) EXCEPT !.giveup = 1, !.slow = TRUE]}

\* Attempts side by side, attempts, crashes, failures and verification
\* switched by the operator.
Board(s, j, c, f, t) ==
    [slots |-> s, jobs |-> j, crash |-> c, faults |-> f, toggles |-> t]
BoardBudgets ==
    {Board(2, 2, 0, 0, 0), Board(1, 2, 1, 0, 0),
     Board(1, 1, 0, 2, 0), Board(1, 1, 0, 1, 1)}

\* Sessions with so many device commands, and what disturbs them.
Meets(n, es) == [e \in SupEvents |-> IF e = "spawn" THEN n ELSE IF e \in es THEN 1 ELSE 0]
CustodyBudgets ==
    {Meets(1, {"recipe", "fork"}), Meets(1, {"late", "fork"}), Meets(1, {"recipe", "late"}), Meets(2, {"second", "server"}), Meets(2, {"second", "sup"}),
     Meets(1, {"disk", "boot", "second"}), Meets(1, {"fork", "time"}), Meets(0, {"dis", "late", "fork"}),
     Meets(1, {"server", "second", "busy"})}

\* Two roles, apart or joined; devices, their requests and what goes wrong.
RoleDef(peers, restricted, origin) ==
    [known |-> TRUE, restricted |-> restricted, origin |-> origin, peers |-> peers]
Apart == "A" :> RoleDef({"A"}, TRUE, TRUE) @@ "B" :> RoleDef({"B"}, TRUE, FALSE)
Joined == "A" :> RoleDef({"A", "B"}, TRUE, TRUE) @@ "B" :> RoleDef({"A", "B"}, TRUE, FALSE)
OneOpen == "A" :> RoleDef({"A"}, FALSE, TRUE) @@ "B" :> NoRole
RowIn(role) == [there |-> TRUE, role |-> role, net |-> "none", reg |-> 1, bad |-> FALSE]
InRoles(r1, r2) == b1 :> r1 @@ b2 :> r2
Wants(op, who) ==
    [op |-> op, to |-> Nowhere, net |-> Nowhere, who |-> who, on |-> TRUE, role |-> "A",
     def |-> NoRole, dry |-> FALSE, conf |-> FALSE, valid |-> TRUE, file |-> <<>>]
Assigns(map) == [Wants("roles", b1) EXCEPT !.to = map]
Imports(file) == [Wants("csv", b1) EXCEPT !.file = file]
Places(b, net) == [Wants("edit", b) EXCEPT !.net = b :> net]
OfRole(op, role) == [Wants(op, b1) EXCEPT !.role = role]
Defines(role, def) == [OfRole("define", role) EXCEPT !.def = def]
Previewed(q) == <<[q EXCEPT !.dry = TRUE, !.conf = TRUE], [q EXCEPT !.conf = TRUE]>>
RolePlan(defs, of, one, two, faults, deaths) ==
    [row |-> [b \in Boxes |-> RowIn(of[b])],
     doc |-> [rev |-> 1, defs |-> defs, of |-> of, acl |-> [b \in Boxes |-> "none"], quar |-> {}],
     asks |-> <<one, two>>, fault |-> faults, crash |-> deaths]
UnderAcl(plan0) == [plan0 EXCEPT !.doc.acl = [b \in Boxes |-> "acl"]]
Edits == {
    RolePlan(Apart, InRoles("none", "none"), Previewed(Assigns(InRoles("A", "A"))),
             <<OfRole("delete", "A")>>, 1, 0),
    RolePlan(Apart, InRoles("none", "A"), <<OfRole("plan", "B"), OfRole("unplan", "B"), Wants("retire", b2)>>,
             <<OfRole("delete", "B"), OfRole("plan", "B"), OfRole("delete", "A")>>, 0, 1),
    RolePlan(Joined, InRoles("B", "none"), <<Assigns(b1 :> "none"), Assigns(b1 :> "A")>>,
             <<Imports(<<<<b1, "none">>, <<b2, "A">>>>), Wants("read", b1)>>, 1, 1),
    [RolePlan(Apart, InRoles("none", "none"),
              <<Places(b1, "n"), Wants("retire", b1)>>,
              <<[Places(b2, "n") EXCEPT !.to = b2 :> "A"], Wants("read", b2)>>, 1, 0)
       EXCEPT !.row[b2] = NoRow],
    RolePlan(Joined, InRoles("A", "none"), <<Assigns(InRoles("B", "A"))>> \o Previewed(Assigns(InRoles("B", "B"))),
             <<Imports(<<<<b1, "none">>, <<b2, "none">>>>)>>, 1, 0),
    UnderAcl(RolePlan(Apart, InRoles("none", "none"), Previewed(OfRole("migrate", "B")),
                      <<Wants("revoke", b2), Wants("quarantine", b1)>>, 1, 1)),
    [UnderAcl(RolePlan(OneOpen, InRoles("A", "none"), <<OfRole("migrate", "A")>> \o Previewed(OfRole("migrate", "A")),
                       <<Wants("retire", b1)>>, 1, 0)) EXCEPT !.row[b2].bad = TRUE],
    [RolePlan(Apart, InRoles("A", "none"),
              Previewed(Defines("A", RoleDef({"A", "B"}, TRUE, TRUE)))
                \o <<Defines("B", RoleDef({"B"}, FALSE, TRUE))>>,
              <<[Wants("edit", b1) EXCEPT !.to = b1 :> "none"],
                [Wants("replace", b1) EXCEPT !.def = OneOpen], Wants("identify", b2)>>, 0, 1)
       EXCEPT !.row[b2].reg = 0],
    RolePlan(Apart, InRoles("A", "none"), <<Wants("observe", b1), Wants("retire", b1)>>,
             <<Wants("quarantine", b1), Assigns(b1 :> "none"),
               [Wants("quarantine", b1) EXCEPT !.on = FALSE]>>, 1, 0),
    RolePlan(Apart, InRoles("A", "B"), <<Wants("retire", b1), Wants("retire", b2)>>,
             <<Wants("read", b1), [Wants("edit", b1) EXCEPT !.to = b1 :> "B", !.valid = FALSE],
               Imports(<<<<b1, "none">>, <<b1, "A">>>>)>>, 1, 1),
    [RolePlan(Apart, InRoles("none", "none"), Previewed(Assigns(InRoles("A", "A"))),
              <<Wants("read", b1), Wants("read", b1)>>, 0, 1) EXCEPT !.row[b2].bad = TRUE]}

Init ==
    /\ focus \in {"queue", "board", "custody", "roles"}
    /\ JobsInit /\ (focus = "queue" \/ budget.stop = 1)
    /\ IoxInit
    /\ focus = "board" \/ (left.slots = 2 /\ verif = "on" /\ ~scp)
    /\ SupInit /\ (focus = "custody" \/ supLeft["time"] = 1)
    /\ RolesInit /\ (focus = "roles" \/ rleft.doc.defs["B"] = NoRole)

Next ==
    \/ focus = "queue" /\ JobsNext /\ UNCHANGED <<focus, ioxVars, supVars, roleVars>>
    \/ focus = "board" /\ IoxNext /\ UNCHANGED <<focus, jobVars, supVars, roleVars>>
    \/ focus = "custody" /\ SupNext /\ UNCHANGED <<focus, jobVars, ioxVars, roleVars>>
    \/ focus = "roles" /\ RolesNext /\ UNCHANGED <<focus, jobVars, ioxVars, supVars>>

\* Weak and strong fairness of what each component's processes keep doing, while
\* it is the one that runs.
\* Queue: threads keep running, the workers, the maintenance thread that reaps, the
\* runner and the deletion's handler; a slow recipe ends once it was killed (the IOx
\* controller once it was cancelled), any other by itself; the window closes by the
\* clock.  Board: the attempts are threads that run, and recovery and reconciliation
\* are asked for again and again.  Roles: a request that began runs on.
Runs(part, act) == focus = part /\ act
RecipeComesBack(i) ==
    /\ i \in JobIds /\ RecipeReturns(i)
    /\ budget.slow => jobs[i].reap >= IF Platform(jobs[i].dev) = "iox" THEN 1 ELSE 2
Fairness ==
    /\ WF_jobVars(Runs("queue", ReserveWork)) /\ WF_jobVars(Runs("queue", RunnerStep))
    /\ WF_jobVars(Runs("queue", CloseWindow))
    /\ WF_jobVars(Runs("queue", DeleteRecords)) /\ WF_jobVars(Runs("queue", DeleteJobs))
    /\ \A i \in 1..MaxJobs :
          /\ WF_jobVars(Runs("queue", i \in JobIds /\ WorkerStep(i)))
          /\ WF_jobVars(Runs("queue", i \in JobIds /\ Reap(i)))
          /\ WF_jobVars(Runs("queue", RecipeComesBack(i)))
    /\ \A a \in Attempts : WF_ioxVars(Runs("board", AttemptStep(a)))
    /\ WF_ioxVars(Runs("board", \E a \in Attempts, r \in RecordIds : Request(a, "recover", r)))
    /\ SF_ioxVars(Runs("board", \E a \in Attempts, r \in RecordIds : Request(a, "reconcile", r)))
    /\ \A a \in Sessions : /\ WF_supVars(Runs("custody", ClientStep(a)))
                           /\ WF_supVars(Runs("custody", SupStep(a)))
                           /\ SF_supVars(Runs("custody", TimeUp(a)))
    /\ \A p \in Editors : WF_roleVars(Runs("roles", EditorStep(p)))

Spec == Init /\ [][Next]_onboardingVars /\ Fairness

\* One recipe per device, and whatever is on a device is on record (gui_onboard.py,
\* deployment_records.py); whatever was turned off or left on a board is owed in a
\* journal (iox_verification.py); roles are known, networks apart, and the policy
\* enforces what the inventory declares unless something failed (role_management.py).
OnboardingSafe ==
    /\ focus = "queue" => JobsSafe
    /\ focus = "board" => BoardSafe
    /\ focus = "custody" => CustodySafe
    /\ focus = "roles" => RolesSafe

\* No step starts a scheduled recipe over another deployment or registration, or an
\* application on a board whose verification is off; no change of roles goes beyond
\* what was confirmed, or leaves a device open unseen.
OnboardingSteps ==
    [][/\ focus = "queue" => ScheduledNewOnly
       /\ focus = "queue" => ScheduledSameRegistration
       /\ focus = "board" => StartsVerified
       /\ focus = "custody" => DiscoveryIsOver
       /\ focus = "roles" => RolesSteps
      ]_onboardingVars

\* Every job and receipt ends, the board is given back, and what is owed is settled.
OnboardingEnds ==
    []<>(/\ focus = "queue" => JobsAndReceiptsEnd
         /\ focus = "board" => BoardIsReleased /\ ObligationsSettle
         /\ focus = "custody" => LockReturns
         /\ focus = "roles" => LocksReturn)
=============================================================================
