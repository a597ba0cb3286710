--------------------------- MODULE MCInstructions ---------------------------
(* Small instances of the signed instructions' path: the keys they are     *)
(* signed with, the stamper that numbers them, the device that accepts     *)
(* them and its identity towards peers.  Each behaviour runs one of the    *)
(* four (focus) while the others rest.                                     *)
EXTENDS InstructionAccept, InstructionStamper, KeyCustody, PeerIdentity, TLC

VARIABLE focus

instructionVars == <<focus, acceptVars, stamperVars, custodyVars, identityVars>>

\* Outside events around an accepting device.
Zero == [e \in Outside |-> 0]
DeviceFaults == {
    "publish" :> 2 @@ "crash" :> 1 @@ Zero,
    "seed" :> 1 @@ "crash" :> 1 @@ "disk" :> 1 @@ Zero,
    "rotate" :> 1 @@ "crash" :> 1 @@ "verify" :> 2 @@ "fetch" :> 1 @@ Zero,
    "publish" :> 1 @@ "restore" :> 1 @@ "poll" :> 1 @@ Zero,
    "publish" :> 2 @@ "restore" :> 1 @@ "damage" :> 1 @@ Zero,
    "publish" :> 1 @@ "ahead" :> 1 @@ "time" :> 2 @@ "back" :> 1 @@ Zero,
    "rotate" :> 1 @@ "disk" :> 2 @@ Zero,
    "seed" :> 1 @@ "rotate" :> 1 @@ "damage" :> 1 @@ "verify" :> 1 @@ Zero}

\* Outside events around the stamper.
StZero == [e \in StEvents |-> 0]
RoleGenerations == [epoch : 1 .. 3, body : Bodies]
StamperEvents == {
    "role" :> 1 @@ "crash" :> 1 @@ "key" :> 1 @@ StZero,
    "role" :> 2 @@ "age" :> 1 @@ StZero,
    "recover" :> 2 @@ "crash" :> 1 @@ "part" :> 1 @@ StZero}

\* Operations, failures and days around the keys.
KeyZero == [make |-> 0, rot |-> 0, cancel |-> 0, ask |-> 0, renew |-> 0,
            list |-> 0, attest |-> 0, gui |-> 0, crash |-> 0, fault |-> 0,
            days |-> 0, epoch |-> 0, dev |-> 0, stop |-> 0]
           @@ [f \in Families7 |-> 0]
KeyEvents == {KeyZero,
    [make |-> 1, crash |-> 1, fault |-> 1, days |-> 1, list |-> 1] @@ KeyZero,
    [rot |-> 1, ask |-> 2, list |-> 2] @@ KeyZero,
    [rot |-> 2, ask |-> 1, cancel |-> 1, crash |-> 1, fault |-> 1] @@ KeyZero,
    [rot |-> 2, ask |-> 1, fault |-> 1, days |-> 1] @@ KeyZero,
    [rot |-> 1, ask |-> 1, crash |-> 1, fault |-> 1, renew |-> 1] @@ KeyZero,
    [gui |-> 2, cancel |-> 1, crash |-> 1, fault |-> 1] @@ KeyZero,
    [dev |-> 4, stop |-> 1, cancel |-> 1, crash |-> 1]
        @@ [f \in {"device-tls", "peer-ca"} |-> 1] @@ KeyZero,
    [attest |-> 1, stop |-> 1, crash |-> 1, epoch |-> 1]
        @@ "instruction-roots" :> 1 @@ KeyZero,
    [attest |-> 1, epoch |-> 1, list |-> 1]
        @@ "instruction-roots" :> 1 @@ KeyZero,
    [attest |-> 1, rot |-> 1, ask |-> 1]
        @@ "instruction-roots" :> 1 @@ KeyZero,
    [renew |-> 2, days |-> 3, list |-> 2, crash |-> 1] @@ KeyZero}

\* Operations, failures and time around a device's peer identity.
PiZero == [e \in PiEvents |-> 0]
IdentityEvents == {PiZero,
    "deployed" :> 1 @@ "review" :> 2 @@ "onboard" :> 1 @@ "crash" :> 1 @@ PiZero,
    "review" :> 3 @@ "onboard" :> 1 @@ "lost" :> 1 @@ PiZero,
    "deployed" :> 1 @@ "review" :> 2 @@ "restore" :> 1 @@ PiZero,
    "deployed" :> 1 @@ "review" :> 1 @@ "lose" :> 1 @@ "tick" :> 1 @@ "watch" :> 1 @@ PiZero,
    "deployed" :> 1 @@ "review" :> 1 @@ "back" :> 1 @@ "tick" :> 2 @@ PiZero,
    "deployed" :> 1 @@ "age" :> 2 @@ "net" :> 2 @@ "tick" :> 1 @@ "crash" :> 1 @@ PiZero,
    "mode" :> 2 @@ "net" :> 1 @@ "exit" :> 1 @@ PiZero}

Init ==
    /\ focus \in {"accept", "stamper", "custody", "identity"}
    /\ AcceptInit
    /\ focus = "accept" \/ (flash.state.dig = server.pub /\ faults["publish"] = 2 /\ faults["crash"] = 1)
    /\ StamperInit /\ (focus = "stamper" \/ stBudget["recover"] = 2)
    /\ CustodyInit /\ (focus = "custody" \/ kleft = KeyZero)
    /\ IdentityInit /\ (focus = "identity" <=> piLeft # PiZero)

Next ==
    \/ focus = "accept" /\ AcceptNext
       /\ UNCHANGED <<focus, stamperVars, custodyVars, identityVars>>
    \/ focus = "stamper" /\ StamperNext
       /\ UNCHANGED <<focus, acceptVars, custodyVars, identityVars>>
    \/ focus = "custody" /\ CustodyNext
       /\ UNCHANGED <<focus, acceptVars, stamperVars, identityVars>>
    \/ focus = "identity" /\ IdentityNext
       /\ UNCHANGED <<focus, acceptVars, stamperVars, custodyVars>>

\* Weak and strong fairness of what each component's processes keep doing, while
\* it is the one that runs.
\* Acceptance: cron or EEM starts a tick again and again, and a poll is due after at
\* most fifteen minutes whatever the instruction says.  Stamper: the loop visits
\* every device in each pass and collects afterwards.  Custody: the services are
\* started again, a lock is always let go, and operators answer what the server asks
\* for: the identical retry of a keylist, the renewal of a certificate, the
\* completion of an admitted replacement.  Identity: the agent and the lease timer
\* go on, and a missing ledger is created.
Runs(part, act) == focus = part /\ act
Fairness ==
    /\ WF_acceptVars(Runs("accept", AgentStep))
    /\ \A p \in Producers : WF_stamperVars(Runs("stamper", ProducerWork(p)))
    /\ WF_custodyVars(Runs("custody", WriteNext)) /\ WF_custodyVars(Runs("custody", Boot))
    /\ WF_custodyVars(Runs("custody", RecoverRotation))
    /\ WF_custodyVars(Runs("custody", RetryList)) /\ WF_custodyVars(Runs("custody", RetireBegin))
    /\ WF_custodyVars(Runs("custody",
          \E c \in conts : Publish7(c) \/ RetireEnd(c) \/ AttestEnd(c)))
    /\ WF_custodyVars(Runs("custody", \E f \in Families7 : Resumes7(f) /\ ApplyTrust(f)))
    /\ WF_custodyVars(Runs("custody", disk.gj.state = "committing" /\ ApplyGui))
    /\ WF_identityVars(Runs("identity", AgentSteps))
    /\ WF_identityVars(Runs("identity", LeaseSteps))
    /\ WF_identityVars(Runs("identity", CreateLedger))
    /\ WF_identityVars(Runs("identity", WriteMarker))
    /\ WF_identityVars(Runs("identity", OriginTurn))
    /\ SF_acceptVars(Runs("accept", Poll))
    /\ SF_stamperVars(Runs("stamper", \E p \in Producers, d \in StDevices : StartStamp(p, d)))
    /\ SF_stamperVars(Runs("stamper", \E p \in Producers : Compare(p)))

Spec == Init /\ [][Next]_instructionVars /\ Fairness

\* The device keeps the envelope its floor stands for and attests nothing revoked
\* (instr.py); a visible stamp has its artifact (instruction_stamper.py); the key
\* files belong together (instruction_rotation.py, trust_rotation.py, gui_tls.py);
\* the ledger of withdrawn identities and a device's key files do too
\* (peer_tls_revocations.py, peer_tls.py).
InstructionsSafe ==
    /\ focus = "accept" => AcceptSafe
    /\ focus = "stamper" => StamperSafe
    /\ focus = "custody" => KeysSafe
    /\ focus = "identity" => IdentitySafe

\* No step rolls a device back without repeated hints, issues a stamp that is not
\* above the earlier ones, takes back a revocation or a withdrawn identity, or
\* changes trust under a deployed device.
InstructionSteps ==
    [][/\ focus = "accept" => RollbackOnlyOnRepeatedHints
       /\ focus = "stamper" => StampsOnlyAdvance
       /\ focus = "custody" => RevocationsGrow
       /\ focus = "custody" => NoDeviceAtSwitch
       /\ focus = "identity" => IdentitySteps
      ]_instructionVars

\* The device ends with what is published, every device with a current stamp,
\* every admitted replacement of keys is completed, and a re-enrolled device runs
\* with its fresh identity.
InstructionsConverge ==
    /\ <>[](/\ focus = "accept" => DeviceConverges
            /\ focus = "stamper" => StampsConverge)
    /\ []<>(/\ focus = "custody" => AdmittedReplacementEnds
            /\ focus = "identity" => IdentityReturns)
=============================================================================
