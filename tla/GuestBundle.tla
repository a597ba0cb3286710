----------------------------- MODULE GuestBundle -----------------------------
(***************************************************************************)
(* The agent's installation inside Guest Shell: bootstrap.sh, which the    *)
(* EEM timer starts every minute, its bundle transaction, the launcher of  *)
(* aria2c (guestshell-start.sh) and the publication of new inputs by an    *)
(* installer (guestshell-publish.sh, bootstrap.sh --publish-inputs).       *)
(*                                                                         *)
(* A bundle is its version; the versions of Intact pass every check of     *)
(* digest, archive and signer.  The top-level names of a bundle are three  *)
(* parts: the launcher (bootstrap.sh), the agent and the rest.  Every      *)
(* rename is a step of its own, and the process may die between any two.   *)
(***************************************************************************)
EXTENDS Integers, FiniteSets

CONSTANTS
  MaxBundle,   \* bound: bundles published
  Intact,       \* versions whose archive, digest and signer agree
  MaxSkip,      \* IRIS_TICK_BACKOFF_MAX in ticks
  GuestCrashes, \* bound: reloads and killed processes
  GuestFaults   \* bound: failed writes and launches

ASSUME GuestAssumption ==
  /\ MaxBundle \in Nat \ {0} /\ Intact \subseteq 1..MaxBundle
  /\ MaxSkip \in Nat \ {0} /\ GuestCrashes \in Nat /\ GuestFaults \in Nat

Parts == {"boot", "agent", "rest"}
Bundles == 0..MaxBundle  \* 0: no such file

VARIABLES
  src,     \* final names in guest-share: launcher, configuration, digest, bundle
  stage,   \* the same inputs, collected into guest-share/iris
  live,    \* version of each part in guest-share/iris
  tx,      \* .bundle-transaction
  outcome, \* bundle-outcome.json
  daemon,  \* aria2c: running, version of its binary, its RPC secret, aria2.conf
  tick,    \* the bootstrap that holds .bundle-lock
  publ,    \* the publication that holds it
  backoff, \* .iris-tick-backoff
  base,    \* history: the version committed last
  chances  \* faults and crashes still allowed

guestVars == <<src, stage, live, tx, outcome, daemon, tick, publ, backoff, base, chances>>

NoConf == [ver |-> 0, key |-> 0, sec |-> 0]
NoTx == [phase |-> "none", saved |-> [p \in Parts |-> 0], marked |-> {}, prior |-> FALSE]
NoTick == [pc |-> "off", todo |-> {}, why |-> "none"]
NoPubl == [ver |-> 0, key |-> 0, done |-> 0]

\* The files of the bundle exchange, the transaction journal, the outcome and
\* the tick keep their shape; a part marked absent has no saved copy.
GuestTypeOK ==
  /\ src \in [boot : Bundles, conf : [ver : Bundles, key : 0..2, sec : 0..1],
              digest : Bundles, bundle : Bundles]
  /\ stage \in [conf : [ver : Bundles, key : 0..2, sec : 0..1], rpc : 0..1,
                digest : Bundles, bundle : Bundles]
  /\ live \in [Parts -> Bundles]
  /\ tx \in [phase : {"none", "preparing", "capturing", "promoting", "committed"},
             saved : [Parts -> Bundles], marked : SUBSET Parts, prior : BOOLEAN]
  /\ \A p \in tx.marked : tx.saved[p] = 0
  /\ outcome \in [status : {"none", "accepted", "rejected"}, digest : Bundles]
  /\ daemon \in [up : BOOLEAN, bin : Bundles, sec : 0..1, conf : 0..1]
  /\ tick.todo \subseteq Parts /\ publ.done \in 0..4
  /\ backoff \in [skip : 0..MaxSkip, streak : 0..10]
  /\ chances \in [crashes : 0..GuestCrashes, faults : 0..GuestFaults, next : 1..(MaxBundle + 1)]

GuestInit ==
  /\ src = [boot |-> 0, conf |-> NoConf, digest |-> 0, bundle |-> 0]
  /\ stage = [conf |-> NoConf, rpc |-> 0, digest |-> 0, bundle |-> 0]
  /\ live = [p \in Parts |-> 0]
  /\ tx = NoTx
  /\ outcome = [status |-> "none", digest |-> 0]
  /\ daemon = [up |-> FALSE, bin |-> 0, sec |-> 0, conf |-> 0]
  /\ tick = NoTick /\ publ = NoPubl
  /\ backoff = [skip |-> 0, streak |-> 0]
  /\ base = 0
  /\ chances = [crashes |-> GuestCrashes, faults |-> GuestFaults, next |-> 1]

-----------------------------------------------------------------------------
Whole(v) == \A p \in Parts : live[p] = v
To(pc) == tick' = [tick EXCEPT !.pc = pc]
Quit == tick' = NoTick
Faulty == chances.faults > 0 /\ chances' = [chances EXCEPT !.faults = @ - 1]
LockFree == tick.pc = "off" /\ publ = NoPubl

(* Publication.  The eight files were uploaded under capability names and   *)
(* fingerprinted; --publish-inputs renames them one by one, the bundle      *)
(* last, under the lock of the ticks.                                       *)
PublishBegin(k) ==
  /\ LockFree /\ chances.next <= MaxBundle
  /\ publ' = [ver |-> chances.next, key |-> k, done |-> 0]
  /\ chances' = [chances EXCEPT !.next = @ + 1]
  /\ UNCHANGED <<src, stage, live, tx, outcome, daemon, tick, backoff, base>>

\* The order of FILES: launcher, configuration, digest, bundle.
PublishRename ==
  /\ publ # NoPubl
  /\ src' = CASE publ.done = 0 -> [src EXCEPT !.boot = publ.ver]
              [] publ.done = 1 -> [src EXCEPT !.conf = [ver |-> publ.ver, key |-> publ.key, sec |-> 0]]
              [] publ.done = 2 -> [src EXCEPT !.digest = publ.ver]
              [] publ.done = 3 -> [src EXCEPT !.bundle = publ.ver]
  /\ publ' = IF publ.done = 3 THEN NoPubl ELSE [publ EXCEPT !.done = @ + 1]
  /\ UNCHANGED <<stage, live, tx, outcome, daemon, tick, backoff, base, chances>>

-----------------------------------------------------------------------------
(* One tick: the lock, then the inputs are collected.                       *)

\* The EEM timer; a tick that finds the lock held exits at once.
TickBegin ==
  /\ LockFree /\ src.boot # 0
  /\ To("collect")
  /\ UNCHANGED <<src, stage, live, tx, outcome, daemon, publ, backoff, base, chances>>

\* Mutant: the incoming configuration is moved as it is.
Collected_Plain(c) == c

\* collect_agent_config: the device's own lkg_key outlives a re-onboarding.
Collected(c) == IF stage.conf.key = 0 THEN c ELSE [c EXCEPT !.key = stage.conf.key]

\* The configuration with the empty rpc-secret beside it, then the digest,
\* then the bundle; what is not there is left as it is.
CollectInputs ==
  /\ tick.pc = "collect"
  /\ CASE src.conf # NoConf ->
            /\ stage' = [stage EXCEPT !.conf = Collected(src.conf), !.rpc = 0]
            /\ src' = [src EXCEPT !.conf = NoConf] /\ UNCHANGED tick
       [] src.conf = NoConf /\ src.digest # 0 ->
            /\ stage' = [stage EXCEPT !.digest = src.digest]
            /\ src' = [src EXCEPT !.digest = 0] /\ UNCHANGED tick
       [] src.conf = NoConf /\ src.digest = 0 /\ src.bundle # 0 ->
            /\ stage' = [stage EXCEPT !.bundle = src.bundle]
            /\ src' = [src EXCEPT !.bundle = 0] /\ UNCHANGED tick
       [] OTHER -> To("recover") /\ UNCHANGED <<src, stage>>
  /\ UNCHANGED <<live, tx, outcome, daemon, publ, backoff, base, chances>>

-----------------------------------------------------------------------------
(* Recovery of an interrupted transaction.                                  *)

\* The parts a rollback puts back: all of them once the capture was whole
\* (validate_prior), else those already saved or marked (rollback_capture).
Touched(t) == IF t.phase = "promoting" THEN Parts
              ELSE {p \in Parts : t.saved[p] # 0} \cup t.marked

\* reject_bundle: the verdict is written before its inputs are deleted.
Rejected ==
  /\ outcome' = [status |-> "rejected", digest |-> stage.digest]
  /\ stage' = [stage EXCEPT !.bundle = 0, !.digest = 0]
  /\ src' = [src EXCEPT !.bundle = 0, !.digest = 0]

\* recover: what the phase file asks for.
RecoverPhase ==
  /\ tick.pc = "recover"
  /\ CASE tx.phase = "none" -> To("bundle")
       [] tx.phase = "committed" -> tick' = [tick EXCEPT !.pc = "sync", !.why = "recover"]
       [] tx.phase = "preparing" -> tick' = [tick EXCEPT !.pc = "rolled", !.why = "recover"]
       [] OTHER -> tick' = [tick EXCEPT !.pc = "roll", !.why = "recover", !.todo = Touched(tx)]
  /\ UNCHANGED <<src, stage, live, tx, outcome, daemon, publ, backoff, base, chances>>

\* Mutant: the tick goes on to the launch.
RollbackFailed_Goes == To("rpc")

\* "bundle rollback failed; refusing to launch"
RollbackFailed == Quit

\* rollback, rollback_capture: a copy of the saved part replaces the live one;
\* prior/ itself is not consumed, so a second rollback starts again from it.
\* A failed copy ends the tick; install() that could not roll back still
\* rejects its bundle, and the transaction waits for the next tick.
RollbackPart(p) ==
  /\ tick.pc = "roll" /\ p \in tick.todo
  /\ \/ /\ live' = [live EXCEPT ![p] = tx.saved[p]]
        /\ tick' = [tick EXCEPT !.todo = @ \ {p}]
        /\ UNCHANGED <<stage, src, outcome, chances>>
     \/ /\ Faulty /\ RollbackFailed
        /\ IF tick.why = "install" THEN Rejected ELSE UNCHANGED <<stage, src, outcome>>
        /\ UNCHANGED live
  /\ UNCHANGED <<tx, daemon, publ, backoff, base>>

RollbackDone ==
  /\ tick.pc = "roll" /\ tick.todo = {}
  /\ To("rolled")
  /\ UNCHANGED <<src, stage, live, tx, outcome, daemon, publ, backoff, base, chances>>

\* complete_rollback: one rename takes the transaction away.  A recovered
\* rollback also restores the launcher the timer starts.
CompleteRollback ==
  /\ tick.pc = "rolled"
  /\ tx' = NoTx
  /\ IF tick.why = "recover"
       THEN /\ src' = IF live["boot"] # 0 THEN [src EXCEPT !.boot = live["boot"]] ELSE src
            /\ To("bundle")
       ELSE UNCHANGED src /\ To("reject")
  /\ UNCHANGED <<stage, live, outcome, daemon, publ, backoff, base, chances>>

-----------------------------------------------------------------------------
(* A new bundle.                                                            *)

\* Without a digest the bundle is rejected; else install() opens a
\* transaction and checks the archive (inspect_and_extract, the signer).
InstallBegin ==
  /\ tick.pc = "bundle"
  /\ CASE stage.bundle = 0 -> To("rpc") /\ UNCHANGED tx
       [] stage.bundle # 0 /\ stage.digest = 0 -> To("reject") /\ UNCHANGED tx
       [] OTHER -> /\ tx' = [NoTx EXCEPT !.phase = "preparing"]
                   /\ tick' = [tick EXCEPT !.pc = "inspect", !.why = "install"]
  /\ UNCHANGED <<src, stage, live, outcome, daemon, publ, backoff, base, chances>>

\* Mutant: the phase is recorded once the parts are saved.
CapturePhase_Late == "preparing"

\* install: the phase "capturing" is durable before the first live part moves.
CapturePhase == "capturing"

\* checked_digest: the digest file names this bundle.
DigestMatches == stage.digest = stage.bundle

\* scan_tar, bounded_tar_stream: names, types, sizes and counts of the archive.
ArchiveSound == stage.bundle \in Intact

\* inspect_and_extract and the comparison of the signers.
Inspect ==
  /\ tick.pc = "inspect"
  /\ IF DigestMatches /\ ArchiveSound
       THEN /\ tx' = [tx EXCEPT !.phase = CapturePhase, !.prior = TRUE]
            /\ tick' = [tick EXCEPT !.pc = "capture", !.todo = Parts]
       ELSE UNCHANGED tx /\ To("rolled")
  /\ UNCHANGED <<src, stage, live, outcome, daemon, publ, backoff, base, chances>>

\* Each live part moves to prior/files, or an absence marker is made.
CapturePart(p) ==
  /\ tick.pc = "capture" /\ p \in tick.todo
  /\ live' = [live EXCEPT ![p] = 0]
  /\ tx' = IF live[p] # 0 THEN [tx EXCEPT !.saved[p] = live[p]]
           ELSE [tx EXCEPT !.marked = @ \cup {p}]
  /\ tick' = [tick EXCEPT !.todo = @ \ {p}]
  /\ UNCHANGED <<src, stage, outcome, daemon, publ, backoff, base, chances>>

CaptureDone ==
  /\ tick.pc = "capture" /\ tick.todo = {}
  /\ tx' = [tx EXCEPT !.phase = "promoting"]
  /\ tick' = [tick EXCEPT !.pc = "promote", !.todo = Parts]
  /\ UNCHANGED <<src, stage, live, outcome, daemon, publ, backoff, base, chances>>

\* Each part of the new bundle is renamed into place, the agent last.  A
\* failure (a full flash, an unreadable trust file) rolls back.
PromotePart(p) ==
  /\ tick.pc = "promote" /\ p \in tick.todo /\ (p = "agent" => tick.todo = {"agent"})
  /\ \/ /\ live' = [live EXCEPT ![p] = stage.bundle]
        /\ tick' = [tick EXCEPT !.todo = @ \ {p}]
        /\ UNCHANGED chances
     \/ /\ Faulty
        /\ tick' = [tick EXCEPT !.pc = "roll", !.todo = Touched(tx)]
        /\ UNCHANGED live
  /\ UNCHANGED <<src, stage, tx, outcome, daemon, publ, backoff, base>>

\* commit: the phase "committed" is the decision; a failed write rolls back.
CommitBundle ==
  /\ tick.pc = "promote" /\ tick.todo = {}
  /\ \/ /\ tx' = [tx EXCEPT !.phase = "committed"]
        /\ base' = stage.bundle
        /\ To("sync")
        /\ UNCHANGED chances
     \/ /\ Faulty
        /\ tick' = [tick EXCEPT !.pc = "roll", !.todo = Touched(tx), !.why = "commit"]
        /\ UNCHANGED <<tx, base>>
  /\ UNCHANGED <<src, stage, live, outcome, daemon, publ, backoff>>

\* sync_eem_bootstrap: the timer's launcher by rename; after a failure the
\* committed transaction waits for the next tick.
SyncLauncher ==
  /\ tick.pc = "sync"
  /\ \/ /\ src' = [src EXCEPT !.boot = live["boot"]]
        /\ To("outcome")
        /\ UNCHANGED chances
     \/ Faulty /\ Quit /\ UNCHANGED src
  /\ UNCHANGED <<stage, live, tx, outcome, daemon, publ, backoff, base>>

\* write_outcome accepted, with the digest that is in the stage now.
RecordAccepted ==
  /\ tick.pc = "outcome"
  /\ outcome' = [status |-> "accepted", digest |-> stage.digest]
  /\ To(IF tick.why = "install" THEN "tidy" ELSE "finalize")
  /\ UNCHANGED <<src, stage, live, tx, daemon, publ, backoff, base, chances>>

\* The consumed inputs are deleted: before finalize() in the tick that
\* installed, after it in the tick that recovered.
TidyInputs ==
  /\ tick.pc = "tidy"
  /\ stage' = [stage EXCEPT !.bundle = 0, !.digest = 0]
  /\ To(IF tick.why = "install" THEN "finalize" ELSE "bundle")
  /\ UNCHANGED <<src, live, tx, outcome, daemon, publ, backoff, base, chances>>

\* finalize: prior/ becomes .bundle-previous; then the transaction is
\* removed, which a crash may cut after the phase file went.
FinalizeMove ==
  /\ tick.pc = "finalize" /\ tx.prior
  /\ tx' = [tx EXCEPT !.prior = FALSE, !.saved = [p \in Parts |-> 0], !.marked = {}]
  /\ UNCHANGED <<src, stage, live, outcome, daemon, tick, publ, backoff, base, chances>>

FinalizeRemove ==
  /\ tick.pc = "finalize" /\ ~tx.prior
  /\ \/ /\ tx.phase = "committed"
        /\ tx' = [tx EXCEPT !.phase = "preparing"]
        /\ UNCHANGED tick
     \/ /\ tx' = NoTx
        /\ To(IF tick.why = "install" THEN "rpc" ELSE "tidy")
  /\ UNCHANGED <<src, stage, live, outcome, daemon, publ, backoff, base, chances>>

\* When the verdict cannot be written the inputs stay.  Without an agent the
\* tick ends.
RejectBundle ==
  /\ tick.pc = "reject"
  /\ \/ /\ Rejected
        /\ IF live["agent"] = 0 THEN Quit ELSE To("rpc")
        /\ UNCHANGED chances
     \/ Faulty /\ Quit /\ UNCHANGED <<outcome, stage, src>>
  /\ UNCHANGED <<live, tx, daemon, publ, backoff, base>>

-----------------------------------------------------------------------------
(* The runtime.                                                             *)

\* The configuration's secret, when it has one, is the daemon's.
Reconciled == IF stage.conf.sec # 0 THEN stage.conf.sec ELSE stage.rpc

ReconcileRpc ==
  /\ tick.pc = "rpc"
  /\ stage' = [stage EXCEPT !.rpc = Reconciled]
  /\ To("start")
  /\ UNCHANGED <<src, live, tx, outcome, daemon, publ, backoff, base, chances>>

\* RPC_CONFIG_CHANGED: the rendered configuration is compared with the
\* installed one and, when different, installed only after the old process
\* is gone.
ConfigChanged == daemon.conf # stage.rpc

\* Mutant: a daemon that answers is kept.
AriaCurrent_Up == daemon.up

\* guestshell-start.sh: the RPC answers to this secret, and the process runs
\* this binary with this configuration (rpc_up, aria2_tracker_tls_ready).
AriaCurrent == daemon.up /\ daemon.bin = live["rest"] /\ daemon.sec = stage.rpc /\ ~ConfigChanged

\* A daemon that does not match is stopped first; one that does not stop
\* ends the launch, and the agent runs all the same.
LaunchProbe ==
  /\ tick.pc = "start"
  /\ \/ /\ AriaCurrent \/ live["rest"] = 0
        /\ To("agent") /\ UNCHANGED <<daemon, chances>>
     \/ /\ ~AriaCurrent /\ live["rest"] # 0
        /\ daemon' = [daemon EXCEPT !.up = FALSE]
        /\ To("launch") /\ UNCHANGED chances
     \/ /\ ~AriaCurrent /\ live["rest"] # 0
        /\ Faulty /\ To("agent") /\ UNCHANGED daemon
  /\ UNCHANGED <<src, stage, live, tx, outcome, publ, backoff, base>>

\* Then its private configuration and its binary are replaced by rename ...
InstallRuntime ==
  /\ tick.pc = "launch"
  /\ \/ /\ daemon' = [daemon EXCEPT !.conf = stage.rpc]
        /\ To("exec") /\ UNCHANGED chances
     \/ Faulty /\ To("agent") /\ UNCHANGED daemon
  /\ UNCHANGED <<src, stage, live, tx, outcome, publ, backoff, base>>

\* ... and it starts.
StartAria ==
  /\ tick.pc = "exec"
  /\ daemon' = [daemon EXCEPT !.up = TRUE, !.bin = live["rest"], !.sec = daemon.conf]
  /\ To("agent")
  /\ UNCHANGED <<src, stage, live, tx, outcome, publ, backoff, base, chances>>

\* Mutant: the window is not capped.
Delay_Uncapped(streak) == 2 ^ streak

\* tick_backoff: doubled with every failure in a row, up to the cap.
Delay(streak) == LET d == 2 ^ streak IN IF d < MaxSkip THEN d ELSE MaxSkip

\* The agent runs once unless a backoff window is open.  A success clears the
\* window and fetches what the configuration lacks: the RPC secret, the
\* device's own key.
RunAgent ==
  /\ tick.pc = "agent"
  /\ CASE live["agent"] = 0 -> UNCHANGED <<stage, backoff, chances>>
       [] live["agent"] # 0 /\ backoff.skip > 0 ->
            backoff' = [backoff EXCEPT !.skip = @ - 1] /\ UNCHANGED <<stage, chances>>
       [] OTHER ->
            \/ /\ backoff' = [skip |-> 0, streak |-> 0]
               /\ stage' = [stage EXCEPT !.conf.sec = 1, !.conf.key = IF @ = 0 THEN 2 ELSE @]
               /\ UNCHANGED chances
            \/ /\ Faulty
               /\ LET s == IF backoff.streak < 10 THEN backoff.streak + 1 ELSE 10 IN
                  backoff' = [skip |-> Delay(s), streak |-> s]
               /\ UNCHANGED stage
  /\ Quit
  /\ UNCHANGED <<src, live, tx, outcome, daemon, publ, base>>

\* The process dies: a reload, maxrun, a lost session.  A reload also ends
\* aria2c.
GuestCrash ==
  /\ chances.crashes > 0 /\ (tick.pc # "off" \/ publ # NoPubl)
  /\ chances' = [chances EXCEPT !.crashes = @ - 1]
  /\ Quit /\ publ' = NoPubl
  /\ \/ UNCHANGED daemon
     \/ daemon' = [daemon EXCEPT !.up = FALSE]
  /\ UNCHANGED <<src, stage, live, tx, outcome, backoff, base>>

LaunchStep ==
  \/ CollectInputs \/ RecoverPhase \/ RollbackDone \/ CompleteRollback
  \/ \E p \in Parts : RollbackPart(p) \/ CapturePart(p) \/ PromotePart(p)
  \/ InstallBegin \/ Inspect \/ CaptureDone \/ CommitBundle \/ SyncLauncher
  \/ RecordAccepted \/ TidyInputs \/ FinalizeMove \/ FinalizeRemove \/ RejectBundle
  \/ ReconcileRpc \/ LaunchProbe \/ InstallRuntime \/ StartAria \/ RunAgent

GuestNext ==
  \/ \E k \in 0..1 : PublishBegin(k)
  \/ PublishRename \/ TickBegin \/ LaunchStep \/ GuestCrash

-----------------------------------------------------------------------------
\* Nothing is launched from a mixed runtime: whatever was interrupted, the
\* parts that the launcher and the agent run from are one version, the one
\* committed last (bootstrap.sh, "do not ... launch through a mixed pair").
RunsOneVersion ==
  tick.pc \in {"rpc", "start", "launch", "exec", "agent"} => Whole(base)

\* At every point where the process may die, recovery leads back to the
\* version committed last: what is not live is in prior/, and prior/ is not
\* consumed by a rollback that is itself interrupted (rollback,
\* rollback_capture, finalize).
Restorable ==
  CASE tx.phase \in {"none", "preparing", "committed"} -> Whole(base)
    [] tx.phase = "capturing" -> \A p \in Parts : base = IF p \in Touched(tx) THEN tx.saved[p] ELSE live[p]
    [] tx.phase = "promoting" -> \A p \in Parts : base = tx.saved[p]

\* The device-local key that the last-known-good instructions are sealed with
\* survives every re-onboarding (collect_agent_config).
LocalKeyKept == stage.conf.key # 0 => stage'.conf.key = stage.conf.key

\* Published bundles are decided and the daemon follows: once nothing new
\* arrives, no transaction and no input is left, and aria2c runs the
\* committed binary under the secret that the agent uses.  Holds again and again.
GuestSettles ==
  /\ src.bundle = 0 /\ tx = NoTx /\ stage.bundle = 0
  /\ base # 0 => daemon.up /\ daemon.bin = base /\ daemon.sec = stage.conf.sec

\* bundle-outcome.json names the bundle it accepted (docs, user-guide
\* troubleshooting: "Acceptance confirms the bundle transaction").
AcceptedIsCommitted ==
  (outcome.status = "accepted" /\ tick.pc = "off") => outcome.digest \in {0, base}

\* What holds in every state of the bundle exchange.
BundleSafe ==
  /\ GuestTypeOK
  /\ RunsOneVersion
  /\ Restorable
=============================================================================
