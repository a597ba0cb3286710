-------------------------- MODULE TransferReports --------------------------
(***************************************************************************)
(* What a device tells the server about a transfer, and what the server    *)
(* keeps of it: the agent's telemetry bag (telemetry_report.py), the tick  *)
(* that samples, arms, freezes and posts (iris_agent.py), the worker that  *)
(* samples between ticks, and the catalog's intake: the live table         *)
(* (live_samples.py), the reports and the operator's pull requests         *)
(* (catalog.py).  One device, one image; its transfers are the plans the   *)
(* server mints, 1, 2, ..., and ids the device mints itself (above Local)  *)
(* when the policy carries no usable plan.                                 *)
(*                                                                         *)
(* A tick loads the state file under a lock and works on it in memory;     *)
(* checkpoints write it before what must not be repeated is sent.  When a  *)
(* sample is due, paused or unreachable is a matter of clocks and of       *)
(* aria2, and is left open.                                                *)
(***************************************************************************)
EXTENDS Integers, Sequences, FiniteSets, Folds

CONSTANTS
    MaxSeq,         \* sample numbers of one transfer; past it no checkpoint succeeds
    FailBad,        \* FAIL_STREAK_BAD
    ReportTries,    \* MAX_ATTEMPTS
    ReportEvents,   \* outside events: a set of budgets
    HookRows,       \* HOOK_PEER_ROWS_HARD_CAP
    NamedRows,      \* PEER_TRANSFER_ROWS_CAP
    StoredRows,     \* _V2_PEER_TRANSFER_ROWS
    Senders         \* addresses in a snapshot of aria2's peers

VARIABLES
    flash,      \* the state file: the image's record and its telemetry bag
    rtick,      \* the running tick: its step, its bag, phase and observation
    disk,       \* [whole, side]: the staged file is whole; the hook's sidecar
    desk,       \* the catalog: live plan, plans minted, pull request, pause, error shown
    inbox,      \* the reports stored
    shown,      \* the device's row of the live table
    delayed,    \* an observation still on its way
    past,       \* history
    rleft       \* outside events left

reportVars == <<flash, rtick, disk, desk, inbox, shown, delayed, past, rleft>>

ReportFaults == {"replan", "unassign", "assign", "pull", "expire", "pause", "lost", "late",
                 "torn", "disk", "crash", "noplan", "badhash", "loss", "full", "slow", "fast",
                 "seen", "evict"}

Local == 10
\* A report, an observation: what the intake keeps of them.
NoReport == [id |-> 0, tid |-> 0, event |-> "none", sha |-> "none", rec |-> "none", req |-> 0]
NoSample == [tid |-> 0, seq |-> 0, seen |-> FALSE]
\* not_active: no transfer, no number.
Inactive == [tid |-> Local - 1, seq |-> 0, seen |-> FALSE]
BlankBag ==
    [plan |-> 0, tid |-> 0, seq |-> 0, sha |-> "none", verify |-> FALSE,
     event |-> "none", pending |-> FALSE, tries |-> 0, wait |-> FALSE, repTid |-> 0,
     frozen |-> NoReport, started |-> FALSE, ended |-> FALSE, rec |-> "none"]
EmptyState == [bag |-> BlankBag, done |-> FALSE, copied |-> FALSE, streak |-> 0,
               pull |-> NoReport]
Idle == [pc |-> "idle", st |-> EmptyState, phase |-> "none", obs |-> NoSample, ask |-> 0]

ReportsInit ==
    /\ flash = EmptyState /\ rtick = Idle
    /\ disk = [whole |-> FALSE, side |-> "none"]
    /\ desk = [plan |-> 1, minted |-> 1, pull |-> 0, asked |-> 0, pause |-> FALSE,
             err |-> FALSE]
    /\ inbox = {} /\ shown = NoSample /\ delayed = NoSample
    /\ past = [ids |-> 0, local |-> 0, hashed |-> {}, placed |-> {}, strayed |-> {},
               given |-> {}, unarmed |-> {}, relabelled |-> FALSE]
    /\ rleft \in ReportEvents

Event(e) == rleft[e] > 0
Spend(e) == rleft' = [rleft EXCEPT ![e] = @ - 1]
\* Success, or a failure that costs an event.
Attempt(ok, e) == IF ok THEN UNCHANGED rleft ELSE Event(e) /\ Spend(e)

----------------------------------------------------------------------------
(* The bag: identities, what is armed, what a report says.                  *)

\* A plan the bag does not know replaces it; what delivers a report that is
\* still pending is kept, and a placed image is to be hashed once more.
FreshBag(b, p, placed) ==
    LET fresh == [BlankBag EXCEPT !.plan = p, !.tid = p, !.verify = placed]
    IN IF ~b.pending THEN fresh
       ELSE [fresh EXCEPT !.pending = TRUE, !.tries = b.tries, !.wait = b.wait,
                          !.repTid = b.repTid, !.frozen = b.frozen]

\* The plan's row may be missing or unusable (p = 0).  A transfer the device
\* named itself is only renamed.
Renames(b, p) == p # 0 /\ b.plan = 0 /\ b.tid # 0
Crosses(b, p) == p # 0 /\ ~Renames(b, p) /\ ~(b.plan = p /\ b.tid = p)
TakePlan(b, p, placed) ==
    IF Renames(b, p) THEN [b EXCEPT !.plan = p, !.tid = p]
    ELSE IF Crosses(b, p) THEN FreshBag(b, p, placed) ELSE b

\* An image that left the set.
ClearTransfer(b) == [b EXCEPT !.tid = 0, !.seq = 0, !.sha = "none", !.verify = FALSE]

EnsureTransferId(b) == IF b.tid = 0 THEN [b EXCEPT !.tid = Local + past.local] ELSE b

\* Mutant: another transfer's frozen report is dropped for the new one.
ArmTerminalReport_Over(b, event, drop) ==
    [b EXCEPT !.event = event, !.pending = TRUE, !.tries = 0, !.wait = FALSE,
              !.repTid = b.tid, !.frozen = IF drop THEN NoReport ELSE @]
ArmTerminalReport(b, event, drop) ==
    IF drop /\ b.pending /\ b.frozen # NoReport /\ b.repTid \notin {0, b.tid} THEN b
    ELSE [b EXCEPT !.event = event, !.pending = TRUE, !.tries = 0, !.wait = FALSE,
                   !.repTid = b.tid, !.frozen = IF drop THEN NoReport ELSE @]

\* What a tick arms: a completion, a transfer that can only seed, and a placed
\* image that no report names under its present transfer.
\* Mutant: a placed image whose transfer changed is taken as reported.
Arms_OnPlacement(st, phase) ==
    IF phase = "copied" /\ st.copied /\ st.bag.event # "complete"
    THEN ArmTerminalReport(st.bag, "complete", TRUE)
    ELSE IF phase = "seeding" /\ st.bag.event = "none"
    THEN ArmTerminalReport(st.bag, "seeding", FALSE) ELSE st.bag
Arms(st, phase) ==
    IF phase = "copied" /\ st.copied /\ st.bag.event # "complete"
    THEN ArmTerminalReport(st.bag, "complete", TRUE)
    ELSE IF phase = "seeding" /\ st.bag.event = "none"
    THEN ArmTerminalReport(st.bag, "seeding", FALSE)
    ELSE IF st.done /\ st.copied /\ ~st.bag.pending /\ st.bag.repTid \notin {0, st.bag.tid}
    THEN ArmTerminalReport(st.bag, "complete", TRUE) ELSE st.bag

\* The records of the peers' bytes are folded once, at the end of a transfer:
\* not those captured before the transfer started, when that is known.
FoldRecords(b, side) == IF b.started /\ side = "old" THEN b.rec ELSE side

\* And a report carries them only when they lie within its window.
\* Mutant: any record the bag holds is sent.
ReportRecords_Any(b) == b.rec
ReportRecords(b) == IF b.started /\ b.rec = "own" THEN "own" ELSE "none"

BuildReport(b, event, req) ==
    [id |-> past.ids + 1, tid |-> b.tid, event |-> event, sha |-> b.sha,
     rec |-> ReportRecords(b), req |-> req]

\* Too many failed heartbeats in a row: the link is bad.
BadLink(st) == st.streak >= FailBad

----------------------------------------------------------------------------
(* A tick.                                                                 *)

At(pc) == rtick.pc = pc
Goes(pc, st) == rtick' = [rtick EXCEPT !.pc = pc, !.st = st]

\* The policy is read: an image that left the set is parked and its staged
\* copy deleted; a plan is adopted; a placed image that is not whole any more
\* is acquired again.
BeginUnassigned ==
    /\ At("idle") /\ desk.plan = 0
    /\ rtick' = [Idle EXCEPT !.pc = "beat", !.obs = Inactive,
                             !.st = [flash EXCEPT !.bag = ClearTransfer(@)]]
    /\ disk' = [disk EXCEPT !.whole = FALSE]
    /\ UNCHANGED <<flash, desk, inbox, shown, delayed, past, rleft>>

RenamesToo(set, b, p) == IF Renames(b, p) /\ b.tid \in set THEN set \cup {p} ELSE set

BeginAssigned(p, rootThere) ==
    LET placed == flash.done /\ flash.copied
        adopted == [flash EXCEPT !.bag = TakePlan(@, p, placed)]
    IN
    /\ At("idle") /\ desk.plan # 0 /\ p \in {0, desk.plan}
    /\ (p = 0) => Event("noplan")
    /\ (~rootThere) => placed /\ disk.whole /\ Event("loss") /\ p # 0
    /\ rleft' = IF p = 0 THEN [rleft EXCEPT !["noplan"] = @ - 1]
                ELSE IF ~rootThere THEN [rleft EXCEPT !["loss"] = @ - 1] ELSE rleft
    /\ rtick' = [Idle EXCEPT !.pc = "stage",
           !.st = IF placed /\ ~(disk.whole /\ rootThere)
                  THEN [adopted EXCEPT !.bag.verify = FALSE, !.bag.sha = "none",
                                       !.done = disk.whole, !.copied = rootThere]
                  ELSE adopted]
    /\ disk' = IF Crosses(flash.bag, p) /\ disk.side = "own"
               THEN [disk EXCEPT !.side = "old"] ELSE disk
    /\ past' = [past EXCEPT !.hashed = RenamesToo(@, flash.bag, p),
                            !.placed = RenamesToo(@, flash.bag, p),
                            !.unarmed = RenamesToo(@, flash.bag, p)]
    /\ UNCHANGED <<flash, desk, inbox, shown, delayed>>

Staged(st, phase) == rtick' = [rtick EXCEPT !.pc = "sample", !.st = st, !.phase = phase]

\* Placed and whole: steady, unless a new plan asks for the bytes to be hashed.
StaysPlaced ==
    /\ At("stage") /\ rtick.st.done /\ rtick.st.copied /\ ~rtick.st.bag.verify
    /\ Staged(rtick.st, "steady")
    /\ UNCHANGED <<flash, disk, desk, inbox, shown, delayed, past, rleft>>

ReplanVerify(ok) ==
    /\ At("stage") /\ rtick.st.done /\ rtick.st.copied /\ rtick.st.bag.verify
    /\ Attempt(ok, "badhash")
    /\ IF ok THEN Staged([rtick.st EXCEPT !.bag.verify = FALSE, !.bag.sha = "verified"], "copied")
       ELSE Staged([rtick.st EXCEPT !.bag.verify = FALSE, !.bag.sha = "mismatch",
                                    !.done = FALSE, !.copied = FALSE], "error")
    /\ disk' = [disk EXCEPT !.whole = ok]
    /\ UNCHANGED <<flash, desk, inbox, shown, delayed, past>>

\* aria2 fetches the file, in time for the next tick or not; its hook leaves
\* the counters in a sidecar, after an old one was discarded.
Downloading(ends) ==
    /\ At("stage") /\ ~(rtick.st.done /\ rtick.st.copied) /\ ~disk.whole
    /\ Attempt(ends, "slow")
    /\ Staged(rtick.st, "downloading")
    /\ disk' = [whole |-> ends, side |-> IF ends THEN "own" ELSE "none"]
    /\ UNCHANGED <<flash, desk, inbox, shown, delayed, past>>

\* The whole file is hashed; then it is placed, finds no room, or is not copied.
HashStaged(out) ==
    LET good == [rtick.st EXCEPT !.bag.sha = "verified", !.done = TRUE] IN
    /\ At("stage") /\ ~(rtick.st.done /\ rtick.st.copied) /\ disk.whole
    /\ CASE out = "bad" -> /\ Event("badhash") /\ Spend("badhash")
                           /\ Staged([rtick.st EXCEPT !.bag.sha = "mismatch", !.done = FALSE],
                                     "error")
         [] out = "placed" -> Staged([good EXCEPT !.copied = TRUE], "copied") /\ UNCHANGED rleft
         [] out = "noroom" -> ~good.copied /\ Event("full") /\ Spend("full") /\ Staged(good, "seeding")
         [] out = "notcopied" -> ~good.copied /\ Event("full") /\ Spend("full")
                                 /\ Staged(good, "copied")
    /\ disk' = [disk EXCEPT !.whole = (out # "bad")]
    /\ UNCHANGED <<flash, desk, inbox, shown, delayed, past>>

\* The observation: a new sample number, written down before it is used.
\* Mutant: the number is used before it is written down.
Numbered_InMemory(st) == flash' = flash
Numbered(st) == flash' = st

Sample(saved, seen) ==
    LET named == [rtick.st EXCEPT !.bag = EnsureTransferId(@)]
        st == [named EXCEPT !.bag.seq = @ + 1]
        hashed == rtick.phase \in {"copied", "seeding"}
    IN
    /\ At("sample") /\ rtick.phase # "error"
    /\ saved => named.bag.seq < MaxSeq
    /\ seen => saved /\ ~BadLink(st)
    /\ IF seen THEN Event("seen") /\ Spend("seen")
       ELSE IF saved \/ named.bag.seq = MaxSeq THEN UNCHANGED rleft
       ELSE Event("disk") /\ Spend("disk")
    /\ IF saved THEN Numbered(st) ELSE UNCHANGED flash
    /\ rtick' = [rtick EXCEPT !.pc = "beat", !.st = IF saved THEN st ELSE named,
                   !.obs = IF saved THEN [tid |-> st.bag.tid, seq |-> st.bag.seq, seen |-> seen]
                           ELSE NoSample]
    /\ past' = [past EXCEPT !.local = IF rtick.st.bag.tid = 0 THEN @ + 1 ELSE @,
                            !.hashed = IF hashed THEN @ \cup {st.bag.tid} ELSE @,
                            !.placed = IF st.done /\ st.copied THEN @ \cup {st.bag.tid} ELSE @]
    /\ UNCHANGED <<disk, desk, inbox, shown, delayed>>

SampleNone ==
    /\ At("sample") /\ rtick.phase = "error"
    /\ rtick' = [rtick EXCEPT !.pc = "beat", !.obs = Inactive]
    /\ UNCHANGED <<flash, disk, desk, inbox, shown, delayed, past, rleft>>

\* The catalog's live table: nothing is shown while the stream is paused or
\* nothing is assigned; within a transfer older samples are dropped.
\* Mutant: the pause is left to the device.
Silenced_Unassigned == desk.plan = 0
Silenced == desk.pause \/ desk.plan = 0
Observe(o) ==
    IF o = NoSample THEN shown
    ELSE IF Silenced THEN IF shown = NoSample THEN shown ELSE [shown EXCEPT !.seen = FALSE]
    ELSE IF o.seq # 0 /\ shown.tid = o.tid /\ shown.seq # 0 /\ o.seq <= shown.seq THEN shown
    ELSE o

\* What the reply to the heartbeat does to the bag before any report is sent.
Accounted(replied, takes) ==
    LET st == rtick.st
        ending == rtick.phase \in {"copied", "seeding"} /\ ~st.bag.ended
        bag == [st.bag EXCEPT
                  !.started = @ \/ rtick.phase = "downloading",
                  !.ended = @ \/ ending,
                  !.rec = IF ending /\ takes THEN FoldRecords(st.bag, disk.side) ELSE @]
        told == [st EXCEPT !.bag = bag,
                           !.streak = IF replied THEN 0 ELSE IF BadLink(st) THEN @ ELSE @ + 1]
    IN [told EXCEPT !.bag = Arms(told, rtick.phase)]

\* The seeding report takes the place of another transfer's.
Relabels(b, c) == c.frozen # NoReport /\ c.pending /\ c.repTid # c.frozen.tid

\* The heartbeat: answered, its reply lost, lost, or still on its way.
Heartbeat(out, takes) ==
    LET heard == out \in {"ok", "mute"}
        st == Accounted(out = "ok", takes)
        ends == rtick.phase \in {"none", "error"}
        ending == rtick.phase \in {"copied", "seeding"} /\ ~rtick.st.bag.ended
    IN
    /\ At("beat")
    /\ takes => ~ends /\ ending /\ disk.side # "none"
    /\ CASE out = "ok" -> UNCHANGED rleft
         [] out \in {"mute", "lost"} -> Event("lost") /\ Spend("lost")
         [] out = "late" -> Event("late") /\ Spend("late") /\ rtick.obs # NoSample /\ delayed = NoSample
    /\ shown' = IF heard THEN Observe(rtick.obs) ELSE shown
    /\ delayed' = IF out = "late" THEN rtick.obs ELSE delayed
    /\ desk' = IF heard THEN [desk EXCEPT !.err = (rtick.phase = "error")] ELSE desk
    /\ disk' = IF takes THEN [disk EXCEPT !.side = "none"] ELSE disk
    /\ IF ends THEN Goes("end", rtick.st)
       ELSE rtick' = [rtick EXCEPT !.pc = IF out = "ok" /\ desk.pull # 0 THEN "ask" ELSE "report",
                                   !.st = st, !.ask = IF out = "ok" THEN desk.pull ELSE 0]
    /\ past' = [past EXCEPT !.relabelled = @ \/ (~ends /\ Relabels(rtick.st.bag, st.bag))]
    /\ UNCHANGED <<flash, inbox>>

\* A request for a report now: its answer is frozen once, and written down
\* before it is sent.
\* Mutant: the answer is built anew for every reply.
AnswerTo_Anew(q) == BuildReport(rtick.st.bag, "pull", q)
AnswerTo(q) == IF rtick.st.pull.req = q THEN rtick.st.pull
               ELSE BuildReport(rtick.st.bag, "pull", q)

FreezePull(saved) ==
    LET answer == AnswerTo(rtick.ask)
        st == [rtick.st EXCEPT !.pull = answer]
        new == answer # rtick.st.pull
    IN
    /\ At("ask") /\ ((~new) => saved) /\ Attempt(saved, "disk")
    /\ Goes(IF saved THEN "answer" ELSE "report", st)
    /\ flash' = IF saved /\ new THEN st ELSE flash
    /\ past' = IF new THEN [past EXCEPT !.ids = @ + 1] ELSE past
    /\ UNCHANGED <<disk, desk, inbox, shown, delayed>>

\* The catalog's intake: a report on an image that is not assigned is refused,
\* a report id is stored once, and then an answer clears the request it names,
\* unless the catalog stops in between (torn).
\* Mutant: any answer clears the request.
ClearsRequest_Any(r) == r.req # 0
ClearsRequest(r) == r.req # 0 /\ r.req = desk.pull
Stores(r) == desk.plan # 0
RecordTelemetry(r, torn) ==
    IF Stores(r) THEN /\ inbox' = inbox \cup {r}
                      /\ desk' = IF ~torn /\ ClearsRequest(r) THEN [desk EXCEPT !.pull = 0]
                                 ELSE desk
    ELSE UNCHANGED <<inbox, desk>>

\* A post: answered, its reply lost, torn, or lost.
Posts(out, r) ==
    /\ CASE out = "ok" -> UNCHANGED rleft
         [] out = "torn" -> Event("torn") /\ Spend("torn")
         [] out \in {"mute", "lost"} -> Event("lost") /\ Spend("lost")
    /\ IF out = "lost" THEN UNCHANGED <<inbox, desk>> ELSE RecordTelemetry(r, out = "torn")
Succeeds(out, r) == out = "ok" /\ Stores(r)

SendPull(out) ==
    /\ At("answer") /\ Posts(out, rtick.st.pull)
    /\ Goes("report", [rtick.st EXCEPT !.streak = IF Succeeds(out, rtick.st.pull) THEN 0 ELSE @])
    /\ UNCHANGED <<flash, disk, shown, delayed, past>>

\* One more attempt is spent and the next one waits.
Deferred(st) == [st EXCEPT !.bag.tries = @ + 1, !.bag.wait = TRUE]

NotDue ==
    /\ At("report") /\ (rtick.st.bag.pending => rtick.st.bag.wait)
    /\ Goes("end", [rtick.st EXCEPT !.bag.wait = FALSE])
    /\ UNCHANGED <<flash, disk, desk, inbox, shown, delayed, past, rleft>>

Due == At("report") /\ rtick.st.bag.pending /\ ~rtick.st.bag.wait

GiveUpReport ==
    /\ Due /\ rtick.st.bag.tries >= ReportTries
    /\ Goes("end", [rtick.st EXCEPT !.bag.pending = FALSE])
    /\ past' = [past EXCEPT !.given = @ \cup {rtick.st.bag.repTid, rtick.st.bag.frozen.tid}]
    /\ UNCHANGED <<flash, disk, desk, inbox, shown, delayed, rleft>>

Defer ==
    /\ Due /\ rtick.st.bag.tries < ReportTries /\ BadLink(rtick.st)
    /\ Goes("end", Deferred(rtick.st))
    /\ UNCHANGED <<flash, disk, desk, inbox, shown, delayed, past, rleft>>

\* A report is built and frozen once; it is sent only when that is written down.
\* Mutant: it is sent whether or not it could be written down.
Written_Sent(saved, st) == Goes("post", st) /\ flash' = IF saved THEN st ELSE flash
Written(saved, st) ==
    IF saved THEN Goes("post", st) /\ flash' = st ELSE Goes("end", Deferred(st)) /\ UNCHANGED flash

Freeze(saved) ==
    LET b == rtick.st.bag
        event == IF b.event = "none" THEN "complete" ELSE b.event
    IN
    /\ Due /\ b.tries < ReportTries /\ ~BadLink(rtick.st) /\ b.frozen = NoReport
    /\ Attempt(saved, "disk")
    /\ Written(saved, [rtick.st EXCEPT !.bag.frozen = BuildReport(b, event, 0)])
    /\ past' = [past EXCEPT !.ids = @ + 1,
                            !.strayed = IF b.repTid # b.tid THEN @ \cup {b.tid} ELSE @]
    /\ UNCHANGED <<disk, desk, inbox, shown, delayed>>

Resend ==
    /\ Due /\ rtick.st.bag.tries < ReportTries /\ ~BadLink(rtick.st)
    /\ rtick.st.bag.frozen # NoReport
    /\ Goes("post", rtick.st)
    /\ UNCHANGED <<flash, disk, desk, inbox, shown, delayed, past, rleft>>

\* Mutant: what is sent names the transfer the device is on now.
SendReport_Renamed(out) ==
    LET r == [rtick.st.bag.frozen EXCEPT !.tid = rtick.st.bag.tid] IN
    /\ At("post") /\ Posts(out, r)
    /\ Goes("end", IF Succeeds(out, r)
                   THEN [rtick.st EXCEPT !.bag.pending = FALSE, !.streak = 0]
                   ELSE Deferred(rtick.st))
    /\ UNCHANGED <<flash, disk, shown, delayed, past>>
SendReport(out) ==
    LET r == rtick.st.bag.frozen IN
    /\ At("post") /\ Posts(out, r)
    /\ Goes("end", IF Succeeds(out, r)
                   THEN [rtick.st EXCEPT !.bag.pending = FALSE, !.streak = 0]
                   ELSE Deferred(rtick.st))
    /\ UNCHANGED <<flash, disk, shown, delayed, past>>

\* History: the tick that placed the image ended before its report was armed on
\* flash.
Unarmed == IF rtick.phase = "copied" /\ flash.copied /\ flash.bag.event # "complete"
           THEN past.unarmed \cup {flash.bag.tid} ELSE past.unarmed

SaveState(ok) ==
    /\ At("end") /\ Attempt(ok, "disk")
    /\ flash' = IF ok THEN rtick.st ELSE flash
    /\ rtick' = Idle
    /\ past' = IF ok THEN past ELSE [past EXCEPT !.unarmed = Unarmed]
    /\ UNCHANGED <<disk, desk, inbox, shown, delayed>>

TickDies ==
    /\ ~At("idle") /\ Event("crash") /\ Spend("crash")
    /\ rtick' = Idle
    /\ past' = [past EXCEPT !.unarmed = Unarmed]
    /\ UNCHANGED <<flash, disk, desk, inbox, shown, delayed>>

ReportTick ==
    \/ BeginUnassigned \/ StaysPlaced \/ SampleNone \/ NotDue \/ GiveUpReport \/ Defer \/ Resend
    \/ \E p \in 0..desk.plan, root \in BOOLEAN : BeginAssigned(p, root)
    \/ \E ok \in BOOLEAN : ReplanVerify(ok) \/ Downloading(ok) \/ FreezePull(ok)
                           \/ Freeze(ok) \/ SaveState(ok)
    \/ \E out \in {"bad", "placed", "noroom", "notcopied"} : HashStaged(out)
    \/ \E saved \in BOOLEAN, seen \in BOOLEAN : Sample(saved, seen)
    \/ \E out \in {"ok", "mute", "lost", "late"}, takes \in BOOLEAN : Heartbeat(out, takes)
    \/ \E out \in {"ok", "mute", "torn", "lost"} : SendPull(out) \/ SendReport(out)

----------------------------------------------------------------------------
(* Between the ticks.                                                      *)

\* The accelerated worker takes the agent's lock, numbers a sample, writes the
\* number down and posts it; the catalog refuses it for an image in error.
PeerTelemetryOnce(out) ==
    LET o == [tid |-> flash.bag.tid, seq |-> flash.bag.seq + 1, seen |-> TRUE] IN
    /\ At("idle") /\ Event("fast") /\ flash.bag.tid # 0 /\ o.seq <= MaxSeq /\ ~BadLink(flash)
    /\ (out = "late") => delayed = NoSample
    /\ Spend("fast")
    /\ flash' = [flash EXCEPT !.bag.seq = o.seq]
    /\ shown' = IF out = "ok" /\ (Silenced \/ ~desk.err) THEN Observe(o) ELSE shown
    /\ delayed' = IF out = "late" THEN o ELSE delayed
    /\ UNCHANGED <<rtick, disk, desk, inbox, past>>

\* A delayed observation arrives after later ones.
LateArrival ==
    /\ delayed # NoSample
    /\ shown' = Observe(delayed) /\ delayed' = NoSample
    /\ UNCHANGED <<flash, rtick, disk, desk, inbox, past, rleft>>

\* The live table drops a row nobody refreshed.
Evict ==
    /\ shown # NoSample /\ shown' = NoSample /\ Event("evict") /\ Spend("evict")
    /\ UNCHANGED <<flash, rtick, disk, desk, inbox, delayed, past>>

\* The operator assigns, unassigns, both between two ticks (Replan), asks for a
\* report, pauses the stream; an unanswered request lapses.  Only an image that was
\* not assigned gets a new plan.
Desk(e, d) ==
    /\ Event(e) /\ Spend(e) /\ desk' = d
    /\ UNCHANGED <<flash, rtick, disk, inbox, shown, delayed, past>>
NewPlan == [desk EXCEPT !.minted = @ + 1, !.plan = desk.minted + 1]
Replan == desk.plan # 0 /\ Desk("replan", NewPlan)
Unassign == desk.plan # 0 /\ Desk("unassign", [desk EXCEPT !.plan = 0])
Assign == desk.plan = 0 /\ Desk("assign", NewPlan)
RequestReport ==
    desk.pull = 0 /\ Desk("pull", [desk EXCEPT !.pull = desk.asked + 1, !.asked = @ + 1])
PullLapses == desk.pull # 0 /\ Desk("expire", [desk EXCEPT !.pull = 0])
PauseStream == Desk("pause", [desk EXCEPT !.pause = ~@])

ReportsNext ==
    \/ ReportTick \/ TickDies \/ LateArrival \/ Evict
    \/ \E out \in {"ok", "lost", "late"} : PeerTelemetryOnce(out)
    \/ Replan \/ Unassign \/ Assign \/ RequestReport \/ PullLapses \/ PauseStream

----------------------------------------------------------------------------
(* The peers' bytes: from the hook's snapshot to the stored report.         *)

\* An entry of the snapshot; bytes of -1 stand for one that cannot be read.
Entries == [ip : Senders, bytes : -1..2]
Snapshots == UNION {[1..n -> Entries] : n \in 0..HookRows + 1}
BytesOf(s) == MapThenFoldSet(+, 0, LAMBDA i : IF s[i].bytes < 0 THEN 0 ELSE s[i].bytes,
                             LAMBDA set : CHOOSE i \in set : TRUE, DOMAIN s)
Total(rows, ips) == MapThenFoldSet(+, 0, LAMBDA ip : rows[ip],
                                   LAMBDA set : CHOOSE ip \in set : TRUE, ips)
Unreadable(s) == \E i \in DOMAIN s : s[i].bytes < 0

\* The n rows with most bytes; of equals the first address.
Largest(rows, n) ==
    {ip \in DOMAIN rows :
        Cardinality({j \in DOMAIN rows : \/ rows[j] > rows[ip]
                                         \/ rows[j] = rows[ip] /\ j < ip}) < n}

\* Entries past the cap name nobody but are weighed.
\* Mutant: they are sliced away.
Overflow_Sliced(s) == <<>>
Overflow(s) == IF Len(s) > HookRows THEN SubSeq(s, HookRows + 1, Len(s)) ELSE <<>>

ParseSnapshot(s) ==
    LET read == SubSeq(s, 1, IF Len(s) > HookRows THEN HookRows ELSE Len(s))
        ips == {read[i].ip : i \in {j \in DOMAIN read : read[j].bytes >= 0}}
        merged == [ip \in ips |-> BytesOf(SelectSeq(read, LAMBDA e : e.ip = ip))]
        over == Overflow(s)
        named == Largest(merged, NamedRows)
    IN [rows |-> [ip \in named |-> merged[ip]], complete |-> ~Unreadable(read) /\ ~Unreadable(over),
        count |-> Cardinality(ips) + Len(over),
        unnamed |-> Cardinality(ips \ named) + Len(over),
        bytes |-> Total(merged, ips) + BytesOf(over),
        omitted |-> Total(merged, ips \ named) + BytesOf(over)]

\* The intake checks the sums and moves what it drops into the omitted part.
Consistent(block) ==
    /\ block.count = Cardinality(DOMAIN block.rows) + block.unnamed
    /\ block.bytes = Total(block.rows, DOMAIN block.rows) + block.omitted
SanitizeRecords(block) ==
    LET stored == Largest(block.rows, StoredRows)
        dropped == DOMAIN block.rows \ stored
    IN [block EXCEPT !.rows = [ip \in stored |-> block.rows[ip]],
                     !.unnamed = @ + Cardinality(dropped),
                     !.omitted = @ + Total(block.rows, dropped)]

----------------------------------------------------------------------------
(* What the telemetry promises.                                            *)

\* A transfer's completion is one report however often it is sent: the freeze is
\* written down before the first post (_send_frozen_report), so a crash, a lost
\* reply or a failed write repeats the same report id.
CompletionReportedOnce ==
    \A r, s \in inbox : (r.event = "complete" /\ s.event = "complete" /\ r.tid = s.tid
                         /\ r.tid \notin past.strayed) => r = s

\* A report says "verified" only of a transfer under which the bytes were hashed,
\* and "complete" only of one under which the image stood placed (adopt_plan resets
\* the bag, RECHECK and the park pass drop the verdict).
OwnEvidence ==
    \A r \in inbox : /\ r.sha = "verified" => r.tid \in past.hashed
                     /\ r.event = "complete" => r.tid \in past.placed \cup past.strayed

\* Peer bytes captured in an earlier transfer's download are never reported under a
\* later one, although the sidecar may outlive its transfer.
OwnRecords == \A r \in inbox : r.rec # "old"

\* Every pull request is answered by one report.
OneAnswerPerRequest ==
    \A r, s \in inbox : (r.req # 0 /\ r.req = s.req) => r = s

\* A sample that arrives in time is never taken for an old one: its number was
\* written down before it was sent, whatever crashed since.
FreshSampleAccepted ==
    (At("beat") /\ rtick.obs.seq # 0 /\ shown.tid = rtick.obs.tid) => shown.seq < rtick.obs.seq

\* However many entries a cap drops, on the device or at the intake, the report is
\* accepted and its total is what all senders sent, or says it is a floor.  It is
\* evaluated before the first tick.
RecordsKeepTotal ==
    (At("idle") /\ flash = EmptyState) => \A s \in Snapshots :
        LET block == ParseSnapshot(s)
            kept == SanitizeRecords(block)
        IN /\ Consistent(block) /\ Consistent(kept)
           /\ kept.bytes = BytesOf(s)
           /\ kept.complete = ~Unreadable(s)

\* A frozen report that waits for delivery leaves the state file only when it was
\* stored, given up, or superseded by its own transfer's completion
\* (_arm_terminal_report refuses to arm over another transfer's).
FrozenSurvives ==
    (flash.bag.pending /\ flash.bag.frozen # NoReport /\ flash'.bag.frozen # flash.bag.frozen)
        => \/ flash.bag.frozen \in inbox'
           \/ flash.bag.frozen.tid \in past'.given
           \/ flash.bag.frozen.event = "seeding" /\ flash.bag.frozen.tid = flash'.bag.tid
           \/ past'.relabelled

\* Nothing starts to be shown while the stream is paused or nothing is assigned,
\* by a late heartbeat or by the accelerated worker either.
PausedShowsNothing == (shown'.seen /\ ~shown.seen) => ~desk.pause /\ desk.plan # 0

\* A request is cleared by the report that answers it, or lapses.
PullClearsOwn ==
    (desk.pull # 0 /\ desk'.pull = 0)
        => rleft' # rleft \/ \E r \in inbox' : r.req = desk.pull

\* At last the transfer the device is on is reported complete, unless its report
\* was given up or the tick that placed it died before the report was armed; and
\* no request is left open.
TransferReported ==
    desk.plan # 0 =>
        /\ desk.pull = 0
        /\ \/ \E r \in inbox : r.tid = desk.plan /\ r.event = "complete"
           \/ desk.plan \in past.given \cup past.unarmed

\* The parts together, of states and of steps.
ReportsSafe ==
    /\ CompletionReportedOnce /\ OwnEvidence /\ OwnRecords
    /\ OneAnswerPerRequest /\ FreshSampleAccepted /\ RecordsKeepTotal
ReportSteps == FrozenSurvives /\ PausedShowsNothing /\ PullClearsOwn
============================================================================
