------------------------- MODULE InstructionAccept -------------------------
(***************************************************************************)
(* The agent's acceptance of signed instructions (device/agent/instr.py)   *)
(* inside one tick of the agent (run_once and main of iris_agent.py).      *)
(*                                                                         *)
(* A tick loads the agent's state file into memory (bag), recovers the     *)
(* keylist and the last-known-good (LKG) files, polls the catalog for a    *)
(* hint, installs a newer keylist, reads a bootstrap candidate, fetches    *)
(* and verifies the envelope the hint points at, promotes it through two   *)
(* files and the state file, and saves the state on its way out.  Every    *)
(* durable write is a step of its own, so a power loss can fall between    *)
(* any two of them.                                                        *)
(*                                                                         *)
(* An (epoch, instr_serial) pair is one number, ordered as the pair is; 0  *)
(* stands for none.  A digest is the thing digested.  A keylist is its     *)
(* sequence number; keylist q revokes the signers below q.                 *)
(***************************************************************************)
EXTENDS Integers

CONSTANTS
    MaxSerial,      \* bound on the serials the server reaches
    MaxKeylist,     \* bound on the keylist sequence
    MaxDate,        \* bound on time
    Lifetime,       \* how long an envelope is valid
    ResetAfter,     \* equal lower hints that arm a reset: 10 in note_hint
    SkewLimit,      \* answers behind the pointer before it is reported: 3
    Tolerance,      \* what a Date may lag the projected clock: 300 seconds
    Faults,         \* the budgets of outside events a behaviour starts with
    None            \* no envelope, no file, no clock

ASSUME AcceptAssumption ==
    /\ MaxSerial \in Nat \ {0} /\ MaxKeylist \in Nat \ {0}
    /\ MaxDate \in Nat /\ Lifetime \in Nat \ {0}
    /\ ResetAfter \in Nat \ {0} /\ SkewLimit \in Nat \ {0}
    /\ Tolerance \in Nat

VARIABLES
    flash,      \* the device's files: state, LKG, .previous, keylist, bootstrap
    bag,        \* state["instructions"] in the memory of the running tick
    pc,         \* where the tick is; "idle" between two ticks
    tick,       \* the locals of the tick
    server,     \* what the catalog serves
    clock,      \* elapsed time, the server's lead over it and the boot
    named,      \* how often each serial was hinted since the last promotion
    top,        \* the serial the device last ran on under a floor
    torn,       \* a recovery discarded the file the saved state names
    faults      \* what is left of the outside events

acceptVars == <<flash, bag, pc, tick, server, clock, named, top, torn, faults>>

Serials == 1 .. MaxSerial
Envelopes == [ser : Serials, inc : Nat, v : {1, 2}, sig : 1 .. MaxKeylist,
              exp : 0 .. MaxDate + Lifetime]
Absent == [mark |-> "absent"]           \* the file IRIS-LKG-ABSENT/1
Rejected == [mark |-> "rejected"]       \* no file a recovery can settle on
Outside == {"publish", "ahead", "restore", "rotate", "time", "back", "poll",
            "fetch", "disk", "verify", "crash", "damage", "seed"}

ASSUME OutsideAssumption ==
    /\ Faults \subseteq [Outside -> Nat]
    /\ None \notin Envelopes /\ None # Absent

Spend(e) == faults[e] > 0 /\ faults' = [faults EXCEPT ![e] = @ - 1]

NoState ==
    [floor |-> 0, vf |-> 1, dig |-> None, lower |-> 0, count |-> 0, reset |-> 0,
     ptr |-> 0, pend |-> FALSE, etag |-> None, skew |-> 0, lkg |-> None,
     catalog |-> None, instruction |-> None, hb |-> 0]

NoTick == [ptr |-> 0, kl |-> 0, loaded |-> None, src |-> "none", cand |-> None,
           seen |-> FALSE, time |-> None, eff |-> None, att |-> "none",
           krl |-> 0, kfail |-> FALSE, kcut |-> FALSE, prior |-> NoState]

----------------------------------------------------------------------------
(* Clocks *)

Date == clock.mono + clock.lead

\* project_clock: an anchor of another boot is dropped, never projected.
Projected(b, domain) ==
    IF b[domain] = None \/ b[domain].boot # clock.boot THEN None
    ELSE clock.mono + b[domain].lead

Invalidate(b, domain) ==
    IF Projected(b, domain) = None THEN [b EXCEPT ![domain] = None] ELSE b

\* observe_clock refuses a Date too far behind the projection.
ClockRefuses(b, domain, date) ==
    /\ Projected(b, domain) # None
    /\ date < Projected(b, domain) - Tolerance

Observe(b, domain, date) ==
    IF Projected(b, domain) = None \/ date > Projected(b, domain)
    THEN [b EXCEPT ![domain] = [lead |-> date - clock.mono, boot |-> clock.boot]]
    ELSE b

Effective(b, date) ==
    LET p == Projected(b, "instruction")
    IN  IF p # None /\ p > date THEN p ELSE date

----------------------------------------------------------------------------
(* Hints, replay and the last-known-good file *)

ClearHints(b) == [b EXCEPT !.lower = 0, !.count = 0, !.reset = 0]

\* Mutant: the reset is armed one hint early.
NoteHint_Early(b, hint, authenticated) ==
    IF ~authenticated \/ hint = 0 \/ b.floor = 0 \/ hint >= b.floor
    THEN ClearHints(b)
    ELSE [b EXCEPT !.lower = hint, !.count = 1,
                   !.reset = IF ResetAfter <= 2 \/ hint = b.lower THEN hint ELSE 0]

\* note_hint: ResetAfter equal hints below the floor arm pending_reset.
NoteHint(b, hint, authenticated) ==
    IF ~authenticated \/ hint = 0 \/ b.floor = 0 \/ hint >= b.floor
    THEN ClearHints(b)
    ELSE LET was == IF hint = b.lower THEN b.count ELSE 0
             n == IF was < ResetAfter THEN was + 1 ELSE ResetAfter
         IN  [b EXCEPT !.lower = hint, !.count = n,
                       !.reset = IF n = ResetAfter THEN hint
                                 ELSE IF hint = b.lower THEN @ ELSE 0]

\* _replay
Replayed(e, b) ==
    \/ e.v < b.vf
    \/ b.floor # 0 /\ e.ser < b.floor /\ e.ser # b.reset
    \/ b.floor # 0 /\ e.ser = b.floor /\ e # b.dig /\ e.v <= b.vf

\* verify_envelope, as the outcome it raises or "ok".
Verdict(e, b, date) ==
    IF \/ e.v # 2
       \/ tick.krl # 0 /\ e.sig < tick.krl
       \/ ClockRefuses(b, "instruction", date)
    THEN "tamper"
    ELSE IF Effective(b, date) >= e.exp THEN "expired"
    ELSE IF Replayed(e, b) THEN "rollback"
    ELSE "ok"

\* apply_verified
Apply(b, e, date) ==
    Observe([ClearHints(b) EXCEPT !.floor = e.ser, !.dig = e,
                 !.vf = IF e.v > @ THEN e.v ELSE @],
            "instruction", date)

\* The file LKGStore.recover settles on for a state that names the digest d.
Settled(d) ==
    IF flash.prev = None \/ (flash.lkg # None /\ flash.lkg = d) THEN flash.lkg
    ELSE IF flash.prev = Absent /\ d = None THEN None
    ELSE IF d = None \/ flash.prev = d THEN flash.prev
    ELSE Rejected

\* LKGStore.load refuses a file the state, the keylist or the floor disowns.
Loadable(e, b) ==
    /\ e \notin {None, Absent} /\ e.v = 2
    /\ tick.krl # 0 => e.sig >= tick.krl
    /\ b.lkg \in {None, e}
    /\ e.v >= b.vf /\ e.ser >= b.floor

Current(e, b) ==
    Projected(b, "instruction") # None /\ Projected(b, "instruction") < e.exp

----------------------------------------------------------------------------
AcceptInit ==
    /\ \E legacy \in [ser : {1}, inc : {0}, v : {1, 2}, sig : {1}, exp : {Lifetime}],
          has \in {"nothing", "instruction"} :
        LET held == IF has = "nothing" THEN None ELSE legacy
        IN  /\ flash = [state |-> IF held = None THEN NoState
                                 ELSE [NoState EXCEPT !.floor = 1, !.vf = held.v,
                                           !.dig = held, !.lkg = held],
                       lkg |-> held, prev |-> None, seed |-> None,
                       artifact |-> 0, kstate |-> 0]
            /\ server = [pub |-> [legacy EXCEPT !.v = 2], ptr |-> 1, kl |-> 1, inc |-> 0]
    /\ bag = NoState
    /\ pc = "idle"
    /\ tick = NoTick
    /\ clock = [mono |-> 0, lead |-> 0, boot |-> 0]
    /\ named = [s \in Serials |-> 0]
    /\ top = 0
    /\ torn = FALSE
    /\ faults \in Faults

Goto(where) == pc' = where
KeepDisk == UNCHANGED <<flash, torn>>
Quiet == UNCHANGED <<server, clock>>
Same == Quiet /\ UNCHANGED top

\* main: the state file is loaded once, under the single-instance lock.
StartTick ==
    /\ pc = "idle"
    /\ bag' = Invalidate(Invalidate(flash.state, "catalog"), "instruction")
    /\ tick' = [NoTick EXCEPT !.time = Projected(flash.state, "instruction")]
    /\ Goto("preview-keys")
    /\ KeepDisk /\ Same /\ UNCHANGED <<named, faults>>

\* Mutant: an artifact ahead of the state is left for the next fetch.
RecoverKeys_KeepOld(here, ok, bad) ==
    /\ pc = here
    /\ flash.artifact # 0 => flash.kstate # 0
    /\ tick' = [tick EXCEPT !.krl = flash.kstate]
    /\ Goto(ok)
    /\ KeepDisk /\ Same /\ UNCHANGED <<bag, named, faults>>

\* KeylistStore.recover, and the list the step then has in memory (krl).  An
\* artifact without a state, or behind it, is tampering; one ahead of it is
\* verified again and adopted; one whose verification fails leaves the older
\* keylist in force; a failed write ends the step.
RecoverKeys(here, ok, bad) ==
    /\ pc = here
    /\ \/ /\ flash.artifact = 0 \/ flash.artifact = flash.kstate
          /\ tick' = [tick EXCEPT !.krl = flash.kstate]
          /\ Goto(ok)
          /\ KeepDisk /\ UNCHANGED faults
       \/ /\ flash.artifact # 0
          /\ flash.kstate = 0 \/ flash.artifact < flash.kstate
          /\ tick' = [tick EXCEPT !.att = "tamper", !.eff = None]
          /\ Goto(bad)
          /\ KeepDisk /\ UNCHANGED faults
       \/ /\ flash.kstate # 0 /\ flash.artifact > flash.kstate
          /\ \/ /\ flash' = [flash EXCEPT !.kstate = flash.artifact]
                /\ tick' = [tick EXCEPT !.krl = flash.artifact]
                /\ UNCHANGED faults
             \/ /\ Spend("verify")
                /\ tick' = [tick EXCEPT !.krl = flash.kstate, !.att = "keylist", !.kfail = TRUE]
                /\ UNCHANGED flash
          /\ Goto(ok)
          /\ UNCHANGED torn
       \/ /\ flash.kstate # 0 /\ flash.artifact >= flash.kstate
          /\ Spend("disk")
          /\ flash' \in {flash, [flash EXCEPT !.kstate = flash.artifact]}
          /\ tick' = [tick EXCEPT !.att = "unavailable", !.eff = None]
          /\ Goto(bad)
          /\ UNCHANGED torn
    /\ Same /\ UNCHANGED <<bag, named>>

\* LKGStore.recover: one durable write at a time, decided again after each.
RecoverLkg(here, ok, bad) ==
    /\ pc = here
    /\ \/ /\ flash.prev = None
          /\ Goto(ok)
          /\ UNCHANGED <<flash, tick, torn>>
       \/ /\ flash.prev # None /\ Settled(bag.lkg) # Rejected
          /\ torn' = (torn \/ bag.lkg # flash.state.lkg)
          /\ flash' = IF flash.lkg = Settled(bag.lkg)
                     THEN [flash EXCEPT !.prev = None]
                     ELSE [flash EXCEPT !.lkg = Settled(bag.lkg)]
          /\ UNCHANGED <<pc, tick>>
       \/ /\ flash.prev # None /\ Settled(bag.lkg) = Rejected
          /\ tick' = [tick EXCEPT !.att = "rejected", !.eff = None]
          /\ Goto(bad)
          /\ UNCHANGED <<flash, torn>>
    /\ Same /\ UNCHANGED <<bag, named, faults>>

\* LKGStore.load with the instruction clock of this boot.  A file loaded after
\* the state was lost is run on but sets no floor, and top with it stays.
LoadLkg(here, next) ==
    /\ pc = here
    /\ LET e == flash.lkg
           keylist == tick.att = "keylist"
       IN  tick' = IF Loadable(e, bag)
                   THEN [tick EXCEPT !.loaded = e, !.eff = e,
                             !.att = IF keylist THEN @
                                     ELSE IF Current(e, bag) THEN "lkg" ELSE "expired"]
                   ELSE [tick EXCEPT !.loaded = None, !.eff = None,
                             !.att = IF keylist \/ e = None THEN @ ELSE "rejected"]
    /\ top' = IF Loadable(flash.lkg, bag) /\ bag.floor # 0 THEN flash.lkg.ser ELSE top
    /\ Goto(next)
    /\ KeepDisk /\ Quiet /\ UNCHANGED <<bag, named, faults>>

\* _cadence_due: an instruction may stretch the poll over several ticks, and
\* a heartbeat that announced another serial ends the stretch.
NotDue ==
    /\ pc = "poll"
    /\ tick.eff # None
    /\ bag.hb \in {0, bag.floor}
    /\ Goto("save")
    /\ KeepDisk /\ Same /\ UNCHANGED <<bag, tick, named, faults>>

\* get_policy: a failure drops the hints; an authenticated Date anchors the
\* catalog clock and the hint is counted; a Date in the past is refused.
Poll ==
    /\ pc = "poll"
    /\ \/ /\ Spend("poll")
          /\ bag' = ClearHints(bag)
          /\ Goto("save")
          /\ UNCHANGED <<tick, named>>
       \/ /\ ClockRefuses(bag, "catalog", Date)
          /\ bag' = ClearHints(bag)
          /\ tick' = [tick EXCEPT !.att = "tamper", !.eff = None]
          /\ Goto("save")
          /\ UNCHANGED <<named, faults>>
       \/ /\ ~ClockRefuses(bag, "catalog", Date)
          /\ bag' = NoteHint(Observe(bag, "catalog", Date), server.ptr, TRUE)
          /\ tick' = [tick EXCEPT !.ptr = server.ptr, !.kl = server.kl,
                                  !.eff = None, !.att = "none", !.loaded = None,
                                  !.krl = 0, !.kfail = FALSE]
          /\ named' = [named EXCEPT ![server.ptr] =
                          IF @ < ResetAfter THEN @ + 1 ELSE @]
          /\ Goto("keys")
          /\ UNCHANGED faults
    /\ KeepDisk /\ Same

\* KeylistStore.install: the artifact first, then the state that vouches for
\* it.  A failed fetch, verification or write keeps the old keylist for this
\* tick, whichever of the two files was replaced (kcut: a write failed).
FetchKeylist ==
    /\ pc = "fetch-keys"
    /\ \/ /\ tick.kl > tick.krl
          /\ flash' = [flash EXCEPT !.artifact = server.kl]
          /\ Goto("install-keys")
          /\ UNCHANGED <<tick, faults>>
       \/ /\ tick.kl <= tick.krl
          /\ Goto("recover")
          /\ UNCHANGED <<flash, tick, faults>>
       \/ /\ tick.kl > tick.krl
          /\ \/ Spend("fetch") /\ UNCHANGED <<flash, tick>>
             \/ /\ Spend("verify")
                /\ tick' = [tick EXCEPT !.att = "keylist", !.kfail = TRUE]
                /\ UNCHANGED flash
             \/ /\ Spend("disk")
                /\ flash' \in {flash, [flash EXCEPT !.artifact = server.kl]}
                /\ tick' = [tick EXCEPT !.kcut = TRUE]
          /\ Goto("recover")
    /\ Same /\ UNCHANGED <<bag, torn, named>>

InstallKeylist ==
    /\ pc = "install-keys"
    /\ \/ /\ flash' = [flash EXCEPT !.kstate = flash.artifact]
          /\ tick' = [tick EXCEPT !.krl = flash.artifact, !.att = "none", !.kfail = FALSE]
          /\ UNCHANGED faults
       \/ /\ Spend("disk")
          /\ flash' \in {flash, [flash EXCEPT !.kstate = flash.artifact]}
          /\ tick' = [tick EXCEPT !.kcut = TRUE]
    /\ Goto("recover")
    /\ Same /\ UNCHANGED <<bag, torn, named>>

\* The bootstrap candidate: unlinked when it is the one already applied or
\* is definitively refused, promoted when it verifies.
Bootstrap ==
    /\ pc = "bootstrap"
    /\ LET c == flash.seed
           applied == tick.loaded # None /\ tick.loaded.ser = bag.floor /\ c = bag.dig
       IN  \/ /\ c = None
              /\ Goto("fetch")
              /\ UNCHANGED <<flash, tick, faults>>
           \/ /\ c # None /\ (applied \/ Verdict(c, bag, Date) # "ok")
              /\ flash' = [flash EXCEPT !.seed = None]
              /\ tick' = [tick EXCEPT !.seen = TRUE,
                              !.att = IF applied THEN @ ELSE Verdict(c, bag, Date)]
              /\ Goto("fetch")
              /\ UNCHANGED faults
           \/ /\ c # None /\ ~applied /\ Verdict(c, bag, Date) = "ok"
              /\ tick' = [tick EXCEPT !.seen = TRUE, !.src = "seed", !.cand = c]
              /\ Goto("begin")
              /\ UNCHANGED <<flash, faults>>
           \/ /\ c # None /\ ~applied
              /\ Spend("verify")
              /\ tick' = [tick EXCEPT !.seen = TRUE, !.att = "verifier"]
              /\ Goto("fetch")
              /\ UNCHANGED flash
    /\ Same /\ UNCHANGED <<bag, torn, named>>

Unconditional == tick.loaded = None \/ tick.time = None
Skew == IF tick.ptr # bag.ptr THEN 0 ELSE bag.skew

\* Mutant: answers behind the pointer are counted without end.
SkewUnsettled_NoEnd == Skew > 0

SkewUnsettled == Skew > 0 /\ Skew < SkewLimit

\* Mutant: a cached instruction is fetched again only while it is pending.
NeedsFetch_CachedOnly == tick.seen \/ Unconditional \/ bag.pend \/ bag.reset # 0

NeedsFetch ==
    \/ tick.seen \/ tick.ptr # bag.ptr \/ Unconditional
    \/ bag.pend \/ bag.reset # 0
    \/ SkewUnsettled

\* get_instructions: skipped, unavailable, unchanged (304), refused or
\* handed to the promotion.
Fetch ==
    /\ pc = "fetch"
    /\ LET asked == [bag EXCEPT !.skew = Skew, !.pend = TRUE]
           fresh == Unconditional \/ bag.etag # server.pub
           verdict == Verdict(server.pub, bag, Date)
           applied == tick.src = "applied"
       IN  \/ /\ ~NeedsFetch
              /\ bag' = [bag EXCEPT !.skew = Skew]
              /\ Goto("save")
              /\ UNCHANGED <<tick, faults>>
           \/ /\ NeedsFetch /\ Spend("fetch")
              /\ bag' = asked
              /\ tick' = [tick EXCEPT !.att = IF applied THEN @ ELSE "unavailable"]
              /\ Goto("save")
           \/ /\ NeedsFetch /\ ~fresh
              /\ bag' = IF SkewUnsettled
                        THEN [asked EXCEPT !.skew = Skew + 1, !.pend = FALSE]
                        ELSE asked
              /\ Goto("save")
              /\ UNCHANGED <<tick, faults>>
           \/ /\ NeedsFetch /\ fresh /\ verdict # "ok"
              /\ bag' = asked
              /\ tick' = [tick EXCEPT !.att = IF applied THEN @ ELSE verdict]
              /\ Goto("save")
              /\ UNCHANGED faults
           \/ /\ NeedsFetch /\ fresh /\ verdict = "ok"
              /\ bag' = asked
              /\ tick' = [tick EXCEPT !.src = "net", !.cand = server.pub]
              /\ Goto("begin")
              /\ UNCHANGED faults
    /\ KeepDisk /\ Same /\ UNCHANGED named

----------------------------------------------------------------------------
(* _promote_verified: .previous, the LKG file, the state file, no .previous *)

AfterFailure == IF tick.src = "seed" THEN "fetch" ELSE "save"

\* Mutant: nothing is kept of the file about to be replaced.
PromoteBegin_NoPrevious ==
    /\ pc = "begun"
    /\ tick' = [tick EXCEPT !.prior = bag]
    /\ Goto("store")
    /\ KeepDisk /\ Same /\ UNCHANGED <<bag, named, faults>>

PromoteBegin ==
    /\ pc = "begun"
    /\ flash' = [flash EXCEPT !.prev = IF flash.lkg = None THEN Absent ELSE flash.lkg]
    /\ tick' = [tick EXCEPT !.prior = bag]
    /\ Goto("store")
    /\ Same /\ UNCHANGED <<bag, torn, named, faults>>

\* LKGStore.store and apply_verified; a failed write leaves the old file.
PromoteStore ==
    /\ pc = "store"
    /\ \/ /\ flash' = [flash EXCEPT !.lkg = tick.cand]
          /\ bag' = Apply([bag EXCEPT !.lkg = tick.cand], tick.cand, Date)
          /\ Goto("checkpoint")
          /\ UNCHANGED <<tick, faults>>
       \/ /\ Spend("disk")
          /\ tick' = [tick EXCEPT !.att = "unavailable"]
          /\ Goto(AfterFailure)
          /\ UNCHANGED <<flash, bag>>
    /\ Same /\ UNCHANGED <<torn, named>>

\* The checkpoint; one that fails may have replaced the state file already,
\* and the memory goes back to what it was.
PromoteCheckpoint ==
    /\ pc = "checkpoint"
    /\ \/ /\ flash' = [flash EXCEPT !.state = bag]
          /\ torn' = FALSE
          /\ Goto("finish")
          /\ UNCHANGED <<bag, tick, faults>>
       \/ /\ Spend("disk")
          /\ \/ flash' = [flash EXCEPT !.state = bag]
             \/ UNCHANGED flash
          /\ UNCHANGED torn
          /\ bag' = tick.prior
          /\ tick' = [tick EXCEPT !.att = "unavailable"]
          /\ Goto(AfterFailure)
    /\ Same /\ UNCHANGED named

PromoteFinish ==
    /\ pc = "finish"
    /\ flash' = [flash EXCEPT !.prev = None,
                            !.seed = IF tick.src = "seed" THEN None ELSE @]
    /\ tick' = [tick EXCEPT !.eff = tick.cand, !.src = "applied",
                    !.att = IF tick.cand.ser < tick.prior.floor THEN "reset" ELSE "applied"]
    /\ IF tick.src = "seed"
       THEN Goto("fetch") /\ UNCHANGED bag
       ELSE /\ bag' = [bag EXCEPT !.pend = FALSE, !.ptr = tick.ptr, !.etag = tick.cand,
                           !.skew = IF tick.cand.ser < tick.ptr
                                    THEN IF @ < SkewLimit THEN @ + 1 ELSE @
                                    ELSE 0]
            /\ Goto("save")
    /\ named' = [s \in Serials |-> 0]
    /\ top' = tick.cand.ser
    /\ Quiet /\ UNCHANGED <<torn, faults>>

\* The end of run_once and of main: the heartbeat's answer is remembered and
\* the state is saved, best-effort.
SaveState ==
    /\ pc = "save"
    /\ \/ /\ flash' = [flash EXCEPT !.state = [bag EXCEPT !.hb = server.ptr]]
          /\ torn' = (torn /\ bag.lkg # flash.lkg)
          /\ UNCHANGED faults
       \/ /\ Spend("disk")
          /\ UNCHANGED <<flash, torn>>
    /\ bag' = NoState
    /\ Goto("idle")
    /\ tick' = [NoTick EXCEPT !.eff = tick.eff, !.att = tick.att, !.krl = tick.krl,
                              !.kfail = tick.kfail, !.kcut = tick.kcut]
    /\ Same /\ UNCHANGED named

----------------------------------------------------------------------------
(* Outside events *)

\* Power loss (a new boot) or a killed agent: the memory of the tick is gone.
Crash ==
    /\ pc # "idle"
    /\ Spend("crash")
    /\ \E b \in {0, 1} : clock' = [clock EXCEPT !.boot = @ + b]
    /\ pc' = "idle" /\ bag' = NoState /\ tick' = NoTick
    /\ UNCHANGED <<flash, server, named, top, torn>>

\* An unreadable state file is an empty one.
Damage ==
    /\ pc = "idle"
    /\ Spend("damage")
    /\ flash' = [flash EXCEPT !.state = NoState]
    /\ top' = 0
    /\ UNCHANGED <<bag, pc, tick, server, clock, named, torn>>

\* The installer leaves an envelope of the server, current or old, as the
\* bootstrap candidate.
Seed ==
    /\ pc = "idle" /\ flash.seed = None
    /\ Spend("seed")
    /\ \E e \in {server.pub, [server.pub EXCEPT !.ser = 1, !.sig = 1]} :
          flash' = [flash EXCEPT !.seed = e]
    /\ UNCHANGED <<bag, pc, tick, server, clock, named, top, torn>>

Issue(ser, sig) == [ser |-> ser, inc |-> server.inc, v |-> 2, sig |-> sig,
                    exp |-> Date + Lifetime]

ServerStep ==
    /\ \/ /\ Spend("publish")
          /\ server.pub.ser < MaxSerial
          /\ server' = [server EXCEPT !.pub = Issue(server.pub.ser + 1, server.kl),
                                      !.ptr = server.pub.ser + 1]
       \/ /\ Spend("ahead")             \* the pointer moves before the body
          /\ server.pub.ser < MaxSerial
          /\ server' = [server EXCEPT !.ptr = server.pub.ser + 1]
       \/ /\ Spend("restore")           \* the server went back to a backup
          /\ server.pub.ser > 1
          /\ server' = [server EXCEPT
                            !.pub = [Issue(server.pub.ser - 1, server.kl)
                                        EXCEPT !.inc = server.inc + 1],
                            !.ptr = server.pub.ser - 1, !.inc = @ + 1]
       \/ /\ Spend("rotate")
          /\ server.kl < MaxKeylist /\ server.pub.ser < MaxSerial
          /\ server' = [server EXCEPT !.kl = @ + 1, !.ptr = server.pub.ser + 1,
                            !.pub = Issue(server.pub.ser + 1, server.kl + 1)]
    /\ UNCHANGED <<flash, bag, pc, tick, clock, named, top, torn>>

\* The tick reads its monotonic clock once per step: time passes around it.
ClockStep ==
    /\ pc \in {"idle", "poll"}
    /\ \/ /\ Spend("time")
          /\ clock.mono < MaxDate
          /\ clock' = [clock EXCEPT !.mono = @ + 1]
       \/ /\ Spend("back")              \* the server's clock is set back
          /\ Date > Tolerance
          /\ clock' = [clock EXCEPT !.lead = @ - Tolerance - 1]
    /\ UNCHANGED <<flash, bag, pc, tick, server, named, top, torn>>

AgentStep ==
    \/ StartTick
    \/ RecoverKeys("preview-keys", "preview-lkg", "poll")
    \/ RecoverLkg("preview-lkg", "preview", "poll")
    \/ LoadLkg("preview", "poll")
    \/ Poll \/ NotDue
    \/ RecoverKeys("keys", "fetch-keys", "save")
    \/ FetchKeylist \/ InstallKeylist
    \/ RecoverLkg("recover", "load", "save")
    \/ LoadLkg("load", "bootstrap")
    \/ Bootstrap \/ Fetch
    \/ RecoverLkg("begin", "begun", AfterFailure)
    \/ PromoteBegin \/ PromoteStore \/ PromoteCheckpoint \/ PromoteFinish
    \/ SaveState

AcceptNext == AgentStep \/ Crash \/ Damage \/ Seed \/ ServerStep \/ ClockStep
AcceptSpec == AcceptInit /\ [][AcceptNext]_acceptVars

----------------------------------------------------------------------------
(* Properties *)

MaybeEnvelope == Envelopes \cup {None}
Clocks == [lead : Int, boot : Nat] \cup {None}
Bags == [floor : 0 .. MaxSerial, vf : {1, 2}, dig : MaybeEnvelope,
         lower : 0 .. MaxSerial, count : 0 .. ResetAfter, reset : 0 .. MaxSerial,
         ptr : 0 .. MaxSerial, pend : BOOLEAN, etag : MaybeEnvelope,
         skew : 0 .. SkewLimit, lkg : MaybeEnvelope, catalog : Clocks,
         instruction : Clocks, hb : 0 .. MaxSerial]

Files == [state : Bags, lkg : MaybeEnvelope, prev : MaybeEnvelope \cup {Absent},
          seed : MaybeEnvelope, artifact : 0 .. MaxKeylist, kstate : 0 .. MaxKeylist]

\* Every field of the device's files, of the tick's memory and of what the
\* server offers stays in its domain: counts of hints and of skew included.
AcceptTypeOK ==
    /\ flash \in Files /\ bag \in Bags
    /\ named \in [Serials -> 0 .. ResetAfter]
    /\ top \in 0 .. MaxSerial /\ torn \in BOOLEAN
    /\ tick.cand \in MaybeEnvelope /\ tick.eff \in MaybeEnvelope
    /\ faults \in [Outside -> Nat]

\* The promotion replaces the LKG file before the state that names it
\* (_promote_verified): whatever the power loss cuts, the files still hold
\* the very envelope the saved floor stands for, so a device that restarts
\* out of reach of its server keeps its instruction.  Excepted is a tick
\* whose failed checkpoint had replaced the state file and whose second
\* promotion then recovered the files for the older state (torn).
FloorHasItsFile ==
    LET s == flash.state
    IN  s.floor # 0 /\ ~torn => Settled(s.lkg) = s.dig /\ s.dig.ser = s.floor

\* A device runs on a lower serial than before only when ResetAfter polls
\* named that serial, or one below it that a cut promotion had reached, since
\* the last promotion, or when its whole state file was lost (note_hint,
\* _replay, load): no order of crashes, failed saves, cut promotions and old
\* candidates rolls it back.
RollbackOnlyOnRepeatedHints ==
    top' < top => top' = 0 \/ \E s \in 1 .. top' : named[s] >= ResetAfter

\* No tick that attests an instruction as applied or as last known good runs
\* one whose signer is revoked by the list it holds in memory or, once a newer
\* keylist artifact is on disk, by that artifact: not even when a power loss or
\* a failed write of an earlier tick cut the installation (KeylistStore.recover).
\* Only a tick whose own installation failed, or whose verifier failed on the
\* keylist itself, stays with the older list, by design.
RevokedNeverAttested ==
    pc \in {"save", "idle"} /\ tick.eff # None /\ tick.att \in {"lkg", "applied", "reset"}
        => /\ tick.eff.sig >= tick.krl
           /\ ~tick.kfail /\ ~tick.kcut => tick.eff.sig >= flash.artifact

\* The first keylist was cut between its two files: recover refuses it.  A
\* torn recovery cut before its unlink is refused in the same way.
KeylistCut == flash.artifact # 0 /\ flash.kstate = 0

\* The device must refuse: the envelope is past its expiry, re-uses the
\* serial of the floor, or the server's clock went back.
MustRefuse ==
    \/ Date >= server.pub.exp \/ clock.lead < 0
    \/ server.pub.ser = flash.state.floor /\ server.pub # flash.state.dig

\* The detector gave up on this pointer and reported it: nothing is fetched
\* until the pointer moves or the device boots, not even the missing body.
SkewReported == flash.state.skew = SkewLimit /\ flash.state.ptr = server.ptr

\* With the faults spent the device ends up with what the server publishes:
\* no cached pointer, ETag, skew count or pending hint parks it on an older
\* envelope (run_instruction_step).  Holds for good in the end.
DeviceConverges ==
    KeylistCut \/ torn \/ MustRefuse \/ SkewReported \/ flash.state.dig = server.pub

\* instr.py:1465 "Keep both local artifacts so restart can classify either
\* outcome": the LKG files never contradict the saved state between ticks.
RestartClassifiesFiles == pc = "idle" => Settled(flash.state.lkg) # Rejected

\* test_keylist_durability_failures_preserve_recoverable_authority: a failed
\* or cut installation leaves a keylist the next start can recover.
KeylistRecoverable == pc = "idle" => ~KeylistCut

\* What holds in every state of the device.
AcceptSafe ==
  /\ AcceptTypeOK
  /\ FloorHasItsFile
  /\ RevokedNeverAttested
=============================================================================
