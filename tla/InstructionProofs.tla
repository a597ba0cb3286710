------------------------- MODULE InstructionProofs -------------------------
(***************************************************************************)
(* What both ends of the instruction path guarantee for any number of      *)
(* serials, keylists, devices, producers and outside events.               *)
(*                                                                         *)
(* The device (InstructionAccept, from instr.py): the saved floor has its  *)
(* file, no revoked signer is attested, and no device is rolled back       *)
(* without repeated hints.                                                 *)
(*                                                                         *)
(* The host (InstructionStamper, from instruction_stamper.py): every stamp *)
(* a device can read has its active artifact, the role index stays within  *)
(* its cap, and a stamp that becomes visible is later than all its device  *)
(* could have read before.                                                 *)
(***************************************************************************)
EXTENDS InstructionAccept, InstructionStamper, FiniteSetTheorems, TLAPS

-----------------------------------------------------------------------------
(* The device: its ticks, files, keys and floors.                         *)

Sources == {"none", "seed", "net", "applied"}
Attestations == {"none", "tamper", "keylist", "rejected", "lkg", "expired", "rollback",
                 "ok", "verifier", "unavailable", "reset", "applied"}
Ticks == [ptr : 0 .. MaxSerial, kl : Nat, loaded : MaybeEnvelope, src : Sources,
          cand : MaybeEnvelope, seen : BOOLEAN, time : Int \cup {None},
          eff : MaybeEnvelope, att : Attestations, krl : 0 .. MaxKeylist,
          kfail : BOOLEAN, kcut : BOOLEAN, prior : Bags]
Serving == [pub : Envelopes, ptr : Serials, kl : 1 .. MaxKeylist, inc : Nat]
Times == [mono : 0 .. MaxDate, lead : Int, boot : Nat]

Typed ==
    /\ flash \in Files /\ bag \in Bags /\ tick \in Ticks
    /\ server \in Serving
    /\ clock \in Times /\ clock.lead <= 0 /\ Date >= 0
    /\ named \in [Serials -> 0 .. ResetAfter]
    /\ top \in 0 .. MaxSerial /\ torn \in BOOLEAN
    /\ faults \in [Outside -> Nat]

\* The list in memory and what became of its installation stay as they are.
KeysSame ==
    tick'.krl = tick.krl /\ tick'.kfail = tick.kfail /\ tick'.kcut = tick.kcut

Promoting == {"begin", "begun", "store", "checkpoint", "finish"}
Written == {"store", "checkpoint"}

\* What the tick runs on is signed by none that the list in memory revokes, nor
\* by one the artifact does unless this tick failed to install or verify it.
KeysHold ==
    /\ tick.eff # None => tick.eff.sig >= tick.krl
    /\ tick.eff # None /\ ~tick.kfail /\ ~tick.kcut => tick.eff.sig >= flash.artifact
    /\ pc \in {"preview-keys", "preview-lkg", "preview", "keys", "fetch-keys",
               "install-keys", "recover", "load"} => tick.eff = None
    /\ pc \in {"preview-lkg", "preview", "fetch-keys", "recover", "load", "bootstrap",
               "fetch"} \cup Promoting
          => flash.artifact \in {0, tick.krl} \/ tick.kfail \/ tick.kcut
    /\ pc \in Promoting
          => /\ tick.cand \in Envelopes
             /\ tick.krl # 0 => tick.cand.sig >= tick.krl

Coherent(b) ==
    \/ b.floor = 0 /\ b.dig = None /\ b.lkg = None
    \/ b.dig \in Envelopes /\ b.lkg = b.dig /\ b.floor = b.dig.ser

\* A recovery for the digest d finds d.
Backed(d) ==
    \/ d = None
    \/ flash.lkg = d
    \/ flash.prev # None /\ flash.prev = d

FilesHold ==
    /\ Coherent(flash.state) /\ Coherent(bag) /\ Coherent(tick.prior)
    /\ ~torn => Backed(flash.state.lkg) /\ Backed(bag.lkg)
    /\ pc = "begun" => flash.prev = None
    /\ pc \in Written => flash.prev # None
    /\ pc \in Written /\ ~torn
          => tick.prior.lkg \in {None, flash.prev} /\ flash.state.lkg \in {None, flash.prev}
    /\ pc \in {"checkpoint", "finish"} => bag.lkg = tick.cand /\ flash.lkg = tick.cand
    /\ pc = "finish" => flash.state.lkg = tick.cand /\ ~torn

\* A device may run on x: nothing higher was run on, or the hints named x or
\* a serial below it often enough.
Allowed(x) == x >= top \/ \E s \in 1 .. x : named[s] >= ResetAfter

Counted(b) ==
    /\ b.count > 0 => b.lower \in Serials /\ b.count <= named[b.lower]
    /\ b.reset # 0 => named[b.reset] >= ResetAfter

Unhinted(b) == b.count = 0 /\ b.reset = 0

FloorsHold ==
    /\ Allowed(flash.state.floor) /\ Counted(flash.state) /\ Counted(bag)
    /\ pc # "idle" => Allowed(bag.floor)
    /\ pc \in Written => Allowed(tick.prior.floor) /\ Counted(tick.prior)
    /\ pc \in Promoting => Allowed(tick.cand.ser)
    /\ pc \in {"preview-keys", "preview-lkg", "preview", "poll", "keys", "fetch-keys",
               "install-keys", "recover", "load"} => bag.floor = flash.state.floor
    /\ pc \in {"checkpoint", "finish"} => Unhinted(bag)
    /\ pc = "finish" => Unhinted(flash.state)

AcceptInv == Typed /\ KeysHold /\ FilesHold /\ FloorsHold

----------------------------------------------------------------------------
(* Bags *)

\* The floor and the files of b, and its hints.
Kept(b, c) == c.floor = b.floor /\ c.dig = b.dig /\ c.lkg = b.lkg
SameHints(b, c) == c.lower = b.lower /\ c.count = b.count /\ c.reset = b.reset

\* The empty state is a state (the state file's defaults).
LEMMA NoStateType == NoState \in Bags /\ Coherent(NoState) /\ Unhinted(NoState)
BY AcceptAssumption DEF NoState, Bags, Coherent, Unhinted, MaybeEnvelope, Clocks

\* The locals a tick starts with are locals of a tick.
LEMMA NoTickType == NoTick \in Ticks
BY AcceptAssumption, NoStateType DEF NoTick, Ticks, MaybeEnvelope, Sources, Attestations

\* A projected clock is a time or none (project_clock).
LEMMA ProjectedType ==
    ASSUME NEW b \in Bags, clock \in Times
    PROVE  /\ Projected(b, "catalog") \in Int \cup {None}
           /\ Projected(b, "instruction") \in Int \cup {None}
<1>1. b.catalog \in Clocks /\ b.instruction \in Clocks
  BY DEF Bags
<1>2. clock.mono \in Int
  BY AcceptAssumption DEF Times
<1>3. ASSUME NEW c \in Clocks, c # None PROVE clock.mono + c.lead \in Int
  BY <1>2, <1>3 DEF Clocks
<1>q. QED BY <1>1, <1>3 DEF Projected

\* A clock is dropped or set and nothing else of the state (_invalidate_clock,
\* observe_clock).
LEMMA ClocksType ==
    ASSUME NEW b \in Bags, clock \in Times, NEW c \in Clocks
    PROVE  /\ [b EXCEPT !["catalog"] = c] \in Bags
           /\ Kept(b, [b EXCEPT !["catalog"] = c])
           /\ SameHints(b, [b EXCEPT !["catalog"] = c])
           /\ [b EXCEPT !["instruction"] = c] \in Bags
           /\ Kept(b, [b EXCEPT !["instruction"] = c])
           /\ SameHints(b, [b EXCEPT !["instruction"] = c])
BY DEF Bags, Kept, SameHints

Moved(b, c) == c \in Bags /\ Kept(b, c) /\ SameHints(b, c)

LEMMA InvalidateType ==
    ASSUME NEW b \in Bags, clock \in Times
    PROVE  Moved(b, Invalidate(b, "catalog")) /\ Moved(b, Invalidate(b, "instruction"))
<1>1. None \in Clocks BY DEF Clocks
<1>2. Moved(b, b) BY DEF Moved, Kept, SameHints
<1>q. QED BY <1>1, <1>2, ClocksType DEF Invalidate, Moved

LEMMA ObserveType ==
    ASSUME NEW b \in Bags, clock \in Times, NEW d \in Int
    PROVE  Moved(b, Observe(b, "catalog", d)) /\ Moved(b, Observe(b, "instruction", d))
<1>1. [lead |-> d - clock.mono, boot |-> clock.boot] \in Clocks
  BY AcceptAssumption DEF Clocks, Times
<1>2. Moved(b, b) BY DEF Moved, Kept, SameHints
<1>q. QED BY <1>1, <1>2, ClocksType DEF Observe, Moved

\* Hints are dropped and nothing else (_clear_hints).
LEMMA ClearHintsType ==
    ASSUME NEW b \in Bags
    PROVE  ClearHints(b) \in Bags /\ Kept(b, ClearHints(b)) /\ Unhinted(ClearHints(b))
<1>1. 0 \in 0 .. MaxSerial /\ 0 \in 0 .. ResetAfter
  BY AcceptAssumption
<1>2. ClearHints(b) \in Bags
  BY <1>1 DEF ClearHints, Bags
<1>q. QED BY <1>2 DEF ClearHints, Bags, Kept, Unhinted

\* A hint is counted and nothing else changes (note_hint).
LEMMA NoteHintType ==
    ASSUME NEW b \in Bags, NEW h \in Serials
    PROVE  NoteHint(b, h, TRUE) \in Bags /\ Kept(b, NoteHint(b, h, TRUE))
<1>1. CASE b.floor = 0 \/ h >= b.floor
  BY <1>1, ClearHintsType DEF NoteHint
<1>2. CASE ~(b.floor = 0 \/ h >= b.floor)
  <2> DEFINE was == IF h = b.lower THEN b.count ELSE 0
             n == IF was < ResetAfter THEN was + 1 ELSE ResetAfter
             r == IF n = ResetAfter THEN h ELSE IF h = b.lower THEN b.reset ELSE 0
  <2>1. n \in 0 .. ResetAfter /\ r \in 0 .. MaxSerial /\ h \in 0 .. MaxSerial /\ h # 0
    BY AcceptAssumption DEF Bags, Serials
  <2>2. NoteHint(b, h, TRUE) = [b EXCEPT !.lower = h, !.count = n, !.reset = r]
    BY <1>2, <2>1 DEF NoteHint
  <2> HIDE DEF n, r, was
  <2>q. QED BY <2>1, <2>2 DEF Bags, Kept
<1>q. QED BY <1>1, <1>2

\* What a verified envelope sets (apply_verified).
LEMMA ApplyType ==
    ASSUME NEW b \in Bags, NEW e \in Envelopes, clock \in Times, NEW d \in Int
    PROVE  LET c == Apply([b EXCEPT !.lkg = e], e, d)
           IN  /\ c \in Bags /\ Unhinted(c)
               /\ c.floor = e.ser /\ c.dig = e /\ c.lkg = e
<1> DEFINE b1 == [b EXCEPT !.lkg = e]
           b2 == ClearHints(b1)
           v == IF e.v > b2.vf THEN e.v ELSE b2.vf
           b3 == [b2 EXCEPT !.floor = e.ser, !.dig = e, !.vf = v]
<1>1. b1 \in Bags /\ b1.lkg = e BY DEF Bags, MaybeEnvelope
<1>2. b2 \in Bags /\ b2.lkg = e /\ Unhinted(b2)
  BY <1>1, ClearHintsType DEF Kept
<1>3. v \in {1, 2} /\ e.ser \in 0 .. MaxSerial /\ e \in MaybeEnvelope
  BY <1>2, AcceptAssumption DEF Bags, Envelopes, MaybeEnvelope, Serials
<1>4. b3 \in Bags /\ Unhinted(b3) /\ b3.floor = e.ser /\ b3.dig = e /\ b3.lkg = e
  <2> HIDE DEF b2, v
  <2>q. QED BY <1>2, <1>3 DEF Bags, Unhinted
<1>5. Apply(b1, e, d) = Observe(b3, "instruction", d)
  BY DEF Apply
<1> HIDE DEF b1, b2, b3
<1>6. Moved(b3, Observe(b3, "instruction", d))
  BY <1>4, ObserveType
<1>7. LET c == Apply(b1, e, d)
      IN  c \in Bags /\ Unhinted(c) /\ c.floor = e.ser /\ c.dig = e /\ c.lkg = e
  BY <1>4, <1>5, <1>6 DEF Moved, Kept, SameHints, Unhinted
<1>q. QED BY <1>7 DEF b1

\* The three fields of a fetch (get_instructions).
LEMMA AskedType ==
    ASSUME NEW b \in Bags, NEW k \in 0 .. SkewLimit, NEW p \in BOOLEAN
    PROVE  /\ Moved(b, [b EXCEPT !.skew = k])
           /\ Moved(b, [b EXCEPT !.skew = k, !.pend = p])
BY DEF Moved, Kept, SameHints, Bags

----------------------------------------------------------------------------
(* Files *)

\* A recovery that settles, settles on an envelope or on none
\* (LKGStore.recover).
LEMMA SettledType ==
    ASSUME flash \in Files, NEW d \in MaybeEnvelope, flash.prev # None,
           Settled(d) # Rejected
    PROVE  Settled(d) \in MaybeEnvelope
<1>1. flash.lkg \in MaybeEnvelope /\ flash.prev \in MaybeEnvelope \cup {Absent}
  BY DEF Files
<1>2. CASE flash.lkg # None /\ flash.lkg = d
  BY <1>1, <1>2 DEF Settled
<1>3. CASE ~(flash.lkg # None /\ flash.lkg = d) /\ flash.prev = Absent /\ d = None
  BY <1>1, <1>3 DEF Settled, MaybeEnvelope
<1>4. CASE /\ ~(flash.lkg # None /\ flash.lkg = d) /\ ~(flash.prev = Absent /\ d = None)
           /\ d = None \/ flash.prev = d
  BY <1>1, <1>4 DEF Settled
<1>5. CASE /\ ~(flash.lkg # None /\ flash.lkg = d) /\ ~(flash.prev = Absent /\ d = None)
           /\ ~(d = None \/ flash.prev = d)
  BY <1>5 DEF Settled
<1>q. QED BY <1>2, <1>3, <1>4, <1>5

\* The recovery finds the file of a backed digest.
LEMMA SettledBacked ==
    ASSUME NEW d, d # None, Backed(d)
    PROVE  Settled(d) = d
<1>1. CASE flash.prev = None
  BY <1>1 DEF Backed, Settled
<1>2. CASE flash.prev # None /\ flash.lkg = d
  BY <1>2 DEF Backed, Settled
<1>3. CASE flash.prev # None /\ flash.lkg # d
  BY <1>3 DEF Backed, Settled
<1>q. QED BY <1>1, <1>2, <1>3

----------------------------------------------------------------------------
(* The steps of a tick *)

LEMMA SpendType ==
    ASSUME faults \in [Outside -> Nat], NEW e \in Outside, Spend(e)
    PROVE  faults' \in [Outside -> Nat]
BY DEF Spend

LEMMA InitHolds == AcceptInit => AcceptInv
<1> SUFFICES ASSUME AcceptInit PROVE AcceptInv
  OBVIOUS
<1>1. PICK legacy \in [ser : {1}, inc : {0}, v : {1, 2}, sig : {1}, exp : {Lifetime}],
           has \in {"nothing", "instruction"} :
        LET held == IF has = "nothing" THEN None ELSE legacy
        IN  /\ flash = [state |-> IF held = None THEN NoState
                                 ELSE [NoState EXCEPT !.floor = 1, !.vf = held.v,
                                           !.dig = held, !.lkg = held],
                       lkg |-> held, prev |-> None, seed |-> None,
                       artifact |-> 0, kstate |-> 0]
            /\ server = [pub |-> [legacy EXCEPT !.v = 2], ptr |-> 1, kl |-> 1, inc |-> 0]
  BY DEF AcceptInit
<1> DEFINE held == IF has = "nothing" THEN None ELSE legacy
           st == IF held = None THEN NoState
                 ELSE [NoState EXCEPT !.floor = 1, !.vf = held.v, !.dig = held, !.lkg = held]
<1>2. legacy \in Envelopes /\ [legacy EXCEPT !.v = 2] \in Envelopes /\ legacy.ser = 1
      /\ legacy.v \in {1, 2}
  BY AcceptAssumption DEF Envelopes, Serials
<1>3. /\ flash = [state |-> st, lkg |-> held, prev |-> None, seed |-> None,
                  artifact |-> 0, kstate |-> 0]
      /\ server = [pub |-> [legacy EXCEPT !.v = 2], ptr |-> 1, kl |-> 1, inc |-> 0]
  BY <1>1
<1>4. /\ st \in Bags /\ Coherent(st) /\ Unhinted(st)
      /\ st.lkg = held /\ st.floor \in Nat
  <2>1. CASE held = None
    BY <2>1, NoStateType DEF NoState
  <2>2. CASE held # None
    <3>1. held = legacy BY <2>2
    <3>2. 1 \in 0 .. MaxSerial /\ legacy \in MaybeEnvelope
      BY <1>2, AcceptAssumption DEF MaybeEnvelope
    <3>3. st = [NoState EXCEPT !.floor = 1, !.vf = legacy.v, !.dig = legacy, !.lkg = legacy]
      BY <2>2, <3>1
    <3> HIDE DEF st, held
    <3>4. /\ st \in Bags
          /\ st.lkg = legacy /\ st.floor = 1 /\ st.dig = legacy /\ st.count = 0 /\ st.reset = 0
      BY <1>2, <3>2, <3>3, NoStateType DEF Bags, Unhinted
    <3>q. QED BY <1>2, <3>1, <3>4 DEF Coherent, Unhinted
  <2>q. QED BY <2>1, <2>2
<1>5. held \in MaybeEnvelope
  BY <1>2 DEF MaybeEnvelope
<1> HIDE DEF held, st
<1>6. /\ flash \in Files /\ flash.state = st /\ flash.lkg = held
  BY <1>3, <1>4, <1>5, AcceptAssumption DEF Files, MaybeEnvelope
<1>7. server \in Serving
  BY <1>2, <1>3, AcceptAssumption DEF Serving, Serials
<1>8. /\ bag = NoState /\ pc = "idle" /\ tick = NoTick
      /\ clock = [mono |-> 0, lead |-> 0, boot |-> 0]
      /\ named = [s \in Serials |-> 0] /\ top = 0 /\ torn = FALSE /\ faults \in Faults
  BY DEF AcceptInit
<1>9. Typed
  <2>1. clock \in Times /\ clock.lead <= 0 /\ Date >= 0
    BY <1>8, AcceptAssumption DEF Times, Date
  <2>2. named \in [Serials -> 0 .. ResetAfter] /\ top \in 0 .. MaxSerial
    BY <1>8, AcceptAssumption
  <2>q. QED
    BY <1>6, <1>7, <1>8, <2>1, <2>2, NoStateType, NoTickType, OutsideAssumption DEF Typed
<1>10. KeysHold
  BY <1>8 DEF KeysHold, NoTick, Promoting
<1>11. FilesHold
  <2>1. Coherent(tick.prior) /\ bag.lkg = None
    BY <1>8, NoStateType DEF NoTick, NoState
  <2>q. QED BY <1>4, <1>6, <1>8, <2>1, NoStateType DEF FilesHold, Backed, Written
<1>12. FloorsHold
  BY <1>4, <1>6, <1>8, NoStateType DEF FloorsHold, Allowed, Counted, Unhinted, Written, Promoting
<1>q. QED BY <1>9, <1>10, <1>11, <1>12 DEF AcceptInv

LEMMA StartTickHolds == AcceptInv /\ StartTick => AcceptInv'
<1> SUFFICES ASSUME AcceptInv, StartTick PROVE AcceptInv'
  OBVIOUS
<1>1. Typed BY DEF AcceptInv
<1>2. /\ pc = "idle" /\ pc' = "preview-keys" /\ flash' = flash /\ torn' = torn
      /\ server' = server /\ clock' = clock /\ top' = top /\ named' = named /\ faults' = faults
      /\ bag' = Invalidate(Invalidate(flash.state, "catalog"), "instruction")
      /\ tick' = [NoTick EXCEPT !.time = Projected(flash.state, "instruction")]
  BY DEF StartTick, Goto, KeepDisk, Same, Quiet
<1>3. flash.state \in Bags /\ clock \in Times
  BY <1>1 DEF Typed, Files
<1>4. Moved(flash.state, bag')
  <2> DEFINE c == Invalidate(flash.state, "catalog")
  <2>1. Moved(flash.state, c) /\ c \in Bags
    BY <1>3, InvalidateType DEF Moved
  <2> HIDE DEF c
  <2>2. Moved(c, Invalidate(c, "instruction"))
    BY <1>3, <2>1, InvalidateType
  <2>3. bag' = Invalidate(c, "instruction")
    BY <1>2 DEF c
  <2>q. QED BY <2>1, <2>2, <2>3 DEF Moved, Kept, SameHints
<1>5. tick' \in Ticks /\ tick'.eff = None /\ tick'.prior = NoState
  <2>1. Projected(flash.state, "instruction") \in Int \cup {None}
    BY <1>3, ProjectedType
  <2>2. NoTick.eff = None /\ NoTick.prior = NoState
    BY DEF NoTick
  <2>q. QED BY <1>2, <2>1, <2>2, NoTickType DEF Ticks
<1>6. Typed'
  BY <1>1, <1>2, <1>4, <1>5 DEF Typed, Date, Moved
<1>7. KeysHold'
  BY <1>2, <1>5 DEF KeysHold, Promoting
<1>8. FilesHold'
  BY <1>2, <1>4, <1>5, NoStateType DEF AcceptInv, FilesHold, Backed, Written, Moved, Kept, Coherent
<1>9. FloorsHold'
  BY <1>2, <1>4, <1>5 DEF AcceptInv, FloorsHold, Allowed, Counted, Written, Promoting, Moved, Kept, SameHints
<1>q. QED BY <1>6, <1>7, <1>8, <1>9 DEF AcceptInv


\* KeylistStore.recover at either of its two calls.
LEMMA RecoverKeysHolds ==
    ASSUME AcceptInv, NEW here, NEW ok, NEW bad, RecoverKeys(here, ok, bad),
           \/ here = "preview-keys" /\ ok = "preview-lkg" /\ bad = "poll"
           \/ here = "keys" /\ ok = "fetch-keys" /\ bad = "save"
    PROVE  AcceptInv'
<1>1. Typed BY DEF AcceptInv
<1>2. /\ pc = here
      /\ server' = server /\ clock' = clock /\ top' = top /\ bag' = bag /\ named' = named
      /\ torn' = torn
      /\ flash \in Files /\ tick \in Ticks
  BY <1>1 DEF RecoverKeys, Same, Quiet, KeepDisk, Typed
<1>3. tick.eff = None
  BY <1>2 DEF AcceptInv, KeysHold
<1>4. \/ pc' = ok /\ flash.artifact \in {0, flash.kstate} /\ flash' = flash
         /\ tick' = [tick EXCEPT !.krl = flash.kstate] /\ faults' = faults
      \/ pc' = bad /\ flash' = flash /\ tick' = [tick EXCEPT !.att = "tamper", !.eff = None]
         /\ faults' = faults
      \/ pc' = ok /\ flash' = [flash EXCEPT !.kstate = flash.artifact]
         /\ tick' = [tick EXCEPT !.krl = flash.artifact] /\ faults' = faults
      \/ pc' = ok /\ flash' = flash /\ Spend("verify")
         /\ tick' = [tick EXCEPT !.krl = flash.kstate, !.att = "keylist", !.kfail = TRUE]
      \/ pc' = bad /\ flash' \in {flash, [flash EXCEPT !.kstate = flash.artifact]}
         /\ tick' = [tick EXCEPT !.att = "unavailable", !.eff = None] /\ Spend("disk")
  BY DEF RecoverKeys, Goto, KeepDisk
<1>5. /\ tick' \in Ticks /\ tick'.eff = None /\ tick'.prior = tick.prior
      /\ tick'.cand = tick.cand
      /\ flash' \in Files /\ flash'.state = flash.state /\ flash'.lkg = flash.lkg
      /\ flash'.prev = flash.prev /\ flash'.artifact = flash.artifact
  <2>1. flash.kstate \in 0 .. MaxKeylist /\ flash.artifact \in 0 .. MaxKeylist
    BY <1>2 DEF Files
  <2>2. {"tamper", "keylist", "unavailable"} \subseteq Attestations /\ None \in MaybeEnvelope
    BY DEF Attestations, MaybeEnvelope
  <2>3. /\ flash' \in Files /\ flash'.state = flash.state /\ flash'.lkg = flash.lkg
        /\ flash'.prev = flash.prev /\ flash'.artifact = flash.artifact
    <3>1. flash' = flash \/ flash' = [flash EXCEPT !.kstate = flash.artifact] BY <1>4
    <3>q. QED BY <1>2, <2>1, <3>1 DEF Files
  <2>4. tick' \in Ticks /\ tick'.eff = None /\ tick'.prior = tick.prior
        /\ tick'.cand = tick.cand
    BY <1>2, <1>3, <1>4, <2>1, <2>2 DEF Ticks
  <2>q. QED BY <2>3, <2>4
<1>6. pc' = bad \/ flash'.artifact \in {0, tick'.krl} \/ tick'.kfail
  BY <1>2, <1>4 DEF Files, Ticks
<1>7. faults' \in [Outside -> Nat]
  <2>1. "verify" \in Outside /\ "disk" \in Outside BY DEF Outside
  <2>q. QED BY <1>1, <1>4, <2>1, SpendType DEF Typed
<1>8. Typed'
  BY <1>1, <1>2, <1>5, <1>7 DEF Typed, Date
<1>9. pc' \in {ok, bad} BY <1>4
<1>10. KeysHold'
  BY <1>2, <1>5, <1>6, <1>9 DEF KeysHold, Promoting
<1>11. FilesHold'
  BY <1>2, <1>5, <1>9 DEF AcceptInv, FilesHold, Backed, Written, Coherent
<1>12. FloorsHold'
  BY <1>2, <1>5, <1>9 DEF AcceptInv, FloorsHold, Allowed, Counted, Unhinted, Written, Promoting
<1>q. QED BY <1>8, <1>10, <1>11, <1>12 DEF AcceptInv

\* LKGStore.recover at each of its three calls: it goes on, writes, or gives up.
LEMMA RecoverLkgHolds ==
    ASSUME AcceptInv, NEW here, NEW ok, NEW bad, RecoverLkg(here, ok, bad),
           \/ here = "preview-lkg" /\ ok = "preview" /\ bad = "poll"
           \/ here = "recover" /\ ok = "load" /\ bad = "save"
           \/ here = "begin" /\ ok = "begun" /\ bad \in {"fetch", "save"}
    PROVE  AcceptInv'
<1>1. Typed BY DEF AcceptInv
<1>2. /\ pc = here
      /\ server' = server /\ clock' = clock /\ top' = top /\ bag' = bag /\ named' = named
      /\ faults' = faults
      /\ flash \in Files /\ tick \in Ticks /\ bag \in Bags /\ torn \in BOOLEAN
  BY <1>1 DEF RecoverLkg, Same, Quiet, Typed
<1>3. CASE flash.prev = None /\ pc' = ok /\ flash' = flash /\ tick' = tick /\ torn' = torn
  <2>1. Typed' BY <1>1, <1>2, <1>3 DEF Typed, Date
  <2>2. KeysHold' BY <1>2, <1>3 DEF AcceptInv, KeysHold, Promoting
  <2>3. FilesHold'
    BY <1>2, <1>3 DEF AcceptInv, FilesHold, Backed, Written, Coherent
  <2>4. FloorsHold'
    BY <1>2, <1>3 DEF AcceptInv, FloorsHold, Allowed, Counted, Unhinted, Written, Promoting
  <2>q. QED BY <2>1, <2>2, <2>3, <2>4 DEF AcceptInv
<1>4. CASE /\ flash.prev # None /\ Settled(bag.lkg) = Rejected /\ pc' = bad
           /\ tick' = [tick EXCEPT !.att = "rejected", !.eff = None]
           /\ flash' = flash /\ torn' = torn
  <2>1. /\ tick' \in Ticks /\ tick'.eff = None /\ tick'.prior = tick.prior
        /\ tick'.cand = tick.cand /\ KeysSame
    BY <1>2, <1>4 DEF KeysSame, Ticks, Attestations, MaybeEnvelope
  <2>2. Typed' BY <1>1, <1>2, <1>4, <2>1 DEF Typed, Date
  <2>3. KeysHold' BY <1>2, <1>4, <2>1 DEF AcceptInv, KeysHold, KeysSame, Promoting
  <2>4. FilesHold'
    BY <1>2, <1>4, <2>1 DEF AcceptInv, FilesHold, Backed, Written, Coherent
  <2>5. FloorsHold'
    BY <1>2, <1>4, <2>1 DEF AcceptInv, FloorsHold, Allowed, Counted, Unhinted, Written, Promoting
  <2>q. QED BY <2>2, <2>3, <2>4, <2>5 DEF AcceptInv
<1>5. CASE /\ flash.prev # None /\ Settled(bag.lkg) # Rejected
           /\ torn' = (torn \/ bag.lkg # flash.state.lkg)
           /\ flash' = IF flash.lkg = Settled(bag.lkg)
                      THEN [flash EXCEPT !.prev = None]
                      ELSE [flash EXCEPT !.lkg = Settled(bag.lkg)]
           /\ pc' = pc /\ tick' = tick
  <2>1. bag.lkg \in MaybeEnvelope BY <1>2 DEF Bags
  <2>2. Settled(bag.lkg) \in MaybeEnvelope BY <1>2, <1>5, <2>1, SettledType
  <2>3. /\ flash' \in Files /\ flash'.state = flash.state
        /\ flash'.artifact = flash.artifact /\ flash'.kstate = flash.kstate
        /\ flash'.lkg = Settled(bag.lkg)
    BY <1>2, <1>5, <2>2 DEF Files, MaybeEnvelope
  <2>4. torn' \in BOOLEAN BY <1>2, <1>5
  <2>5. Typed' BY <1>1, <1>2, <1>5, <2>3, <2>4 DEF Typed, Date
  <2>6. KeysHold' BY <1>2, <1>5, <2>3 DEF AcceptInv, KeysHold, Promoting
  <2>7. ~torn' => Backed(flash.state.lkg)' /\ Backed(bag.lkg)'
    <3>1. SUFFICES ASSUME ~torn' PROVE Backed(flash.state.lkg)' /\ Backed(bag.lkg)'
      OBVIOUS
    <3>2. ~torn /\ bag.lkg = flash.state.lkg BY <1>2, <1>5, <3>1
    <3>3. Backed(bag.lkg) BY <3>2 DEF AcceptInv, FilesHold
    <3>4. CASE bag.lkg = None
      BY <1>2, <2>3, <3>2, <3>4 DEF Backed
    <3>5. CASE bag.lkg # None
      <4>1. Settled(bag.lkg) = bag.lkg BY <3>3, <3>5, SettledBacked
      <4>q. QED BY <1>2, <2>3, <3>2, <4>1 DEF Backed
    <3>q. QED BY <3>4, <3>5
  <2>8. FilesHold'
    BY <1>2, <1>5, <2>3, <2>7 DEF AcceptInv, FilesHold, Written, Coherent
  <2>9. FloorsHold'
    BY <1>2, <1>5, <2>3 DEF AcceptInv, FloorsHold, Allowed, Counted, Unhinted, Written, Promoting
  <2>q. QED BY <2>5, <2>6, <2>8, <2>9 DEF AcceptInv
<1>q. QED BY <1>3, <1>4, <1>5 DEF RecoverLkg, Goto

\* LKGStore.load at either of its two calls: what is loaded is the file of
\* the floor, and its signer is not revoked.
LEMMA LoadLkgHolds ==
    ASSUME AcceptInv, NEW here, NEW next, LoadLkg(here, next),
           \/ here = "preview" /\ next = "poll"
           \/ here = "load" /\ next = "bootstrap"
    PROVE  /\ AcceptInv'
           /\ RollbackOnlyOnRepeatedHints
<1>1. Typed BY DEF AcceptInv
<1>2. /\ pc = here /\ pc' = next /\ flash' = flash /\ torn' = torn
      /\ server' = server /\ clock' = clock /\ bag' = bag /\ named' = named
      /\ faults' = faults
      /\ top' = IF Loadable(flash.lkg, bag) /\ bag.floor # 0 THEN flash.lkg.ser ELSE top
      /\ flash \in Files /\ tick \in Ticks /\ bag \in Bags /\ top \in 0 .. MaxSerial
  BY <1>1 DEF LoadLkg, Goto, Quiet, KeepDisk, Typed
<1>3. flash.lkg \in MaybeEnvelope BY <1>2 DEF Files
<1>4. Loadable(flash.lkg, bag)
         => /\ flash.lkg \in Envelopes /\ bag.lkg \in {None, flash.lkg}
            /\ tick.krl # 0 => flash.lkg.sig >= tick.krl
  BY <1>3 DEF Loadable, MaybeEnvelope
<1>5. top' = top \/ top' = bag.floor
  <2>1. CASE Loadable(flash.lkg, bag) /\ bag.floor # 0
    <3>1. Coherent(bag) BY DEF AcceptInv, FilesHold
    <3>2. flash.lkg.ser = bag.floor
      BY <1>4, <2>1, <3>1, OutsideAssumption DEF Coherent
    <3>q. QED BY <1>2, <2>1, <3>2
  <2>q. QED BY <1>2, <2>1
<1>6. /\ bag.floor = flash.state.floor /\ bag.floor \in 0 .. MaxSerial
      /\ Allowed(bag.floor) /\ pc # "idle"
  BY <1>2 DEF AcceptInv, FloorsHold, Bags
<1>7. /\ tick' \in Ticks /\ tick'.prior = tick.prior /\ KeysSame
      /\ tick'.eff = None \/ (tick'.eff = flash.lkg /\ Loadable(flash.lkg, bag))
  <2>1. \E a \in Attestations :
           \/ /\ Loadable(flash.lkg, bag)
              /\ tick' = [tick EXCEPT !.loaded = flash.lkg, !.eff = flash.lkg, !.att = a]
           \/ tick' = [tick EXCEPT !.loaded = None, !.eff = None, !.att = a]
    <3> DEFINE keylist == tick.att = "keylist"
               a1 == IF keylist THEN tick.att
                     ELSE IF Current(flash.lkg, bag) THEN "lkg" ELSE "expired"
               a2 == IF keylist \/ flash.lkg = None THEN tick.att ELSE "rejected"
    <3>1. a1 \in Attestations /\ a2 \in Attestations
      BY <1>2 DEF Ticks, Attestations
    <3>2. tick' = IF Loadable(flash.lkg, bag)
                  THEN [tick EXCEPT !.loaded = flash.lkg, !.eff = flash.lkg, !.att = a1]
                  ELSE [tick EXCEPT !.loaded = None, !.eff = None, !.att = a2]
      BY DEF LoadLkg
    <3> HIDE DEF a1, a2
    <3>q. QED BY <3>1, <3>2
  <2>2. PICK a \in Attestations :
           \/ /\ Loadable(flash.lkg, bag)
              /\ tick' = [tick EXCEPT !.loaded = flash.lkg, !.eff = flash.lkg, !.att = a]
           \/ tick' = [tick EXCEPT !.loaded = None, !.eff = None, !.att = a]
    BY <2>1
  <2>3. None \in MaybeEnvelope BY DEF MaybeEnvelope
  <2>q. QED BY <1>2, <1>3, <2>2, <2>3 DEF KeysSame, Ticks
<1>8. top' \in 0 .. MaxSerial BY <1>2, <1>5, <1>6
<1>9. Typed' BY <1>1, <1>2, <1>7, <1>8 DEF Typed, Date
<1>10. KeysHold'
  <2>1. flash.artifact \in {0, tick.krl} \/ tick.kfail \/ tick.kcut
    BY <1>2 DEF AcceptInv, KeysHold
  <2>2. flash.artifact \in Nat /\ tick.krl \in Nat
    BY <1>2, AcceptAssumption DEF Files, Ticks
  <2>3. /\ tick'.eff # None => tick'.eff.sig >= tick'.krl
        /\ tick'.eff # None /\ ~tick'.kfail /\ ~tick'.kcut => tick'.eff.sig >= flash'.artifact
    <3>1. ASSUME flash.lkg \in Envelopes PROVE flash.lkg.sig \in Nat
      BY <3>1, AcceptAssumption DEF Envelopes
    <3>q. QED BY <1>2, <1>4, <1>7, <2>1, <2>2, <3>1 DEF KeysSame
  <2>q. QED BY <1>2, <1>7, <2>1, <2>3 DEF KeysHold, KeysSame, Promoting
<1>11. FilesHold'
  BY <1>2, <1>7 DEF AcceptInv, FilesHold, Backed, Written, Coherent
<1>12. Allowed(bag.floor)'
  BY <1>2, <1>5, <1>6 DEF Allowed
<1>13. FloorsHold'
  BY <1>2, <1>6, <1>12 DEF AcceptInv, FloorsHold, Counted, Unhinted, Written, Promoting
<1>14. RollbackOnlyOnRepeatedHints
  BY <1>2, <1>5, <1>6 DEF RollbackOnlyOnRepeatedHints, Allowed
<1>q. QED BY <1>9, <1>10, <1>11, <1>13, <1>14 DEF AcceptInv


LEMMA NotDueHolds == AcceptInv /\ NotDue => AcceptInv'
<1> SUFFICES ASSUME AcceptInv, NotDue PROVE AcceptInv'
  OBVIOUS
<1>1. Typed BY DEF AcceptInv
<1>2. /\ pc = "poll" /\ pc' = "save" /\ flash' = flash /\ torn' = torn /\ server' = server
      /\ clock' = clock /\ top' = top /\ bag' = bag /\ tick' = tick /\ named' = named
      /\ faults' = faults
  BY DEF NotDue, Goto, KeepDisk, Same, Quiet
<1>3. Typed' BY <1>1, <1>2 DEF Typed, Date
<1>4. KeysHold' BY <1>2 DEF AcceptInv, KeysHold, Promoting
<1>5. FilesHold' BY <1>2 DEF AcceptInv, FilesHold, Backed, Written, Coherent
<1>6. FloorsHold'
  BY <1>2 DEF AcceptInv, FloorsHold, Allowed, Counted, Unhinted, Written, Promoting
<1>q. QED BY <1>3, <1>4, <1>5, <1>6 DEF AcceptInv

\* A counted hint never outruns the polls that named its serial, and it arms
\* the reset only when they were enough (note_hint).
LEMMA HintIsCounted ==
    ASSUME NEW b \in Bags, NEW h \in Serials, NEW n \in [Serials -> 0 .. ResetAfter],
           b.count > 0 => b.lower \in Serials /\ b.count <= n[b.lower],
           b.reset # 0 => n[b.reset] >= ResetAfter,
           NEW m, m = [n EXCEPT ![h] = IF @ < ResetAfter THEN @ + 1 ELSE @],
           NEW c, c = NoteHint(b, h, TRUE)
    PROVE  /\ c.count > 0 => c.lower \in Serials /\ c.count <= m[c.lower]
           /\ c.reset # 0 => m[c.reset] >= ResetAfter
<1>0. ResetAfter \in Nat \ {0} /\ b.count \in 0 .. ResetAfter /\ b.reset \in 0 .. MaxSerial
      /\ MaxSerial \in Nat /\ b.lower \in 0 .. MaxSerial
  BY AcceptAssumption DEF Bags
<1>1. CASE b.floor = 0 \/ h >= b.floor
  <2>1. c = ClearHints(b) BY <1>1 DEF NoteHint
  <2>2. c.count = 0 /\ c.reset = 0 BY <2>1, ClearHintsType DEF Unhinted
  <2> DEFINE k == c.count
  <2>3. ~(k > 0)
    <3>1. k = 0 BY <2>2
    <3> HIDE DEF k
    <3>q. QED BY <3>1
  <2>q. QED BY <2>2, <2>3, Zenon
<1>2. CASE ~(b.floor = 0 \/ h >= b.floor)
  <2> DEFINE was == IF h = b.lower THEN b.count ELSE 0
             k == IF was < ResetAfter THEN was + 1 ELSE ResetAfter
             r == IF k = ResetAfter THEN h ELSE IF h = b.lower THEN b.reset ELSE 0
  <2>1. h # 0 /\ h \in Nat BY AcceptAssumption DEF Serials
  <2>2. c = [b EXCEPT !.lower = h, !.count = k, !.reset = r]
    BY <1>2, <2>1 DEF NoteHint
  <2>3. c.lower = h /\ c.count = k /\ c.reset = r
    <3> HIDE DEF k, r
    <3>q. QED BY <2>2 DEF Bags
  <2>4. m[h] = IF n[h] < ResetAfter THEN n[h] + 1 ELSE n[h]
    OBVIOUS
  <2>5. \A s \in Serials : n[s] \in 0 .. ResetAfter /\ m[s] >= n[s] /\ m[s] \in Nat
    BY <1>0
  <2>6. k <= m[h]
    BY <1>0, <2>4, <2>5
  <2>7. r # 0 => m[r] >= ResetAfter
    <3>1. CASE k = ResetAfter
      BY <2>6, <3>1, <1>0
    <3>2. CASE k # ResetAfter /\ h = b.lower
      <4>1. b.reset # 0 => b.reset \in Serials /\ n[b.reset] >= ResetAfter
        BY <1>0 DEF Serials
      <4>q. QED BY <1>0, <2>5, <3>2, <4>1
    <3>3. CASE k # ResetAfter /\ h # b.lower
      BY <3>3
    <3>q. QED BY <3>1, <3>2, <3>3
  <2>q. QED BY <2>3, <2>6, <2>7
<1>q. QED BY <1>1, <1>2

LEMMA PollHolds == AcceptInv /\ Poll => AcceptInv'
<1> SUFFICES ASSUME AcceptInv, Poll PROVE AcceptInv'
  OBVIOUS
<1>1. Typed BY DEF AcceptInv
<1>2. /\ pc = "poll" /\ flash' = flash /\ torn' = torn /\ server' = server
      /\ clock' = clock /\ top' = top
      /\ flash \in Files /\ tick \in Ticks /\ bag \in Bags /\ server \in Serving
      /\ clock \in Times /\ named \in [Serials -> 0 .. ResetAfter] /\ top \in Nat
  BY <1>1, AcceptAssumption DEF Poll, Goto, KeepDisk, Same, Quiet, Typed
<1>3. CASE /\ bag' = ClearHints(bag) /\ pc' = "save" /\ named' = named
           /\ faults' \in [Outside -> Nat]
           /\ tick' \in {tick, [tick EXCEPT !.att = "tamper", !.eff = None]}
  <2>1. bag' \in Bags /\ Kept(bag, bag') /\ Unhinted(bag')
    BY <1>2, <1>3, ClearHintsType
  <2>2. /\ tick' \in Ticks /\ tick'.prior = tick.prior /\ KeysSame
        /\ tick'.eff \in {tick.eff, None}
    BY <1>2, <1>3 DEF KeysSame, Ticks, Attestations, MaybeEnvelope
  <2>3. Typed' BY <1>1, <1>2, <1>3, <2>1, <2>2 DEF Typed, Date
  <2>4. KeysHold' BY <1>2, <1>3, <2>2 DEF AcceptInv, KeysHold, KeysSame, Promoting
  <2>5. FilesHold'
    BY <1>2, <1>3, <2>1, <2>2 DEF AcceptInv, FilesHold, Backed, Written, Coherent, Kept
  <2>6. FloorsHold'
    BY <1>2, <1>3, <2>1 DEF AcceptInv, FloorsHold, Allowed, Counted, Unhinted, Written, Promoting, Kept
  <2>q. QED BY <2>3, <2>4, <2>5, <2>6 DEF AcceptInv
<1>4. CASE /\ bag' = NoteHint(Observe(bag, "catalog", Date), server.ptr, TRUE)
           /\ tick' = [tick EXCEPT !.ptr = server.ptr, !.kl = server.kl,
                                  !.eff = None, !.att = "none", !.loaded = None,
                                  !.krl = 0, !.kfail = FALSE]
           /\ named' = [named EXCEPT ![server.ptr] =
                          IF @ < ResetAfter THEN @ + 1 ELSE @]
           /\ pc' = "keys" /\ faults' = faults
  <2> DEFINE b == Observe(bag, "catalog", Date)
  <2>1. Date \in Int /\ server.ptr \in Serials /\ server.kl \in Nat
    BY <1>2, AcceptAssumption DEF Date, Times, Serving
  <2>2. Moved(bag, b) BY <1>2, <2>1, ObserveType
  <2>3. bag' = NoteHint(b, server.ptr, TRUE) BY <1>4
  <2> HIDE DEF b
  <2>4. bag' \in Bags /\ Kept(bag, bag')
    BY <2>1, <2>2, <2>3, NoteHintType DEF Moved, Kept
  <2>5. tick' \in Ticks /\ tick'.eff = None /\ tick'.prior = tick.prior
    <3>1. server.ptr \in 0 .. MaxSerial /\ 0 \in 0 .. MaxKeylist
      BY <2>1, AcceptAssumption DEF Serials
    <3>q. QED BY <1>2, <1>4, <2>1, <3>1 DEF Ticks, Attestations, MaybeEnvelope
  <2>6. /\ named' \in [Serials -> 0 .. ResetAfter]
        /\ \A s \in Serials : named'[s] >= named[s]
    BY <1>2, <1>4, <2>1, AcceptAssumption
  <2>7. Typed' BY <1>1, <1>2, <1>4, <2>4, <2>5, <2>6 DEF Typed, Date
  <2>8. KeysHold' BY <1>4, <2>5 DEF KeysHold, Promoting
  <2>9. FilesHold'
    BY <1>2, <1>4, <2>4, <2>5 DEF AcceptInv, FilesHold, Backed, Written, Coherent, Kept
  <2>10. Counted(bag)'
    <3>1. /\ b \in Bags
          /\ b.count > 0 => b.lower \in Serials /\ b.count <= named[b.lower]
          /\ b.reset # 0 => named[b.reset] >= ResetAfter
      BY <2>2 DEF Moved, SameHints, AcceptInv, FloorsHold, Counted
    <3>2. /\ bag'.count > 0 => bag'.lower \in Serials /\ bag'.count <= named'[bag'.lower]
          /\ bag'.reset # 0 => named'[bag'.reset] >= ResetAfter
      BY <1>2, <1>4, <2>1, <2>3, <3>1, HintIsCounted
    <3>q. QED BY <3>2 DEF Counted
  <2>11. Counted(flash.state)'
    <3>1. /\ flash.state.count \in 0 .. ResetAfter /\ flash.state.reset \in 0 .. MaxSerial
          /\ ResetAfter \in Nat /\ MaxSerial \in Nat
      BY <1>2, AcceptAssumption DEF Files, Bags
    <3>2. Counted(flash.state) BY DEF AcceptInv, FloorsHold
    <3>3. flash.state.reset # 0 => flash.state.reset \in Serials
      BY <3>1 DEF Serials
    <3>4. \A s \in Serials : named[s] \in Nat /\ named'[s] \in Nat
      BY <1>2, <2>6, <3>1
    <3>q. QED BY <1>2, <2>6, <3>1, <3>2, <3>3, <3>4 DEF Counted
  <2>12. ASSUME NEW x \in 0 .. MaxSerial, Allowed(x)
         PROVE  x >= top \/ \E s \in 1 .. x : named'[s] >= ResetAfter
    <3>1. \A s \in 1 .. x : s \in Serials BY AcceptAssumption DEF Serials
    <3>2. \A s \in Serials : named[s] \in Nat /\ named'[s] \in Nat
      BY <1>2, <2>6, AcceptAssumption
    <3>q. QED BY <2>6, <2>12, <3>1, <3>2, AcceptAssumption DEF Allowed
  <2>13. /\ flash.state.floor \in 0 .. MaxSerial /\ Allowed(flash.state.floor)
         /\ bag.floor = flash.state.floor
    BY <1>2 DEF AcceptInv, FloorsHold, Files, Bags
  <2>14. Allowed(flash.state.floor)' /\ Allowed(bag.floor)'
    BY <1>2, <2>4, <2>12, <2>13 DEF Allowed, Kept
  <2>15. FloorsHold'
    BY <1>2, <1>4, <2>4, <2>10, <2>11, <2>13, <2>14 DEF FloorsHold, Written, Promoting, Kept
  <2>q. QED BY <2>7, <2>8, <2>9, <2>15 DEF AcceptInv
<1>5. Spend("poll") => faults' \in [Outside -> Nat]
  <2>1. "poll" \in Outside BY DEF Outside
  <2>q. QED BY <1>1, <2>1, SpendType DEF Typed
<1>6. faults \in [Outside -> Nat] BY <1>1 DEF Typed
<1>q. QED BY <1>3, <1>4, <1>5, <1>6 DEF Poll, Goto

LEMMA FetchKeylistHolds == AcceptInv /\ FetchKeylist => AcceptInv'
<1> SUFFICES ASSUME AcceptInv, FetchKeylist PROVE AcceptInv'
  OBVIOUS
<1>1. Typed BY DEF AcceptInv
<1>2. /\ pc = "fetch-keys" /\ torn' = torn /\ server' = server
      /\ clock' = clock /\ top' = top /\ bag' = bag /\ named' = named
      /\ flash \in Files /\ tick \in Ticks /\ server \in Serving
  BY <1>1 DEF FetchKeylist, Same, Quiet, Typed
<1>3. \/ pc' = "install-keys" /\ tick' = tick /\ faults' = faults
         /\ flash' = [flash EXCEPT !.artifact = server.kl]
      \/ pc' = "recover" /\ tick' = tick /\ flash' = flash
         /\ (faults' = faults \/ Spend("fetch"))
      \/ pc' = "recover" /\ flash' = flash /\ Spend("verify")
         /\ tick' = [tick EXCEPT !.att = "keylist", !.kfail = TRUE]
      \/ pc' = "recover" /\ flash' \in {flash, [flash EXCEPT !.artifact = server.kl]}
         /\ tick' = [tick EXCEPT !.kcut = TRUE] /\ Spend("disk")
  BY DEF FetchKeylist, Goto
<1>4. /\ flash' \in Files /\ flash'.state = flash.state /\ flash'.lkg = flash.lkg
      /\ flash'.prev = flash.prev
  <2>1. server.kl \in 0 .. MaxKeylist BY <1>2, AcceptAssumption DEF Serving
  <2>2. flash' = flash \/ flash' = [flash EXCEPT !.artifact = server.kl] BY <1>3
  <2>q. QED BY <1>2, <2>1, <2>2 DEF Files
<1>5. /\ tick' \in Ticks /\ tick'.eff = tick.eff /\ tick'.prior = tick.prior
      /\ tick'.krl = tick.krl
      /\ tick.kfail => tick'.kfail
      /\ tick.kcut => tick'.kcut
      /\ pc' = "recover" => flash' = flash \/ tick'.kcut
  BY <1>2, <1>3 DEF Ticks, Attestations
<1>6. faults' \in [Outside -> Nat]
  <2>1. {"fetch", "verify", "disk"} \subseteq Outside BY DEF Outside
  <2>2. faults' = faults \/ \E e \in {"fetch", "verify", "disk"} : Spend(e) BY <1>3
  <2>q. QED BY <1>1, <2>1, <2>2, SpendType DEF Typed
<1>7. pc' \in {"install-keys", "recover"} BY <1>3
<1>8. Typed' BY <1>1, <1>2, <1>4, <1>5, <1>6 DEF Typed, Date
<1>9. KeysHold' BY <1>2, <1>5, <1>7 DEF AcceptInv, KeysHold, Promoting
<1>10. FilesHold'
  BY <1>2, <1>4, <1>5, <1>7 DEF AcceptInv, FilesHold, Backed, Written, Coherent
<1>11. FloorsHold'
  BY <1>2, <1>4, <1>7 DEF AcceptInv, FloorsHold, Allowed, Counted, Unhinted, Written, Promoting
<1>q. QED BY <1>8, <1>9, <1>10, <1>11 DEF AcceptInv

LEMMA InstallKeylistHolds == AcceptInv /\ InstallKeylist => AcceptInv'
<1> SUFFICES ASSUME AcceptInv, InstallKeylist PROVE AcceptInv'
  OBVIOUS
<1>1. Typed BY DEF AcceptInv
<1>2. /\ pc = "install-keys" /\ pc' = "recover" /\ torn' = torn /\ server' = server
      /\ clock' = clock /\ top' = top /\ bag' = bag /\ named' = named
      /\ flash \in Files /\ tick \in Ticks
  BY <1>1 DEF InstallKeylist, Goto, Same, Quiet, Typed
<1>3. \/ /\ flash' = [flash EXCEPT !.kstate = flash.artifact] /\ faults' = faults
         /\ tick' = [tick EXCEPT !.krl = flash.artifact, !.att = "none", !.kfail = FALSE]
      \/ /\ flash' \in {flash, [flash EXCEPT !.kstate = flash.artifact]} /\ Spend("disk")
         /\ tick' = [tick EXCEPT !.kcut = TRUE]
  BY DEF InstallKeylist
<1>4. flash.artifact \in 0 .. MaxKeylist BY <1>2 DEF Files
<1>5. /\ flash' \in Files /\ flash'.state = flash.state /\ flash'.lkg = flash.lkg
      /\ flash'.prev = flash.prev /\ flash'.artifact = flash.artifact
  <2>1. flash' = flash \/ flash' = [flash EXCEPT !.kstate = flash.artifact] BY <1>3
  <2>q. QED BY <1>2, <1>4, <2>1 DEF Files
<1>6. /\ tick' \in Ticks /\ tick'.eff = tick.eff /\ tick'.prior = tick.prior
      /\ tick'.krl = flash.artifact \/ tick'.kcut
  BY <1>2, <1>3, <1>4 DEF Ticks, Attestations
<1>7. faults' \in [Outside -> Nat]
  <2>1. "disk" \in Outside BY DEF Outside
  <2>q. QED BY <1>1, <1>3, <2>1, SpendType DEF Typed
<1>8. Typed' BY <1>1, <1>2, <1>5, <1>6, <1>7 DEF Typed, Date
<1>9. KeysHold' BY <1>2, <1>5, <1>6 DEF AcceptInv, KeysHold, Promoting
<1>10. FilesHold'
  BY <1>2, <1>5, <1>6 DEF AcceptInv, FilesHold, Backed, Written, Coherent
<1>11. FloorsHold'
  BY <1>2, <1>5 DEF AcceptInv, FloorsHold, Allowed, Counted, Unhinted, Written, Promoting
<1>q. QED BY <1>8, <1>9, <1>10, <1>11 DEF AcceptInv


\* An envelope that verifies has a signer that is not revoked and a serial
\* the device may run on (verify_envelope, _replay).
LEMMA VerifiedIsAllowed ==
    ASSUME Typed, NEW e \in Envelopes, Verdict(e, bag, Date) = "ok",
           Allowed(bag.floor), Counted(bag)
    PROVE  /\ tick.krl # 0 => e.sig >= tick.krl
           /\ Allowed(e.ser)
<1>1. MaxSerial \in Nat /\ MaxKeylist \in Nat
  BY AcceptAssumption
<1>2. tick.krl \in 0 .. MaxKeylist /\ top \in 0 .. MaxSerial
  BY DEF Typed, Ticks
<1>3. e.sig \in 1 .. MaxKeylist /\ e.ser \in 1 .. MaxSerial
  BY DEF Envelopes, Serials
<1>4. bag.floor \in 0 .. MaxSerial /\ bag.reset \in 0 .. MaxSerial
  BY DEF Typed, Bags
<1>5. ~(tick.krl # 0 /\ e.sig < tick.krl) /\ ~Replayed(e, bag)
  BY DEF Verdict
<1>6. tick.krl # 0 => e.sig >= tick.krl
  BY <1>1, <1>2, <1>3, <1>5
<1> DEFINE x == e.ser
           f == bag.floor
<1>7. f = 0 \/ x >= f \/ x = bag.reset
  BY <1>1, <1>3, <1>4, <1>5 DEF Replayed
<1>8. x \in 1 .. MaxSerial /\ f \in 0 .. MaxSerial
  BY <1>3, <1>4
<1>9. f >= top \/ \E s \in 1 .. f : named[s] >= ResetAfter
  BY DEF Allowed
<1>10. x = bag.reset => named[x] >= ResetAfter
  BY <1>1, <1>8 DEF Counted
<1> HIDE DEF x, f
<1>11. x >= top \/ \E s \in 1 .. x : named[s] >= ResetAfter
  <2>1. CASE x = bag.reset
    <3>1. x \in 1 .. x BY <1>1, <1>8
    <3>q. QED BY <1>10, <2>1, <3>1
  <2>2. CASE x >= f
    <3>1. CASE f >= top
      BY <1>1, <1>2, <1>8, <2>2, <3>1
    <3>2. ASSUME NEW s \in 1 .. f, named[s] >= ResetAfter
          PROVE  \E s1 \in 1 .. x : named[s1] >= ResetAfter
      <4>1. s \in 1 .. x BY <1>1, <1>8, <2>2
      <4>q. QED BY <3>2, <4>1
    <3>q. QED BY <1>9, <3>1, <3>2
  <2>q. QED BY <1>1, <1>7, <1>8, <2>1, <2>2
<1>q. QED BY <1>6, <1>11 DEF Allowed, x

LEMMA BootstrapHolds == AcceptInv /\ Bootstrap => AcceptInv'
<1> SUFFICES ASSUME AcceptInv, Bootstrap PROVE AcceptInv'
  OBVIOUS
<1>1. Typed BY DEF AcceptInv
<1>2. /\ pc = "bootstrap" /\ torn' = torn /\ server' = server
      /\ clock' = clock /\ top' = top /\ bag' = bag /\ named' = named
      /\ flash \in Files /\ tick \in Ticks /\ bag \in Bags
  BY <1>1 DEF Bootstrap, Same, Quiet, Typed
<1>3. faults' \in [Outside -> Nat]
  <2>1. "verify" \in Outside BY DEF Outside
  <2>2. faults' = faults \/ Spend("verify") BY DEF Bootstrap
  <2>q. QED BY <1>1, <2>1, <2>2, SpendType DEF Typed
<1>4. flash.seed \in MaybeEnvelope /\ None \in MaybeEnvelope
  BY <1>2 DEF Files, MaybeEnvelope
<1>5. /\ flash' \in Files /\ flash'.state = flash.state /\ flash'.lkg = flash.lkg
      /\ flash'.prev = flash.prev /\ flash'.artifact = flash.artifact
      /\ flash'.kstate = flash.kstate
  <2>1. flash' = flash \/ flash' = [flash EXCEPT !.seed = None] BY DEF Bootstrap
  <2>q. QED BY <1>2, <1>4, <2>1 DEF Files
<1>6. \E a \in Attestations :
        \/ /\ pc' = "fetch"
           /\ tick' = tick \/ tick' = [tick EXCEPT !.seen = TRUE, !.att = a]
        \/ /\ pc' = "begin"
           /\ flash.seed # None /\ Verdict(flash.seed, bag, Date) = "ok"
           /\ tick' = [tick EXCEPT !.seen = TRUE, !.src = "seed", !.cand = flash.seed]
  <2> DEFINE applied == tick.loaded # None /\ tick.loaded.ser = bag.floor /\ flash.seed = bag.dig
             a1 == IF applied THEN tick.att ELSE Verdict(flash.seed, bag, Date)
  <2>1. a1 \in Attestations /\ "verifier" \in Attestations
    BY <1>2 DEF Ticks, Attestations, Verdict
  <2>2. \/ pc' = "fetch" /\ tick' = tick
        \/ pc' = "fetch" /\ tick' = [tick EXCEPT !.seen = TRUE, !.att = a1]
        \/ pc' = "fetch" /\ tick' = [tick EXCEPT !.seen = TRUE, !.att = "verifier"]
        \/ /\ pc' = "begin"
           /\ flash.seed # None /\ Verdict(flash.seed, bag, Date) = "ok"
           /\ tick' = [tick EXCEPT !.seen = TRUE, !.src = "seed", !.cand = flash.seed]
    BY DEF Bootstrap, Goto
  <2> HIDE DEF a1, applied
  <2>q. QED BY <2>1, <2>2, Zenon
<1>7. /\ tick' \in Ticks /\ tick'.eff = tick.eff /\ KeysSame
      /\ tick'.prior = tick.prior
      /\ \/ pc' = "fetch"
         \/ /\ pc' = "begin" /\ tick'.cand = flash.seed /\ flash.seed # None
            /\ Verdict(flash.seed, bag, Date) = "ok"
  BY <1>2, <1>4, <1>6 DEF KeysSame, Ticks, Sources
<1>8. Allowed(bag.floor) /\ Counted(bag)
  BY <1>2 DEF AcceptInv, FloorsHold
<1>9. CASE pc' = "fetch"
  <2>1. Typed' BY <1>1, <1>2, <1>3, <1>5, <1>7 DEF Typed, Date
  <2>2. KeysHold' BY <1>2, <1>5, <1>7, <1>9 DEF AcceptInv, KeysHold, KeysSame, Promoting
  <2>3. FilesHold'
    BY <1>2, <1>5, <1>7, <1>9 DEF AcceptInv, FilesHold, Backed, Written, Coherent
  <2>4. FloorsHold'
    BY <1>2, <1>5, <1>7, <1>9 DEF AcceptInv, FloorsHold, Allowed, Counted, Unhinted, Written, Promoting
  <2>q. QED BY <2>1, <2>2, <2>3, <2>4 DEF AcceptInv
<1>10. CASE /\ pc' = "begin" /\ tick'.cand = flash.seed /\ flash.seed # None
            /\ Verdict(flash.seed, bag, Date) = "ok"
  <2>1. Typed' BY <1>1, <1>2, <1>3, <1>5, <1>7 DEF Typed, Date
  <2>2. flash.seed \in Envelopes BY <1>4, <1>10 DEF MaybeEnvelope
  <2>3. /\ tick.krl # 0 => flash.seed.sig >= tick.krl
        /\ Allowed(flash.seed.ser)
    BY <1>1, <1>8, <1>10, <2>2, VerifiedIsAllowed
  <2>4. KeysHold' BY <1>2, <1>5, <1>7, <1>10, <2>2, <2>3 DEF AcceptInv, KeysHold, KeysSame, Promoting
  <2>5. FilesHold'
    BY <1>2, <1>5, <1>7, <1>10 DEF AcceptInv, FilesHold, Backed, Written, Coherent
  <2>6. FloorsHold'
    BY <1>2, <1>5, <1>7, <1>10, <2>3 DEF AcceptInv, FloorsHold, Allowed, Counted, Unhinted, Written
  <2>q. QED BY <2>1, <2>4, <2>5, <2>6 DEF AcceptInv
<1>q. QED BY <1>7, <1>9, <1>10

\* The count of answers behind the pointer is within its limit.
LEMMA SkewType ==
    ASSUME Typed
    PROVE  Skew \in 0 .. SkewLimit /\ (SkewUnsettled => Skew + 1 \in 0 .. SkewLimit)
BY AcceptAssumption DEF Typed, Bags, Skew, SkewUnsettled

LEMMA FetchHolds == AcceptInv /\ Fetch => AcceptInv'
<1> SUFFICES ASSUME AcceptInv, Fetch PROVE AcceptInv'
  OBVIOUS
<1>1. Typed BY DEF AcceptInv
<1>2. /\ pc = "fetch" /\ torn' = torn /\ server' = server /\ flash' = flash
      /\ clock' = clock /\ top' = top /\ named' = named
      /\ flash \in Files /\ tick \in Ticks /\ bag \in Bags /\ server.pub \in Envelopes
  BY <1>1 DEF Fetch, Same, Quiet, KeepDisk, Typed, Serving
<1>3. faults' \in [Outside -> Nat]
  <2>1. "fetch" \in Outside BY DEF Outside
  <2>2. faults' = faults \/ Spend("fetch") BY DEF Fetch
  <2>q. QED BY <1>1, <2>1, <2>2, SpendType DEF Typed
<1>4. Moved(bag, bag')
  <2>1. \/ bag' = [bag EXCEPT !.skew = Skew]
        \/ bag' = [bag EXCEPT !.skew = Skew, !.pend = TRUE]
        \/ /\ SkewUnsettled
           /\ bag' = [[bag EXCEPT !.skew = Skew, !.pend = TRUE]
                         EXCEPT !.skew = Skew + 1, !.pend = FALSE]
    BY DEF Fetch
  <2>2. Skew \in 0 .. SkewLimit /\ (SkewUnsettled => Skew + 1 \in 0 .. SkewLimit)
    BY <1>1, SkewType
  <2>3. ASSUME NEW k \in 0 .. SkewLimit
        PROVE  [[bag EXCEPT !.skew = Skew, !.pend = TRUE] EXCEPT !.skew = k, !.pend = FALSE]
                   = [bag EXCEPT !.skew = k, !.pend = FALSE]
    BY <1>2 DEF Bags
  <2>4. ASSUME NEW k \in 0 .. SkewLimit, NEW p \in BOOLEAN
        PROVE  /\ Moved(bag, [bag EXCEPT !.skew = k])
               /\ Moved(bag, [bag EXCEPT !.skew = k, !.pend = p])
    BY <1>2, AskedType
  <2>5. CASE bag' = [bag EXCEPT !.skew = Skew]
    BY <2>2, <2>4, <2>5
  <2>6. CASE bag' = [bag EXCEPT !.skew = Skew, !.pend = TRUE]
    BY <2>2, <2>4, <2>6
  <2>7. CASE /\ SkewUnsettled
             /\ bag' = [[bag EXCEPT !.skew = Skew, !.pend = TRUE]
                           EXCEPT !.skew = Skew + 1, !.pend = FALSE]
    <3>1. bag' = [bag EXCEPT !.skew = Skew + 1, !.pend = FALSE]
      BY <2>2, <2>3, <2>7
    <3>q. QED BY <2>2, <2>4, <2>7, <3>1
  <2>q. QED BY <2>1, <2>5, <2>6, <2>7
<1>5. \E a \in Attestations :
        \/ /\ pc' = "save"
           /\ tick' = tick \/ tick' = [tick EXCEPT !.att = a]
        \/ /\ pc' = "begin"
           /\ Verdict(server.pub, bag, Date) = "ok"
           /\ tick' = [tick EXCEPT !.src = "net", !.cand = server.pub]
  <2> DEFINE a1 == IF tick.src = "applied" THEN tick.att ELSE "unavailable"
             a2 == IF tick.src = "applied" THEN tick.att ELSE Verdict(server.pub, bag, Date)
  <2>1. a1 \in Attestations /\ a2 \in Attestations
    BY <1>2 DEF Ticks, Attestations, Verdict
  <2>2. \/ pc' = "save" /\ tick' = tick
        \/ pc' = "save" /\ tick' = [tick EXCEPT !.att = a1]
        \/ pc' = "save" /\ tick' = [tick EXCEPT !.att = a2]
        \/ /\ pc' = "begin"
           /\ Verdict(server.pub, bag, Date) = "ok"
           /\ tick' = [tick EXCEPT !.src = "net", !.cand = server.pub]
    BY DEF Fetch, Goto
  <2> HIDE DEF a1, a2
  <2>q. QED BY <2>1, <2>2, Zenon
<1>6. /\ tick' \in Ticks /\ tick'.eff = tick.eff /\ KeysSame
      /\ tick'.prior = tick.prior
      /\ \/ pc' = "save"
         \/ /\ pc' = "begin" /\ tick'.cand = server.pub
            /\ Verdict(server.pub, bag, Date) = "ok"
  <2>1. server.pub \in MaybeEnvelope BY <1>2 DEF MaybeEnvelope
  <2>q. QED BY <1>2, <1>5, <2>1 DEF KeysSame, Ticks, Sources
<1>7. Allowed(bag.floor) /\ Counted(bag)
  BY <1>2 DEF AcceptInv, FloorsHold
<1>8. Typed' BY <1>1, <1>2, <1>3, <1>4, <1>6 DEF Typed, Date, Moved
<1>9. FilesHold'
  BY <1>2, <1>4, <1>6 DEF AcceptInv, FilesHold, Backed, Written, Coherent, Moved, Kept
<1>10. CASE pc' = "save"
  <2>1. KeysHold' BY <1>2, <1>6, <1>10 DEF AcceptInv, KeysHold, KeysSame, Promoting
  <2>2. FloorsHold'
    BY <1>2, <1>4, <1>6, <1>10 DEF AcceptInv, FloorsHold, Allowed, Counted, Unhinted, Written,
                                   Promoting, Moved, Kept, SameHints
  <2>q. QED BY <1>8, <1>9, <2>1, <2>2 DEF AcceptInv
<1>11. CASE pc' = "begin" /\ tick'.cand = server.pub /\ Verdict(server.pub, bag, Date) = "ok"
  <2>1. /\ tick.krl # 0 => server.pub.sig >= tick.krl
        /\ Allowed(server.pub.ser)
    BY <1>1, <1>2, <1>7, <1>11, VerifiedIsAllowed
  <2>2. KeysHold' BY <1>2, <1>6, <1>11, <2>1 DEF AcceptInv, KeysHold, KeysSame, Promoting
  <2>3. FloorsHold'
    BY <1>2, <1>4, <1>6, <1>11, <2>1 DEF AcceptInv, FloorsHold, Allowed, Counted, Unhinted, Written,
                                         Moved, Kept, SameHints
  <2>q. QED BY <1>8, <1>9, <2>2, <2>3 DEF AcceptInv
<1>q. QED BY <1>6, <1>10, <1>11


----------------------------------------------------------------------------
(* The promotion *)

LEMMA PromoteBeginHolds == AcceptInv /\ PromoteBegin => AcceptInv'
<1> SUFFICES ASSUME AcceptInv, PromoteBegin PROVE AcceptInv'
  OBVIOUS
<1>1. Typed BY DEF AcceptInv
<1>2. /\ pc = "begun" /\ pc' = "store" /\ torn' = torn /\ server' = server
      /\ clock' = clock /\ top' = top /\ bag' = bag /\ named' = named /\ faults' = faults
      /\ flash' = [flash EXCEPT !.prev = IF flash.lkg = None THEN Absent ELSE flash.lkg]
      /\ tick' = [tick EXCEPT !.prior = bag]
      /\ flash \in Files /\ tick \in Ticks /\ bag \in Bags
  BY <1>1 DEF PromoteBegin, Goto, Same, Quiet, Typed
<1>3. /\ flash' \in Files /\ flash'.state = flash.state /\ flash'.lkg = flash.lkg
      /\ flash'.artifact = flash.artifact /\ flash'.kstate = flash.kstate
      /\ flash'.prev = IF flash.lkg = None THEN Absent ELSE flash.lkg
  BY <1>2 DEF Files
<1>4. /\ tick' \in Ticks /\ tick'.eff = tick.eff /\ KeysSame
      /\ tick'.prior = bag /\ tick'.cand = tick.cand
  BY <1>2 DEF KeysSame, Ticks
<1>5. Typed' BY <1>1, <1>2, <1>3, <1>4 DEF Typed, Date
<1>6. KeysHold' BY <1>2, <1>3, <1>4 DEF AcceptInv, KeysHold, KeysSame, Promoting
<1>7. FilesHold'
  <2>1. flash.prev = None /\ FilesHold BY <1>2 DEF AcceptInv, FilesHold
  <2>2. flash'.prev # None BY <1>3, OutsideAssumption
  <2>3. ~torn => flash.state.lkg \in {None, flash.lkg} /\ bag.lkg \in {None, flash.lkg}
    BY <2>1 DEF FilesHold, Backed
  <2>4. /\ Coherent(flash.state)' /\ Coherent(bag)' /\ Coherent(tick.prior)'
    BY <1>2, <1>3, <1>4, <2>1 DEF FilesHold, Coherent
  <2>q. QED BY <1>2, <1>3, <1>4, <2>2, <2>3, <2>4 DEF FilesHold, Backed, Written
<1>8. FloorsHold'
  BY <1>2, <1>3, <1>4 DEF AcceptInv, FloorsHold, Allowed, Counted, Unhinted, Written, Promoting
<1>q. QED BY <1>5, <1>6, <1>7, <1>8 DEF AcceptInv

LEMMA PromoteStoreHolds == AcceptInv /\ PromoteStore => AcceptInv'
<1> SUFFICES ASSUME AcceptInv, PromoteStore PROVE AcceptInv'
  OBVIOUS
<1>1. Typed BY DEF AcceptInv
<1>2. /\ pc = "store" /\ torn' = torn /\ server' = server
      /\ clock' = clock /\ top' = top /\ named' = named
      /\ flash \in Files /\ tick \in Ticks /\ bag \in Bags /\ clock \in Times
  BY <1>1 DEF PromoteStore, Same, Quiet, Typed
<1>3. CASE /\ flash' = [flash EXCEPT !.lkg = tick.cand]
           /\ bag' = Apply([bag EXCEPT !.lkg = tick.cand], tick.cand, Date)
           /\ pc' = "checkpoint" /\ tick' = tick /\ faults' = faults
  <2>1. tick.cand \in Envelopes BY <1>2 DEF AcceptInv, KeysHold, Promoting
  <2>2. Date \in Int BY <1>2, AcceptAssumption DEF Date, Times
  <2>3. /\ bag' \in Bags /\ Unhinted(bag')
        /\ bag'.floor = tick.cand.ser /\ bag'.dig = tick.cand /\ bag'.lkg = tick.cand
    BY <1>2, <1>3, <2>1, <2>2, ApplyType
  <2>4. /\ flash' \in Files /\ flash'.state = flash.state /\ flash'.lkg = tick.cand
        /\ flash'.artifact = flash.artifact /\ flash'.kstate = flash.kstate
        /\ flash'.prev = flash.prev
    BY <1>2, <1>3, <2>1 DEF Files, MaybeEnvelope
  <2>5. Typed' BY <1>1, <1>2, <1>3, <2>3, <2>4 DEF Typed, Date
  <2>6. KeysHold' BY <1>2, <1>3, <2>4 DEF AcceptInv, KeysHold, Promoting
  <2>7. FilesHold'
    <3>1. Coherent(flash.state)' /\ Coherent(bag)' /\ Coherent(tick.prior)'
      BY <1>3, <2>1, <2>3, <2>4 DEF AcceptInv, FilesHold, Coherent
    <3>q. QED BY <1>2, <1>3, <2>3, <2>4, <3>1 DEF AcceptInv, FilesHold, Backed, Written
  <2>8. Counted(bag)' BY <2>3 DEF Counted, Unhinted
  <2>9. FloorsHold'
    BY <1>2, <1>3, <2>3, <2>4, <2>8
    DEF AcceptInv, FloorsHold, Allowed, Counted, Unhinted, Written, Promoting
  <2>q. QED BY <2>5, <2>6, <2>7, <2>9 DEF AcceptInv
<1>4. CASE /\ Spend("disk") /\ tick' = [tick EXCEPT !.att = "unavailable"]
           /\ pc' \in {"fetch", "save"} /\ flash' = flash /\ bag' = bag
  <2>1. faults' \in [Outside -> Nat]
    <3>1. "disk" \in Outside BY DEF Outside
    <3>q. QED BY <1>1, <1>4, <3>1, SpendType DEF Typed
  <2>2. /\ tick' \in Ticks /\ tick'.eff = tick.eff /\ KeysSame
        /\ tick'.prior = tick.prior
    BY <1>2, <1>4 DEF KeysSame, Ticks, Attestations
  <2>3. Typed' BY <1>1, <1>2, <1>4, <2>1, <2>2 DEF Typed, Date
  <2>4. KeysHold' BY <1>2, <1>4, <2>2 DEF AcceptInv, KeysHold, KeysSame, Promoting
  <2>5. FilesHold'
    BY <1>2, <1>4, <2>2 DEF AcceptInv, FilesHold, Backed, Written, Coherent
  <2>6. FloorsHold'
    BY <1>2, <1>4, <2>2 DEF AcceptInv, FloorsHold, Allowed, Counted, Unhinted, Written, Promoting
  <2>q. QED BY <2>3, <2>4, <2>5, <2>6 DEF AcceptInv
<1>q. QED BY <1>3, <1>4 DEF PromoteStore, Goto, AfterFailure

LEMMA PromoteCheckpointHolds == AcceptInv /\ PromoteCheckpoint => AcceptInv'
<1> SUFFICES ASSUME AcceptInv, PromoteCheckpoint PROVE AcceptInv'
  OBVIOUS
<1>1. Typed BY DEF AcceptInv
<1>2. /\ pc = "checkpoint" /\ server' = server
      /\ clock' = clock /\ top' = top /\ named' = named
      /\ flash \in Files /\ tick \in Ticks /\ bag \in Bags
  BY <1>1 DEF PromoteCheckpoint, Same, Quiet, Typed
<1>3. /\ FilesHold /\ flash.prev # None /\ bag.lkg = tick.cand /\ flash.lkg = tick.cand
      /\ FloorsHold /\ Unhinted(bag) /\ Allowed(bag.floor)
  BY <1>2 DEF AcceptInv, FilesHold, FloorsHold, Written
<1>4. ASSUME flash' = flash \/ flash' = [flash EXCEPT !.state = bag]
      PROVE  /\ flash' \in Files /\ flash'.lkg = flash.lkg /\ flash'.prev = flash.prev
             /\ flash'.artifact = flash.artifact /\ flash'.kstate = flash.kstate
             /\ flash' = [flash EXCEPT !.state = bag] => flash'.state = bag
             /\ flash'.state \in {flash.state, bag}
  BY <1>2, <1>4 DEF Files
<1>5. CASE /\ flash' = [flash EXCEPT !.state = bag] /\ torn' = FALSE /\ pc' = "finish"
           /\ bag' = bag /\ tick' = tick /\ faults' = faults
  <2>1. Typed' BY <1>1, <1>2, <1>4, <1>5 DEF Typed, Date
  <2>2. KeysHold' BY <1>2, <1>4, <1>5 DEF AcceptInv, KeysHold, Promoting
  <2>3. Coherent(flash.state)' /\ Coherent(bag)' /\ Coherent(tick.prior)'
    BY <1>3, <1>4, <1>5 DEF FilesHold, Coherent
  <2>4. FilesHold'
    BY <1>3, <1>4, <1>5, <2>3 DEF FilesHold, Backed, Written
  <2>5. FloorsHold'
    BY <1>2, <1>3, <1>4, <1>5 DEF FloorsHold, Allowed, Counted, Unhinted, Written, Promoting
  <2>q. QED BY <2>1, <2>2, <2>4, <2>5 DEF AcceptInv
<1>6. CASE /\ Spend("disk")
           /\ flash' = flash \/ flash' = [flash EXCEPT !.state = bag]
           /\ torn' = torn /\ bag' = tick.prior
           /\ tick' = [tick EXCEPT !.att = "unavailable"] /\ pc' \in {"fetch", "save"}
  <2>1. faults' \in [Outside -> Nat]
    <3>1. "disk" \in Outside BY DEF Outside
    <3>q. QED BY <1>1, <1>6, <3>1, SpendType DEF Typed
  <2>2. /\ tick' \in Ticks /\ tick'.eff = tick.eff /\ KeysSame
        /\ tick'.prior = tick.prior /\ tick.prior \in Bags
    BY <1>2, <1>6 DEF KeysSame, Ticks, Attestations
  <2>3. Typed' BY <1>1, <1>2, <1>4, <1>6, <2>1, <2>2 DEF Typed, Date
  <2>4. KeysHold' BY <1>2, <1>4, <1>6, <2>2 DEF AcceptInv, KeysHold, KeysSame, Promoting
  <2>5. Coherent(flash.state)' /\ Coherent(bag)' /\ Coherent(tick.prior)'
    BY <1>3, <1>4, <1>6, <2>2 DEF FilesHold, Coherent
  <2>6. ~torn => Backed(flash.state.lkg)' /\ Backed(bag.lkg)'
    BY <1>2, <1>3, <1>4, <1>6, <2>2 DEF FilesHold, Backed, Written
  <2>7. FilesHold'
    BY <1>6, <2>5, <2>6 DEF FilesHold, Written
  <2>8. FloorsHold'
    BY <1>2, <1>3, <1>4, <1>6 DEF FloorsHold, Allowed, Counted, Unhinted, Written, Promoting
  <2>q. QED BY <2>3, <2>4, <2>7, <2>8 DEF AcceptInv
<1>q. QED BY <1>5, <1>6 DEF PromoteCheckpoint, Goto, AfterFailure

\* The candidate is now what the device runs on: the hints start over.
LEMMA PromoteFinishHolds ==
    AcceptInv /\ PromoteFinish => AcceptInv' /\ RollbackOnlyOnRepeatedHints
<1> SUFFICES ASSUME AcceptInv, PromoteFinish
             PROVE  AcceptInv' /\ RollbackOnlyOnRepeatedHints
  OBVIOUS
<1>1. Typed BY DEF AcceptInv
<1>2. /\ pc = "finish" /\ pc' \in {"fetch", "save"} /\ server' = server /\ clock' = clock
      /\ torn' = torn /\ faults' = faults
      /\ named' = [s \in Serials |-> 0] /\ top' = tick.cand.ser
      /\ flash \in Files /\ tick \in Ticks /\ bag \in Bags
  BY <1>1 DEF PromoteFinish, Quiet, Goto, Typed
<1>3. /\ FilesHold /\ bag.lkg = tick.cand /\ flash.lkg = tick.cand
      /\ flash.state.lkg = tick.cand /\ ~torn
      /\ Unhinted(bag) /\ Unhinted(flash.state) /\ Allowed(tick.cand.ser)
      /\ tick.cand \in Envelopes
  BY <1>2 DEF AcceptInv, FilesHold, FloorsHold, KeysHold, Promoting
<1>4. /\ flash' \in Files /\ flash'.state = flash.state /\ flash'.lkg = flash.lkg
      /\ flash'.artifact = flash.artifact /\ flash'.kstate = flash.kstate
  <2>1. \/ flash' = [flash EXCEPT !.prev = None, !.seed = None]
        \/ flash' = [flash EXCEPT !.prev = None, !.seed = flash.seed]
    BY DEF PromoteFinish
  <2>q. QED BY <1>2, <2>1 DEF Files, MaybeEnvelope
<1>5. /\ tick' \in Ticks /\ tick'.eff = tick.cand /\ KeysSame
      /\ tick'.prior = tick.prior
  <2>1. PICK a \in Attestations :
          tick' = [tick EXCEPT !.eff = tick.cand, !.src = "applied", !.att = a]
    <3>1. "reset" \in Attestations /\ "applied" \in Attestations BY DEF Attestations
    <3>q. QED BY <3>1 DEF PromoteFinish
  <2>q. QED BY <1>2, <2>1 DEF KeysSame, Ticks, Sources
<1>6. Moved(bag, bag')
  <2>1. CASE bag' = bag
    BY <1>2, <2>1 DEF Moved, Kept, SameHints
  <2>2. CASE bag' = [bag EXCEPT !.pend = FALSE, !.ptr = tick.ptr, !.etag = tick.cand,
                           !.skew = IF tick.cand.ser < tick.ptr
                                    THEN IF @ < SkewLimit THEN @ + 1 ELSE @
                                    ELSE 0]
    <3> DEFINE k == IF tick.cand.ser < tick.ptr
                    THEN IF bag.skew < SkewLimit THEN bag.skew + 1 ELSE bag.skew
                    ELSE 0
    <3>1. k \in 0 .. SkewLimit BY <1>2, AcceptAssumption DEF Bags
    <3>2. bag' = [bag EXCEPT !.pend = FALSE, !.ptr = tick.ptr, !.etag = tick.cand, !.skew = k]
      BY <2>2
    <3>3. tick.ptr \in 0 .. MaxSerial /\ tick.cand \in MaybeEnvelope BY <1>2 DEF Ticks
    <3> HIDE DEF k
    <3>q. QED BY <1>2, <3>1, <3>2, <3>3 DEF Moved, Kept, SameHints, Bags
  <2>q. QED BY <2>1, <2>2 DEF PromoteFinish
<1>7. /\ bag.floor = tick.cand.ser /\ flash.state.floor = tick.cand.ser
      /\ tick.cand.ser \in 1 .. MaxSerial
  BY <1>3, OutsideAssumption DEF FilesHold, Coherent, Envelopes, Serials
<1>8. Typed'
  <2>1. named' \in [Serials -> 0 .. ResetAfter] /\ top' \in 0 .. MaxSerial
    BY <1>2, <1>7, AcceptAssumption
  <2>q. QED BY <1>1, <1>2, <1>4, <1>5, <1>6, <2>1 DEF Typed, Date, Moved
<1>9. KeysHold'
  <2>1. /\ flash.artifact \in {0, tick.krl} \/ tick.kfail \/ tick.kcut
        /\ tick.krl # 0 => tick.cand.sig >= tick.krl
    BY <1>2 DEF AcceptInv, KeysHold, Promoting
  <2>2. tick.cand.sig \in Nat BY <1>3, AcceptAssumption DEF Envelopes
  <2>3. /\ tick.cand.sig >= tick.krl
        /\ ~tick.kfail /\ ~tick.kcut => tick.cand.sig >= flash.artifact
    BY <2>1, <2>2
  <2>q. QED BY <1>2, <1>4, <1>5, <2>1, <2>3 DEF KeysHold, KeysSame, Promoting
<1>10. FilesHold'
  <2>1. Coherent(flash.state)' /\ Coherent(bag)' /\ Coherent(tick.prior)'
    BY <1>3, <1>4, <1>5, <1>6 DEF FilesHold, Coherent, Moved, Kept
  <2>2. Backed(flash.state.lkg)' /\ Backed(bag.lkg)'
    BY <1>3, <1>4, <1>6 DEF Backed, Moved, Kept
  <2>q. QED BY <1>2, <2>1, <2>2 DEF FilesHold, Written
<1>11. FloorsHold'
  <2>1. bag'.floor = top' /\ flash'.state.floor = top' /\ top' \in Nat
    BY <1>2, <1>4, <1>6, <1>7, AcceptAssumption DEF Moved, Kept
  <2>2. Allowed(flash.state.floor)' /\ Allowed(bag.floor)'
    BY <2>1 DEF Allowed
  <2>3. Counted(flash.state)' /\ Counted(bag)'
    BY <1>3, <1>4, <1>6 DEF Counted, Unhinted, Moved, SameHints
  <2>q. QED BY <1>2, <2>2, <2>3 DEF FloorsHold, Written, Promoting
<1>12. RollbackOnlyOnRepeatedHints
  <2>1. top \in Nat /\ top' \in Nat BY <1>1, <1>2, <1>7, AcceptAssumption DEF Typed
  <2>2. top' >= top \/ \E s \in 1 .. top' : named[s] >= ResetAfter
    BY <1>2, <1>3 DEF Allowed
  <2>q. QED BY <2>1, <2>2 DEF RollbackOnlyOnRepeatedHints
<1>q. QED BY <1>8, <1>9, <1>10, <1>11, <1>12 DEF AcceptInv


LEMMA SaveStateHolds == AcceptInv /\ SaveState => AcceptInv'
<1> SUFFICES ASSUME AcceptInv, SaveState PROVE AcceptInv'
  OBVIOUS
<1>1. Typed BY DEF AcceptInv
<1>2. /\ pc = "save" /\ pc' = "idle" /\ server' = server /\ clock' = clock /\ top' = top
      /\ named' = named /\ bag' = NoState
      /\ tick' = [NoTick EXCEPT !.eff = tick.eff, !.att = tick.att, !.krl = tick.krl,
                                !.kfail = tick.kfail, !.kcut = tick.kcut]
      /\ flash \in Files /\ tick \in Ticks /\ bag \in Bags /\ server \in Serving
      /\ torn \in BOOLEAN
  BY <1>1 DEF SaveState, Goto, Same, Quiet, Typed
<1>3. /\ tick' \in Ticks /\ tick'.eff = tick.eff /\ KeysSame
      /\ tick'.prior = NoState
  <2>1. NoTick.prior = NoState BY DEF NoTick
  <2>q. QED BY <1>2, <2>1, NoTickType DEF KeysSame, Ticks
<1>4. faults' \in [Outside -> Nat]
  <2>1. "disk" \in Outside BY DEF Outside
  <2>q. QED BY <1>1, <2>1, SpendType DEF Typed, SaveState
<1> DEFINE saved == [bag EXCEPT !.hb = server.ptr]
<1>5. saved \in Bags /\ Kept(bag, saved) /\ SameHints(bag, saved)
  <2>1. server.ptr \in 0 .. MaxSerial BY <1>2, AcceptAssumption DEF Serving, Serials
  <2>q. QED BY <1>2, <2>1 DEF Bags, Kept, SameHints
<1>6. \/ flash' = flash /\ torn' = torn
      \/ flash' = [flash EXCEPT !.state = saved] /\ torn' = (torn /\ bag.lkg # flash.lkg)
  BY DEF SaveState
<1> HIDE DEF saved
<1>7. /\ flash' \in Files /\ flash'.lkg = flash.lkg /\ flash'.prev = flash.prev
      /\ flash'.artifact = flash.artifact /\ flash'.kstate = flash.kstate
      /\ \/ flash'.state = flash.state /\ torn' = torn
         \/ flash'.state = saved /\ torn' = (torn /\ bag.lkg # flash.lkg)
  BY <1>2, <1>5, <1>6 DEF Files
<1>8. torn' \in BOOLEAN BY <1>2, <1>6
<1>9. Typed' BY <1>1, <1>2, <1>3, <1>4, <1>7, <1>8, NoStateType DEF Typed, Date
<1>10. KeysHold' BY <1>2, <1>3, <1>7 DEF AcceptInv, KeysHold, KeysSame, Promoting
<1>11. FilesHold'
  <2>1. Coherent(saved) BY <1>5 DEF AcceptInv, FilesHold, Coherent, Kept
  <2>2. Coherent(flash.state)' /\ Coherent(bag)' /\ Coherent(tick.prior)'
    BY <1>2, <1>3, <1>7, <2>1, NoStateType DEF AcceptInv, FilesHold, Coherent
  <2>3. bag'.lkg = None BY <1>2 DEF NoState
  <2>4. ~torn' => Backed(flash.state.lkg)'
    BY <1>2, <1>5, <1>7 DEF AcceptInv, FilesHold, Backed, Kept
  <2>q. QED BY <1>2, <2>2, <2>3, <2>4 DEF FilesHold, Backed, Written
<1>12. FloorsHold'
  <2>1. Allowed(flash.state.floor)' /\ Counted(flash.state)'
    BY <1>2, <1>5, <1>7 DEF AcceptInv, FloorsHold, Allowed, Counted, Kept, SameHints
  <2>2. Counted(bag)' BY <1>2, NoStateType DEF Counted, Unhinted
  <2>q. QED BY <1>2, <2>1, <2>2 DEF FloorsHold, Written, Promoting
<1>q. QED BY <1>9, <1>10, <1>11, <1>12 DEF AcceptInv

----------------------------------------------------------------------------
(* Outside events *)

LEMMA CrashHolds == AcceptInv /\ Crash => AcceptInv'
<1> SUFFICES ASSUME AcceptInv, Crash PROVE AcceptInv'
  OBVIOUS
<1>1. Typed BY DEF AcceptInv
<1>2. /\ pc' = "idle" /\ bag' = NoState /\ tick' = NoTick /\ flash' = flash
      /\ server' = server /\ named' = named /\ top' = top /\ torn' = torn
  BY DEF Crash
<1>3. PICK b \in {0, 1} : clock' = [clock EXCEPT !.boot = @ + b]
  BY DEF Crash
<1>4. clock' \in Times /\ clock'.lead = clock.lead /\ clock'.mono = clock.mono
  BY <1>1, <1>3 DEF Typed, Times
<1>5. faults' \in [Outside -> Nat]
  <2>1. "crash" \in Outside BY DEF Outside
  <2>q. QED BY <1>1, <2>1, SpendType DEF Typed, Crash
<1>6. NoTick.eff = None /\ NoTick.prior = NoState /\ NoState.lkg = None
  BY DEF NoTick, NoState
<1>7. Typed' BY <1>1, <1>2, <1>4, <1>5, NoStateType, NoTickType DEF Typed, Date
<1>8. KeysHold' BY <1>2, <1>6 DEF KeysHold, Promoting
<1>9. FilesHold'
  BY <1>2, <1>6, NoStateType DEF AcceptInv, FilesHold, Backed, Written, Coherent
<1>10. FloorsHold'
  BY <1>2, NoStateType DEF AcceptInv, FloorsHold, Allowed, Counted, Unhinted, Written, Promoting
<1>q. QED BY <1>7, <1>8, <1>9, <1>10 DEF AcceptInv

LEMMA DamageHolds ==
    AcceptInv /\ Damage => AcceptInv' /\ RollbackOnlyOnRepeatedHints
<1> SUFFICES ASSUME AcceptInv, Damage PROVE AcceptInv' /\ RollbackOnlyOnRepeatedHints
  OBVIOUS
<1>1. Typed BY DEF AcceptInv
<1>2. /\ pc = "idle" /\ pc' = pc /\ bag' = bag /\ tick' = tick /\ clock' = clock
      /\ server' = server /\ named' = named /\ top' = 0 /\ torn' = torn
      /\ flash' = [flash EXCEPT !.state = NoState] /\ flash \in Files
  BY <1>1 DEF Damage, Typed
<1>3. /\ flash' \in Files /\ flash'.state = NoState /\ flash'.lkg = flash.lkg
      /\ flash'.prev = flash.prev /\ flash'.artifact = flash.artifact
      /\ flash'.kstate = flash.kstate
  BY <1>2, NoStateType DEF Files
<1>4. faults' \in [Outside -> Nat]
  <2>1. "damage" \in Outside BY DEF Outside
  <2>q. QED BY <1>1, <2>1, SpendType DEF Typed, Damage
<1>5. Typed' BY <1>1, <1>2, <1>3, <1>4, AcceptAssumption DEF Typed, Date
<1>6. KeysHold' BY <1>2, <1>3 DEF AcceptInv, KeysHold, Promoting
<1>7. NoState.lkg = None /\ NoState.floor = 0 BY DEF NoState
<1>8. FilesHold'
  BY <1>2, <1>3, <1>7, NoStateType DEF AcceptInv, FilesHold, Backed, Written, Coherent
<1>9. Allowed(flash.state.floor)' BY <1>2, <1>3, <1>7 DEF Allowed
<1>10. Counted(flash.state)' BY <1>3, NoStateType DEF Counted, Unhinted
<1>11. FloorsHold'
  BY <1>2, <1>9, <1>10 DEF AcceptInv, FloorsHold, Counted, Written, Promoting
<1>12. RollbackOnlyOnRepeatedHints
  BY <1>2 DEF RollbackOnlyOnRepeatedHints
<1>q. QED BY <1>5, <1>6, <1>8, <1>11, <1>12 DEF AcceptInv

LEMMA SeedHolds == AcceptInv /\ Seed => AcceptInv'
<1> SUFFICES ASSUME AcceptInv, Seed PROVE AcceptInv'
  OBVIOUS
<1>1. Typed BY DEF AcceptInv
<1>2. /\ pc = "idle" /\ pc' = pc /\ bag' = bag /\ tick' = tick /\ clock' = clock
      /\ server' = server /\ named' = named /\ top' = top /\ torn' = torn
      /\ flash \in Files /\ server.pub \in Envelopes
  BY <1>1 DEF Seed, Typed, Serving
<1>3. PICK e \in {server.pub, [server.pub EXCEPT !.ser = 1, !.sig = 1]} :
        flash' = [flash EXCEPT !.seed = e]
  BY DEF Seed
<1>4. e \in MaybeEnvelope
  <2>1. 1 \in Serials /\ 1 \in 1 .. MaxKeylist BY AcceptAssumption DEF Serials
  <2>2. [server.pub EXCEPT !.ser = 1, !.sig = 1] \in Envelopes
    BY <1>2, <2>1 DEF Envelopes
  <2>q. QED BY <1>2, <2>2 DEF MaybeEnvelope
<1>5. /\ flash' \in Files /\ flash'.state = flash.state /\ flash'.lkg = flash.lkg
      /\ flash'.prev = flash.prev /\ flash'.artifact = flash.artifact
      /\ flash'.kstate = flash.kstate
  BY <1>2, <1>3, <1>4 DEF Files
<1>6. faults' \in [Outside -> Nat]
  <2>1. "seed" \in Outside BY DEF Outside
  <2>q. QED BY <1>1, <2>1, SpendType DEF Typed, Seed
<1>7. Typed' BY <1>1, <1>2, <1>5, <1>6 DEF Typed, Date
<1>8. KeysHold' BY <1>2, <1>5 DEF AcceptInv, KeysHold, Promoting
<1>9. FilesHold'
  BY <1>2, <1>5 DEF AcceptInv, FilesHold, Backed, Written, Coherent
<1>10. FloorsHold'
  BY <1>2, <1>5 DEF AcceptInv, FloorsHold, Allowed, Counted, Unhinted, Written, Promoting
<1>q. QED BY <1>7, <1>8, <1>9, <1>10 DEF AcceptInv

\* The device's own invariants depend on nothing but its variables.
LEMMA DeviceUntouched ==
    ASSUME AcceptInv, UNCHANGED <<flash, bag, pc, tick, named, top, torn>>
    PROVE  KeysHold' /\ FilesHold' /\ FloorsHold'
<1>1. KeysHold' BY DEF AcceptInv, KeysHold
<1>2. FilesHold' BY DEF AcceptInv, FilesHold, Backed
<1>3. FloorsHold' BY DEF AcceptInv, FloorsHold, Allowed, Counted
<1>q. QED BY <1>1, <1>2, <1>3

LEMMA ServerStepHolds == AcceptInv /\ ServerStep => AcceptInv'
<1> SUFFICES ASSUME AcceptInv, ServerStep PROVE AcceptInv'
  OBVIOUS
<1>1. Typed BY DEF AcceptInv
<1>2. UNCHANGED <<flash, bag, pc, tick, clock, named, top, torn>>
  BY DEF ServerStep
<1>3. faults' \in [Outside -> Nat]
  <2>1. {"publish", "ahead", "restore", "rotate"} \subseteq Outside BY DEF Outside
  <2>2. \E e \in {"publish", "ahead", "restore", "rotate"} : Spend(e) BY DEF ServerStep
  <2>q. QED BY <1>1, <2>1, <2>2, SpendType DEF Typed
<1>4. /\ server \in Serving /\ server.pub \in Envelopes
      /\ server.pub.ser \in Serials /\ server.kl \in 1 .. MaxKeylist /\ server.inc \in Nat
  BY <1>1 DEF Typed, Serving, Envelopes
<1>5. Date \in 0 .. MaxDate
  BY <1>1, AcceptAssumption DEF Typed, Times, Date
<1>6. ASSUME NEW x \in Serials, NEW k \in 1 .. MaxKeylist, NEW i \in Nat
      PROVE  /\ Issue(x, k) \in Envelopes
             /\ [Issue(x, k) EXCEPT !.inc = i] \in Envelopes
  <2>1. Date + Lifetime \in 0 .. MaxDate + Lifetime BY <1>5, AcceptAssumption
  <2>q. QED BY <1>4, <1>6, <2>1 DEF Issue, Envelopes
<1>7. server' \in Serving
  <2>1. CASE /\ server.pub.ser < MaxSerial
             /\ server' = [server EXCEPT !.pub = Issue(server.pub.ser + 1, server.kl),
                                         !.ptr = server.pub.ser + 1]
    <3>1. server.pub.ser + 1 \in Serials BY <1>4, <2>1, AcceptAssumption DEF Serials
    <3>2. Issue(server.pub.ser + 1, server.kl) \in Envelopes BY <1>4, <1>6, <3>1
    <3>q. QED BY <1>4, <2>1, <3>1, <3>2 DEF Serving
  <2>2. CASE /\ server.pub.ser < MaxSerial
             /\ server' = [server EXCEPT !.ptr = server.pub.ser + 1]
    <3>1. server.pub.ser + 1 \in Serials BY <1>4, <2>2, AcceptAssumption DEF Serials
    <3>q. QED BY <1>4, <2>2, <3>1 DEF Serving
  <2>3. CASE /\ server.pub.ser > 1
             /\ server' = [server EXCEPT
                            !.pub = [Issue(server.pub.ser - 1, server.kl)
                                        EXCEPT !.inc = server.inc + 1],
                            !.ptr = server.pub.ser - 1, !.inc = @ + 1]
    <3>1. server.pub.ser - 1 \in Serials /\ server.inc + 1 \in Nat
      BY <1>4, <2>3, AcceptAssumption DEF Serials
    <3>2. [Issue(server.pub.ser - 1, server.kl) EXCEPT !.inc = server.inc + 1] \in Envelopes
      BY <1>4, <1>6, <3>1
    <3>q. QED BY <1>4, <2>3, <3>1, <3>2 DEF Serving
  <2>4. CASE /\ server.kl < MaxKeylist /\ server.pub.ser < MaxSerial
             /\ server' = [server EXCEPT !.kl = @ + 1, !.ptr = server.pub.ser + 1,
                            !.pub = Issue(server.pub.ser + 1, server.kl + 1)]
    <3>1. server.pub.ser + 1 \in Serials /\ server.kl + 1 \in 1 .. MaxKeylist
      BY <1>4, <2>4, AcceptAssumption DEF Serials
    <3>2. Issue(server.pub.ser + 1, server.kl + 1) \in Envelopes BY <1>6, <3>1
    <3>q. QED BY <1>4, <2>4, <3>1, <3>2 DEF Serving
  <2>q. QED BY <2>1, <2>2, <2>3, <2>4 DEF ServerStep
<1>8. Typed' BY <1>1, <1>2, <1>3, <1>7 DEF Typed, Date
<1>q. QED BY <1>2, <1>8, DeviceUntouched DEF AcceptInv

LEMMA ClockStepHolds == AcceptInv /\ ClockStep => AcceptInv'
<1> SUFFICES ASSUME AcceptInv, ClockStep PROVE AcceptInv'
  OBVIOUS
<1>1. Typed BY DEF AcceptInv
<1>2. UNCHANGED <<flash, bag, pc, tick, server, named, top, torn>>
  BY DEF ClockStep
<1>3. faults' \in [Outside -> Nat]
  <2>1. {"time", "back"} \subseteq Outside BY DEF Outside
  <2>2. \E e \in {"time", "back"} : Spend(e) BY DEF ClockStep
  <2>q. QED BY <1>1, <2>1, <2>2, SpendType DEF Typed
<1>4. clock' \in Times /\ clock'.lead <= 0 /\ clock'.mono + clock'.lead >= 0
  <2>1. clock \in Times /\ clock.lead <= 0 /\ clock.mono + clock.lead >= 0
    BY <1>1 DEF Typed, Date
  <2>2. CASE clock.mono < MaxDate /\ clock' = [clock EXCEPT !.mono = @ + 1]
    BY <2>1, <2>2, AcceptAssumption DEF Times
  <2>3. CASE /\ clock.mono + clock.lead > Tolerance
             /\ clock' = [clock EXCEPT !.lead = @ - Tolerance - 1]
    BY <2>1, <2>3, AcceptAssumption DEF Times
  <2>q. QED BY <2>2, <2>3 DEF ClockStep, Date
<1>5. Typed' BY <1>1, <1>2, <1>3, <1>4 DEF Typed, Date
<1>q. QED BY <1>2, <1>5, DeviceUntouched DEF AcceptInv

----------------------------------------------------------------------------
(* Theorems *)

\* A step that leaves top alone rolls nothing back.
LEMMA TopKept ==
    ASSUME AcceptInv, top' = top
    PROVE  RollbackOnlyOnRepeatedHints
<1>1. top \in Nat BY AcceptAssumption DEF AcceptInv, Typed
<1>q. QED BY <1>1 DEF RollbackOnlyOnRepeatedHints

LEMMA StepHolds ==
    AcceptInv /\ [AcceptNext]_acceptVars => AcceptInv' /\ RollbackOnlyOnRepeatedHints
<1> SUFFICES ASSUME AcceptInv, [AcceptNext]_acceptVars
             PROVE  AcceptInv' /\ RollbackOnlyOnRepeatedHints
  OBVIOUS
<1>1. CASE StartTick
  BY <1>1, StartTickHolds, TopKept DEF StartTick, Same
<1>2. CASE RecoverKeys("preview-keys", "preview-lkg", "poll")
           \/ RecoverKeys("keys", "fetch-keys", "save")
  <2>1. AcceptInv' BY <1>2, RecoverKeysHolds
  <2>2. top' = top BY <1>2 DEF RecoverKeys, Same
  <2>q. QED BY <2>1, <2>2, TopKept
<1>3. CASE \/ RecoverLkg("preview-lkg", "preview", "poll")
           \/ RecoverLkg("recover", "load", "save")
           \/ RecoverLkg("begin", "begun", AfterFailure)
  <2>1. AfterFailure \in {"fetch", "save"} BY DEF AfterFailure
  <2>2. PICK bad \in {"poll", "save", "fetch"} :
          \/ bad = "poll" /\ RecoverLkg("preview-lkg", "preview", bad)
          \/ bad = "save" /\ RecoverLkg("recover", "load", bad)
          \/ bad \in {"fetch", "save"} /\ RecoverLkg("begin", "begun", bad)
    BY <1>3, <2>1
  <2>3. AcceptInv' BY <2>2, RecoverLkgHolds
  <2>4. top' = top BY <1>3 DEF RecoverLkg, Same
  <2>q. QED BY <2>3, <2>4, TopKept
<1>4. CASE LoadLkg("preview", "poll") \/ LoadLkg("load", "bootstrap")
  BY <1>4, LoadLkgHolds
<1>5. CASE Poll
  BY <1>5, PollHolds, TopKept DEF Poll, Same
<1>6. CASE NotDue
  BY <1>6, NotDueHolds, TopKept DEF NotDue, Same
<1>7. CASE FetchKeylist
  BY <1>7, FetchKeylistHolds, TopKept DEF FetchKeylist, Same
<1>8. CASE InstallKeylist
  BY <1>8, InstallKeylistHolds, TopKept DEF InstallKeylist, Same
<1>9. CASE Bootstrap
  BY <1>9, BootstrapHolds, TopKept DEF Bootstrap, Same
<1>10. CASE Fetch
  BY <1>10, FetchHolds, TopKept DEF Fetch, Same
<1>11. CASE PromoteBegin
  BY <1>11, PromoteBeginHolds, TopKept DEF PromoteBegin, Same
<1>12. CASE PromoteStore
  BY <1>12, PromoteStoreHolds, TopKept DEF PromoteStore, Same
<1>13. CASE PromoteCheckpoint
  BY <1>13, PromoteCheckpointHolds, TopKept DEF PromoteCheckpoint, Same
<1>14. CASE PromoteFinish
  BY <1>14, PromoteFinishHolds
<1>15. CASE SaveState
  BY <1>15, SaveStateHolds, TopKept DEF SaveState, Same
<1>16. CASE Crash
  BY <1>16, CrashHolds, TopKept DEF Crash
<1>17. CASE Damage
  BY <1>17, DamageHolds
<1>18. CASE Seed
  BY <1>18, SeedHolds, TopKept DEF Seed
<1>19. CASE ServerStep
  BY <1>19, ServerStepHolds, TopKept DEF ServerStep
<1>20. CASE ClockStep
  BY <1>20, ClockStepHolds, TopKept DEF ClockStep
<1>21. CASE UNCHANGED acceptVars
  <2>1. UNCHANGED <<flash, bag, pc, tick, named, top, torn, server, clock, faults>>
    BY <1>21 DEF acceptVars
  <2>2. Typed' BY <2>1 DEF AcceptInv, Typed, Date
  <2>q. QED BY <2>1, <2>2, DeviceUntouched, TopKept DEF AcceptInv
<1>q. QED
  BY <1>1, <1>2, <1>3, <1>4, <1>5, <1>6, <1>7, <1>8, <1>9, <1>10, <1>11, <1>12, <1>13,
     <1>14, <1>15, <1>16, <1>17, <1>18, <1>19, <1>20, <1>21
  DEF AcceptNext, AgentStep

LEMMA InvIsSafe == AcceptInv => AcceptSafe
<1> SUFFICES ASSUME AcceptInv PROVE AcceptSafe
  OBVIOUS
<1>1. AcceptTypeOK
  BY DEF AcceptInv, Typed, AcceptTypeOK, Ticks
<1>2. FloorHasItsFile
  <2>1. SUFFICES ASSUME flash.state.floor # 0, ~torn
                 PROVE  /\ Settled(flash.state.lkg) = flash.state.dig
                        /\ flash.state.dig.ser = flash.state.floor
    BY DEF FloorHasItsFile
  <2>2. Coherent(flash.state) /\ Backed(flash.state.lkg)
    BY <2>1 DEF AcceptInv, FilesHold
  <2>3. /\ flash.state.dig \in Envelopes /\ flash.state.lkg = flash.state.dig
        /\ flash.state.floor = flash.state.dig.ser
    BY <2>1, <2>2 DEF Coherent
  <2>4. flash.state.lkg # None BY <2>3, OutsideAssumption
  <2>q. QED BY <2>2, <2>3, <2>4, SettledBacked
<1>3. RevokedNeverAttested
  BY DEF AcceptInv, KeysHold, RevokedNeverAttested
<1>q. QED BY <1>1, <1>2, <1>3 DEF AcceptSafe

\* For every number of serials, keylists, hints and outside events, and every
\* order of crashes, failed writes and lost state files: the files hold the
\* envelope the saved floor stands for, and no tick attests an instruction
\* whose signer is revoked by the keylist it works with or, unless its own
\* installation or verification of it failed, by the one on disk
\* (_promote_verified, LKGStore and KeylistStore of instr.py).
THEOREM DeviceKeepsItsInstruction == AcceptSpec => []AcceptSafe
<1>1. AcceptInit => AcceptInv BY InitHolds
<1>2. AcceptInv /\ [AcceptNext]_acceptVars => AcceptInv' BY StepHolds
<1>3. AcceptInv => AcceptSafe BY InvIsSafe
<1>q. QED BY <1>1, <1>2, <1>3, PTL DEF AcceptSpec

\* No step of the device, of its server or of what surrounds them makes it run
\* on a lower serial than before unless ResetAfter polls named that serial or
\* one below it since the last promotion, or its state file was lost
\* (note_hint, _replay, LKGStore.load of instr.py).
THEOREM RollbackNeedsRepeatedHints ==
    AcceptSpec => [][RollbackOnlyOnRepeatedHints]_acceptVars
<1>1. AcceptInit => AcceptInv BY InitHolds
<1>2. AcceptInv /\ [AcceptNext]_acceptVars => AcceptInv' BY StepHolds
<1>3. AcceptInv /\ [AcceptNext]_acceptVars => [RollbackOnlyOnRepeatedHints]_acceptVars
  BY StepHolds
<1>q. QED BY <1>1, <1>2, <1>3, PTL DEF AcceptSpec

-----------------------------------------------------------------------------
(* The host: locks, serials and role artifacts.                           *)

Places == {"off", "admit", "admitted", "ready", "confirm"} \cup RoleSteps \cup InitSteps
Stamping == {"admit", "admitted", "ready", "file", "index", "rename", "activate",
             "reserve", "commit", "confirm"}
Producing == [at : Places, dev : StDevices \cup {NoStamp}, want : Contents \cup {NoStamp},
              serial : Nat, gone : SUBSET Generations]
Admissions == [epoch : Nat, row : [StDevices -> {"none", "pending", "active"}],
               made : [StDevices -> Nat]]
Entries == [state : {"none", "pending", "active"}, age : {"used", "marked", "old"}]
Wanted == [role : Bodies, part : [StDevices -> {0, 1}], key : [StDevices -> Nat]]

\* What roles may say in the epoch e are generations.
Sayable(e) == \A b \in Bodies : [epoch |-> e, body |-> b] \in Generations

ProducerTyped ==
    /\ epochs \in [key : Nat, active : Nat] /\ admitted \in Admissions
    /\ serials \in [StDevices -> Histories \cup {NoStamp}]
    /\ stamps \in [StDevices -> StampSet \cup {NoStamp}]
    /\ issued \in [StDevices -> SUBSET StampSet]
    /\ roles \in [Generations -> Entries]
    /\ artifacts \in [Generations -> SUBSET {"pending", "final"}]
    /\ wanted \in Wanted
    /\ producer \in [Producers -> Producing]
    /\ Sayable(epochs.active) /\ Sayable(epochs.key)

\* The producer lock, the role lock and the lock of each device.
LocksHold ==
    /\ \A p, q \in Producers : p # q =>
          /\ producer[p].dev # NoStamp => producer[q].dev # producer[p].dev
          /\ producer[p].at \in RoleSteps => producer[q].at \notin RoleSteps
          /\ producer[p].at \in InitSteps => producer[q].at = "off"
    /\ \A p \in Producers : producer[p].at \in Stamping =>
          /\ producer[p].dev \in StDevices /\ producer[p].want \in Contents
          /\ producer[p].want.epoch = epochs.active

\* What was issued to d is at or below the history of its epoch, and at the
\* high water it is what the history has reserved.
Recorded(d) ==
    /\ serials[d] = NoStamp => issued[d] = {}
    /\ \A i \in issued[d] :
          /\ i.epoch <= epochs.active
          /\ serials[d] # NoStamp /\ i.epoch = serials[d].epoch =>
                /\ i.serial <= serials[d].high
                /\ i.serial = serials[d].high
                      => serials[d].reserved \in {NoStamp, Content(i)}

\* What a producer relies on while it has the device: a history of its epoch.
Founded(p) ==
    LET row == serials[producer[p].dev]
    IN  /\ producer[p].at \in InitSteps => epochs.active < epochs.key
        /\ producer[p].at \in Stamping \ {"admit"}
              => row \in Histories /\ row.epoch = epochs.active
        /\ producer[p].at = "commit"
              => row.high = producer[p].serial /\ row.reserved = producer[p].want

SerialsHold ==
    /\ epochs.active <= epochs.key
    /\ \A d \in StDevices : Recorded(d)
    /\ \A p \in Producers : Founded(p)

Ready(g) == roles[g].state = "active" /\ "final" \in artifacts[g]

\* What a producer relies on while it has the role lock.
Housed(p) ==
    LET g == producer[p].want.gen
    IN  /\ producer[p].at \in {"file", "index"}
              => roles[g].state = "none" /\ Cardinality(Indexed) < MaxGenerations
        /\ producer[p].at \in {"rename", "activate"} => roles[g].state = "pending"
        /\ producer[p].at = "activate" => "final" \in artifacts[g]
        /\ producer[p].at \in {"reserve", "commit"} => Ready(g)
        /\ producer[p].at = "gc"
              => \A d \in StDevices : stamps[d] # NoStamp => stamps[d].gen \notin producer[p].gone

RolesHold ==
    /\ Cardinality(Indexed) <= MaxGenerations
    /\ StampHasArtifact
    /\ \A p \in Producers : Housed(p)

ProducerInv == ProducerTyped /\ LocksHold /\ SerialsHold /\ RolesHold

----------------------------------------------------------------------------
(* A producer's turn *)

\* Only p moves.
Alone(p) ==
    /\ producer' \in [Producers -> Producing]
    /\ \A q \in Producers : q # p => producer'[q] = producer[q]

\* p goes to w with what it carries, or drops everything.
Moves(p, w) ==
    /\ Alone(p)
    /\ producer'[p].at = w /\ producer'[p].dev = producer[p].dev
    /\ producer'[p].want = producer[p].want /\ producer'[p].serial = producer[p].serial
    /\ producer'[p].gone = producer[p].gone
Stops(p) == Alone(p) /\ producer'[p] = Off

LEMMA OffType == Off \in Producing /\ Off.at = "off" /\ Off.dev = NoStamp
BY DEF Off, Producing, Places

LEMMA TurnType ==
    ASSUME ProducerTyped, NEW p \in Producers, NEW r \in Producing,
           producer' = [producer EXCEPT ![p] = r]
    PROVE  Alone(p) /\ producer'[p] = r
BY DEF ProducerTyped, Alone

LEMMA StopType ==
    ASSUME ProducerTyped, NEW p \in Producers, Stop(p)
    PROVE  Stops(p)
BY OffType, TurnType DEF Stop, Stops

LEMMA MoveType ==
    ASSUME ProducerTyped, NEW p \in Producers, NEW w \in Places, Move(p, w)
    PROVE  Moves(p, w)
<1> DEFINE r == [producer[p] EXCEPT !.at = w]
<1>1. producer[p] \in Producing BY DEF ProducerTyped
<1>2. r \in Producing /\ r.at = w /\ r.dev = producer[p].dev /\ r.want = producer[p].want
      /\ r.serial = producer[p].serial /\ r.gone = producer[p].gone
  BY <1>1 DEF Producing
<1>3. producer' = [producer EXCEPT ![p] = r] BY DEF Move
<1> HIDE DEF r
<1>q. QED BY <1>2, <1>3, TurnType DEF Moves

\* The locks stay exclusive when p takes only what is free.
LEMMA LocksKept ==
    ASSUME LocksHold, NEW p \in Producers, Alone(p), epochs'.active = epochs.active,
           \/ producer'[p].dev \in {NoStamp, producer[p].dev}
           \/ DeviceFree(producer'[p].dev),
           producer'[p].at \in RoleSteps => producer[p].at \in RoleSteps \/ RoleFree,
           producer'[p].at \in InitSteps => producer[p].at \in InitSteps \/ NoProducer,
           producer'[p].at # "off" => producer[p].at # "off" \/ NoInitializer,
           producer'[p].at \in Stamping =>
              /\ producer'[p].dev \in StDevices /\ producer'[p].want \in Contents
              /\ producer'[p].want.epoch = epochs.active
    PROVE  LocksHold'
<1>1. ASSUME NEW q \in Producers, NEW s \in Producers, q # s
      PROVE  producer'[q].dev # NoStamp => producer'[s].dev # producer'[q].dev
  BY <1>1 DEF LocksHold, Alone, DeviceFree
<1>2. ASSUME NEW q \in Producers, NEW s \in Producers, q # s
      PROVE  producer'[q].at \in RoleSteps => producer'[s].at \notin RoleSteps
  BY <1>2 DEF LocksHold, Alone, RoleFree
<1>3. ASSUME NEW q \in Producers, NEW s \in Producers, q # s
      PROVE  producer'[q].at \in InitSteps => producer'[s].at = "off"
  BY <1>3 DEF LocksHold, Alone, NoProducer, NoInitializer
<1>4. ASSUME NEW q \in Producers, producer'[q].at \in Stamping
      PROVE  /\ producer'[q].dev \in StDevices /\ producer'[q].want \in Contents
             /\ producer'[q].want.epoch = epochs'.active
  BY <1>4 DEF LocksHold, Alone
<1>q. QED BY <1>1, <1>2, <1>3, <1>4 DEF LocksHold

\* Histories and issued stamps that rest stay recorded.
LEMMA SerialsKept ==
    ASSUME SerialsHold, NEW p \in Producers, Alone(p), UNCHANGED <<epochs, serials, issued>>,
           Founded(p)'
    PROVE  SerialsHold'
<1>1. ASSUME NEW q \in Producers PROVE Founded(q)'
  BY DEF SerialsHold, Alone, Founded
<1>2. \A d \in StDevices : Recorded(d)'
  BY DEF SerialsHold, Recorded
<1>q. QED BY <1>1, <1>2 DEF SerialsHold

\* Roles and files that rest stay as every producer left them, if no device
\* gets a stamp.
LEMMA RolesKept ==
    ASSUME RolesHold, NEW p \in Producers, Alone(p), UNCHANGED <<roles, artifacts>>,
           \A d \in StDevices : stamps'[d] \in {stamps[d], NoStamp},
           Housed(p)'
    PROVE  RolesHold'
<1>1. Indexed' = Indexed BY DEF Indexed
<1>2. ASSUME NEW q \in Producers PROVE Housed(q)'
  BY <1>1 DEF RolesHold, Alone, Housed, Ready
<1>3. StampHasArtifact' BY DEF RolesHold, StampHasArtifact
<1>q. QED BY <1>1, <1>2, <1>3 DEF RolesHold

----------------------------------------------------------------------------
(* The steps of a producer *)

LEMMA StamperInitHolds == StamperInit => ProducerInv
<1> SUFFICES ASSUME StamperInit PROVE ProducerInv
  OBVIOUS
<1>1. /\ epochs = [key |-> 1, active |-> 1]
      /\ admitted = [epoch |-> 1, row |-> [d \in StDevices |->
                        IF d \in Late THEN "none" ELSE "active"],
                     made |-> [d \in StDevices |-> 0]]
      /\ serials = [d \in StDevices |-> IF d \in Late THEN NoStamp ELSE ZeroHistory(1)]
      /\ stamps = [d \in StDevices |-> NoStamp]
      /\ roles = [g \in Generations |-> [state |-> "none", age |-> "used"]]
      /\ artifacts = [g \in Generations |-> {}]
      /\ wanted \in [role : {CHOOSE b \in Bodies : TRUE},
                     part : [StDevices -> {0}], key : [StDevices -> {0}]]
      /\ producer = [p \in Producers |-> Off]
      /\ issued = [d \in StDevices |-> {}]
  BY DEF StamperInit
<1>2. ZeroHistory(1) \in Histories BY DEF ZeroHistory, Histories
<1>3. wanted \in Wanted
  <2>1. (CHOOSE b \in Bodies : TRUE) \in Bodies BY StamperAssumption
  <2>q. QED BY <1>1, <2>1 DEF Wanted
<1>4. ProducerTyped
  <2>1. serials \in [StDevices -> Histories \cup {NoStamp}] BY <1>1, <1>2
  <2>2. admitted \in Admissions BY <1>1 DEF Admissions
  <2>3. roles \in [Generations -> Entries] BY <1>1 DEF Entries
  <2>4. epochs \in [key : Nat, active : Nat] BY <1>1
  <2>5. Sayable(1)
    <3>1. \A b \in Bodies : [epoch |-> 1, body |-> b] \in [epoch : {1}, body : Bodies]
      OBVIOUS
    <3>q. QED BY <3>1, StamperAssumption DEF Sayable
  <2>q. QED BY <1>1, <1>3, <2>1, <2>2, <2>3, <2>4, <2>5, OffType DEF ProducerTyped
<1>5. \A p \in Producers : producer[p].at = "off" /\ producer[p].dev = NoStamp
  BY <1>1, OffType
<1>6. LocksHold
  BY <1>5 DEF LocksHold, RoleSteps, InitSteps, Stamping
<1>7. SerialsHold
  BY <1>1, <1>5 DEF SerialsHold, Recorded, Founded, InitSteps, Stamping
<1>8. RolesHold
  <2>1. Indexed = {} BY <1>1 DEF Indexed
  <2>2. Cardinality(Indexed) <= MaxGenerations
    BY <2>1, FS_EmptySet, StamperAssumption
  <2>3. \A p \in Producers : Housed(p)
    BY <1>5 DEF Housed
  <2>4. StampHasArtifact BY <1>1 DEF StampHasArtifact
  <2>q. QED BY <2>2, <2>3, <2>4 DEF RolesHold
<1>q. QED BY <1>4, <1>6, <1>7, <1>8 DEF ProducerInv

\* What stops a producer leaves everything but its locks.
LEMMA StoppedHolds ==
    ASSUME ProducerInv, NEW p \in Producers, Stops(p),
           UNCHANGED <<epochs, admitted, serials, stamps, roles, artifacts, wanted, issued>>
    PROVE  ProducerInv'
<1>1. producer'[p].at = "off" /\ producer'[p].dev = NoStamp
  BY OffType DEF Stops
<1>2. ProducerTyped' BY DEF ProducerInv, ProducerTyped, Stops, Alone
<1>3. LocksHold'
  BY <1>1, LocksKept DEF ProducerInv, Stops, RoleSteps, InitSteps, Stamping
<1>4. Founded(p)' BY <1>1 DEF Founded, InitSteps, Stamping
<1>5. SerialsHold' BY <1>4, SerialsKept DEF ProducerInv, Stops
<1>6. Housed(p)' BY <1>1 DEF Housed
<1>7. RolesHold' BY <1>6, RolesKept DEF ProducerInv, Stops
<1>q. QED BY <1>2, <1>3, <1>5, <1>7 DEF ProducerInv

\* What a stamp would say is well formed.
LEMMA DesiredType ==
    ASSUME ProducerTyped, NEW d \in StDevices
    PROVE  Desired(d) \in Contents /\ Desired(d).epoch = epochs.active
BY DEF ProducerTyped, Desired, RoleIn, Sayable, Contents, Wanted

LEMMA StartStampHolds ==
    ASSUME ProducerInv, NEW p \in Producers, NEW d \in StDevices, StartStamp(p, d)
    PROVE  ProducerInv'
<1>1. ProducerTyped BY DEF ProducerInv
<1> DEFINE r == [Off EXCEPT !.at = "admit", !.dev = d, !.want = Desired(d)]
<1>2. Desired(d) \in Contents /\ Desired(d).epoch = epochs.active BY <1>1, DesiredType
<1>3. r \in Producing /\ r.at = "admit" /\ r.dev = d /\ r.want = Desired(d)
  BY <1>2, OffType DEF Producing, Places
<1>4. /\ producer' = [producer EXCEPT ![p] = r] /\ NoInitializer /\ DeviceFree(d)
      /\ UNCHANGED <<epochs, admitted, serials, stamps, roles, artifacts, wanted, issued>>
  BY DEF StartStamp
<1> HIDE DEF r
<1>5. Alone(p) /\ producer'[p] = r BY <1>1, <1>3, <1>4, TurnType
<1>6. ProducerTyped' BY <1>1, <1>4, <1>5 DEF ProducerTyped, Alone
<1>7. LocksHold'
  BY <1>2, <1>3, <1>4, <1>5, LocksKept DEF ProducerInv, RoleSteps, InitSteps
<1>8. Founded(p)' BY <1>3, <1>5 DEF Founded, InitSteps
<1>9. SerialsHold' BY <1>4, <1>5, <1>8, SerialsKept DEF ProducerInv
<1>10. Housed(p)' BY <1>3, <1>5 DEF Housed
<1>11. RolesHold' BY <1>4, <1>5, <1>10, RolesKept DEF ProducerInv
<1>q. QED BY <1>6, <1>7, <1>9, <1>11 DEF ProducerInv

\* A producer that goes on within the lock of its device, outside the role
\* lock, with histories, roles and files at rest.
LEMMA MovedOnHolds ==
    ASSUME ProducerInv, NEW p \in Producers, NEW w \in {"admitted", "ready"}, Moves(p, w),
           producer[p].at \in {"admit", "admitted"},
           serials[producer[p].dev] \in Histories,
           serials[producer[p].dev].epoch = epochs.active,
           admitted' \in Admissions,
           UNCHANGED <<epochs, serials, stamps, roles, artifacts, wanted, issued>>
    PROVE  ProducerInv'
<1>1. ProducerTyped' BY DEF ProducerInv, ProducerTyped, Moves, Alone
<1>2. /\ producer[p].dev \in StDevices /\ producer[p].want \in Contents
      /\ producer[p].want.epoch = epochs.active
  BY DEF ProducerInv, LocksHold, Stamping
<1>3. LocksHold'
  BY <1>2, LocksKept DEF ProducerInv, Moves, RoleSteps, InitSteps
<1>4. Founded(p)' BY DEF Founded, InitSteps, Moves
<1>5. SerialsHold' BY <1>4, SerialsKept DEF ProducerInv, Moves
<1>6. Housed(p)' BY DEF Housed, Moves
<1>7. RolesHold' BY <1>6, RolesKept DEF ProducerInv, Moves
<1>q. QED BY <1>1, <1>3, <1>5, <1>7 DEF ProducerInv

LEMMA AdmitHolds ==
    ASSUME ProducerInv, NEW p \in Producers, Admit(p)
    PROVE  ProducerInv'
<1> DEFINE d == producer[p].dev
<1>1. ProducerTyped BY DEF ProducerInv
<1>2. UNCHANGED <<epochs, stamps, roles, artifacts, wanted, issued>>
  BY DEF Admit
<1>3. /\ producer[p].at \in {"admit", "admitted"} /\ d \in StDevices
      /\ producer[p].want \in Contents /\ producer[p].want.epoch = epochs.active
  BY DEF Admit, At, ProducerInv, LocksHold, Stamping
<1>4. /\ serials[d] \in Histories \cup {NoStamp} /\ admitted \in Admissions
      /\ epochs.active \in Nat
  BY <1>1, <1>3 DEF ProducerTyped
<1>5. "admitted" \in Places /\ "ready" \in Places BY DEF Places
<1>6. CASE Stop(p) /\ UNCHANGED <<admitted, serials>>
  BY <1>1, <1>2, <1>6, StopType, StoppedHolds
<1>7. CASE /\ Move(p, "ready") /\ UNCHANGED <<admitted, serials>>
           /\ serials[d] # NoStamp /\ serials[d].epoch = epochs.active
  BY <1>1, <1>2, <1>3, <1>4, <1>5, <1>7, MoveType, MovedOnHolds
<1>8. CASE /\ admitted' = [admitted EXCEPT !.row[d] = "pending", !.made[d] = producer[p].want.key]
           /\ UNCHANGED <<serials, producer>>
  <2>1. admitted' \in Admissions
    <3>1. producer[p].want.key \in Nat BY <1>3 DEF Contents
    <3>q. QED BY <1>3, <1>4, <1>8, <3>1 DEF Admissions
  <2>2. ProducerTyped' BY <1>1, <1>2, <1>8, <2>1 DEF ProducerTyped
  <2>3. LocksHold' BY <1>2, <1>8 DEF ProducerInv, LocksHold
  <2>4. SerialsHold' BY <1>2, <1>8 DEF ProducerInv, SerialsHold, Founded, Recorded
  <2>5. RolesHold'
    BY <1>2, <1>8 DEF ProducerInv, RolesHold, Housed, Indexed, Ready, StampHasArtifact
  <2>q. QED BY <2>2, <2>3, <2>4, <2>5 DEF ProducerInv
<1>9. CASE /\ serials[d] = NoStamp
           /\ serials' = [serials EXCEPT ![d] = ZeroHistory(epochs.active)]
           /\ Move(p, "admitted") /\ UNCHANGED admitted
  <2> DEFINE zero == ZeroHistory(epochs.active)
  <2>1. zero \in Histories /\ zero.epoch = epochs.active
    BY <1>4 DEF ZeroHistory, Histories
  <2> HIDE DEF zero
  <2>2. /\ serials' \in [StDevices -> Histories \cup {NoStamp}] /\ serials'[d] = zero
        /\ \A e \in StDevices : e # d => serials'[e] = serials[e]
    BY <1>1, <1>3, <1>9, <2>1 DEF ProducerTyped, zero
  <2>3. Moves(p, "admitted") BY <1>1, <1>5, <1>9, MoveType
  <2>4. ProducerTyped' BY <1>1, <1>2, <1>9, <2>2, <2>3 DEF ProducerTyped, Moves, Alone
  <2>5. LocksHold'
    BY <1>2, <1>3, <2>3, LocksKept DEF ProducerInv, Moves, RoleSteps, InitSteps
  <2>6. issued[d] = {} BY <1>3, <1>9 DEF ProducerInv, SerialsHold, Recorded
  <2>7. \A e \in StDevices : Recorded(e)'
    BY <1>2, <2>2, <2>6 DEF ProducerInv, SerialsHold, Recorded
  <2>8. ASSUME NEW q \in Producers PROVE Founded(q)'
    <3>1. CASE q = p
      BY <1>2, <2>1, <2>2, <2>3, <3>1 DEF Founded, Moves, InitSteps
    <3>2. CASE q # p
      <4>1. producer'[q] = producer[q] BY <2>3, <3>2 DEF Moves, Alone
      <4>2. producer[q].at \in Stamping => producer[q].dev \in StDevices /\ producer[q].dev # d
        BY <1>3, <3>2, StamperAssumption DEF ProducerInv, LocksHold
      <4>3. Founded(q) BY DEF ProducerInv, SerialsHold
      <4>q. QED BY <1>2, <2>2, <4>1, <4>2, <4>3 DEF Founded, Stamping
    <3>q. QED BY <3>1, <3>2
  <2>9. SerialsHold' BY <1>2, <2>7, <2>8 DEF ProducerInv, SerialsHold
  <2>10. Housed(p)' BY <2>3 DEF Housed, Moves
  <2>11. RolesHold' BY <1>2, <2>3, <2>10, RolesKept DEF ProducerInv, Moves
  <2>q. QED BY <2>4, <2>5, <2>9, <2>11 DEF ProducerInv
<1>10. CASE /\ Unused(d) /\ Move(p, "admitted") /\ UNCHANGED <<admitted, serials>>
  <2>1. serials[d] \in Histories /\ serials[d].epoch = epochs.active
    BY <1>4, <1>10 DEF Unused, ZeroHistory, Histories
  <2>q. QED BY <1>1, <1>2, <1>3, <1>4, <1>5, <1>10, <2>1, MoveType, MovedOnHolds
<1>11. CASE /\ producer[p].at = "admitted"
            /\ admitted' = [admitted EXCEPT !.row[d] = "active"]
            /\ Move(p, "ready") /\ UNCHANGED serials
  <2>1. admitted' \in Admissions BY <1>3, <1>4, <1>11 DEF Admissions
  <2>2. serials[d] \in Histories /\ serials[d].epoch = epochs.active
    BY <1>11 DEF ProducerInv, SerialsHold, Founded, Stamping
  <2>q. QED BY <1>1, <1>2, <1>3, <1>5, <1>11, <2>1, <2>2, MoveType, MovedOnHolds
<1>q. QED BY <1>6, <1>7, <1>8, <1>9, <1>10, <1>11 DEF Admit, At


\* A producer outside the role lock relies on no role.
LEMMA Unhoused ==
    ASSUME NEW q \in Producers, producer'[q].at \notin RoleSteps
    PROVE  Housed(q)'
BY DEF Housed, RoleSteps

\* reconcile_roles keeps the index, and every active generation with its file.
LEMMA Reconciled ==
    ASSUME ProducerTyped, roles' = ReconciledRoles, artifacts' = ReconciledFiles
    PROVE  /\ roles' \in [Generations -> Entries]
           /\ artifacts' \in [Generations -> SUBSET {"pending", "final"}]
           /\ Indexed' = Indexed
           /\ \A g \in Generations :
                /\ Ready(g) => Ready(g)'
                /\ roles'[g].state \in {"none", "active"}
                /\ roles'[g].state = "none" <=> roles[g].state = "none"
<1> DEFINE new == [state |-> "active", age |-> "used"]
<1>1. new \in Entries /\ new.state = "active" BY DEF Entries
<1>2. \A g \in Generations : roles[g] \in Entries BY DEF ProducerTyped
<1> HIDE DEF new
<1>3. \A g \in Generations :
        /\ roles'[g] = IF roles[g].state = "pending" THEN new ELSE roles[g]
        /\ artifacts'[g] = IF roles[g].state = "pending" THEN {"final"} ELSE artifacts[g]
  BY DEF ReconciledRoles, ReconciledFiles, PendingSet, new
<1>4. /\ roles' \in [Generations -> Entries]
      /\ artifacts' \in [Generations -> SUBSET {"pending", "final"}]
  BY <1>1, <1>2 DEF ReconciledRoles, ReconciledFiles, PendingSet, ProducerTyped, new
<1>5. \A g \in Generations :
        /\ Ready(g) => Ready(g)'
        /\ roles'[g].state \in {"none", "active"}
        /\ roles'[g].state = "none" <=> roles[g].state = "none"
  BY <1>1, <1>2, <1>3 DEF Ready, Entries
<1>6. Indexed' = Indexed BY <1>5 DEF Indexed
<1>q. QED BY <1>4, <1>5, <1>6

LEMMA ReconcileHolds ==
    ASSUME ProducerTyped, RolesHold, NEW p \in Producers, Alone(p), RoleFree,
           roles' = ReconciledRoles, artifacts' = ReconciledFiles, stamps' = stamps,
           Housed(p)'
    PROVE  RolesHold'
<1>1. /\ Indexed' = Indexed /\ \A g \in Generations : Ready(g) => Ready(g)'
  BY Reconciled
<1>2. ASSUME NEW q \in Producers PROVE Housed(q)'
  <2>1. CASE q # p
    BY <2>1, Unhoused DEF RoleFree, Alone
  <2>q. QED BY <2>1
<1>3. StampHasArtifact'
  <2>1. ASSUME NEW d \in StDevices, stamps'[d] # NoStamp
        PROVE  roles'[stamps'[d].gen].state = "active" /\ "final" \in artifacts'[stamps'[d].gen]
    <3>1. stamps[d] \in StampSet BY <2>1 DEF ProducerTyped
    <3>2. stamps[d].gen \in Generations BY <3>1 DEF StampSet
    <3>3. Ready(stamps[d].gen) BY <2>1 DEF RolesHold, StampHasArtifact, Ready
    <3>4. PICK g \in Generations : g = stamps[d].gen BY <3>2
    <3>5. Ready(g)' BY <1>1, <3>3, <3>4
    <3>q. QED BY <3>4, <3>5 DEF Ready
  <2>q. QED BY <2>1 DEF StampHasArtifact
<1>4. Cardinality(Indexed') <= MaxGenerations BY <1>1 DEF RolesHold
<1>q. QED BY <1>2, <1>3, <1>4 DEF RolesHold

LEMMA CompareHolds ==
    ASSUME ProducerInv, NEW p \in Producers, Compare(p)
    PROVE  ProducerInv'
<1> DEFINE d == producer[p].dev
           old == stamps[d]
           want == [producer[p].want EXCEPT !.gen = RoleIn(producer[p].want.epoch),
                                            !.part = wanted.part[d]]
<1>1. ProducerTyped BY DEF ProducerInv
<1>2. /\ producer[p].at = "ready" /\ RoleFree
      /\ roles' = ReconciledRoles /\ artifacts' = ReconciledFiles
      /\ UNCHANGED <<epochs, admitted, stamps, wanted, issued>>
  BY DEF Compare, At
<1>3. /\ d \in StDevices
      /\ producer[p].want \in Contents /\ producer[p].want.epoch = epochs.active
      /\ producer[p] \in Producing
  BY <1>1, <1>2 DEF ProducerInv, LocksHold, Stamping, ProducerTyped
<1>4. /\ serials[d] \in Histories /\ serials[d].epoch = epochs.active
  BY <1>2 DEF ProducerInv, SerialsHold, Founded, Stamping
<1>5. /\ roles' \in [Generations -> Entries]
      /\ artifacts' \in [Generations -> SUBSET {"pending", "final"}]
      /\ Indexed' = Indexed
      /\ \A g \in Generations :
           /\ Ready(g) => Ready(g)'
           /\ roles'[g].state \in {"none", "active"}
           /\ roles'[g].state = "none" <=> roles[g].state = "none"
  BY <1>1, <1>2, Reconciled
<1>6. CASE /\ Stop(p)
           /\ serials' \in {serials, [serials EXCEPT ![d].reserved = NoStamp]}
  <2>1. Stops(p) BY <1>1, <1>6, StopType
  <2>2. producer'[p].at = "off" /\ producer'[p].dev = NoStamp BY <2>1, OffType DEF Stops
  <2>3. /\ serials' \in [StDevices -> Histories \cup {NoStamp}]
        /\ \A e \in StDevices : e # d => serials'[e] = serials[e]
        /\ serials'[d] # NoStamp /\ serials'[d].epoch = serials[d].epoch
        /\ serials'[d].high = serials[d].high
        /\ serials'[d].reserved \in {NoStamp, serials[d].reserved}
    <3> DEFINE row == [serials[d] EXCEPT !.reserved = NoStamp]
    <3>1. row \in Histories /\ row.epoch = serials[d].epoch /\ row.high = serials[d].high
          /\ row.reserved = NoStamp
      BY <1>4 DEF Histories
    <3>2. serials' = serials \/ serials' = [serials EXCEPT ![d] = row] BY <1>6
    <3> HIDE DEF row
    <3>q. QED BY <1>1, <1>3, <1>4, <3>1, <3>2, StamperAssumption DEF ProducerTyped
  <2>4. ProducerTyped' BY <1>1, <1>2, <1>5, <2>1, <2>3 DEF ProducerTyped, Stops, Alone
  <2>5. LocksHold'
    BY <1>2, <2>1, <2>2, LocksKept DEF ProducerInv, Stops, RoleSteps, InitSteps, Stamping
  <2>6. \A e \in StDevices : Recorded(e)'
    BY <1>2, <1>3, <1>4, <2>3, StamperAssumption DEF ProducerInv, SerialsHold, Recorded
  <2>7. ASSUME NEW q \in Producers PROVE Founded(q)'
    <3>1. CASE q = p
      BY <2>2, <3>1 DEF Founded, InitSteps, Stamping
    <3>2. CASE q # p
      <4>1. producer'[q] = producer[q] BY <2>1, <3>2 DEF Stops, Alone
      <4>2. producer[q].at \in Stamping => producer[q].dev \in StDevices /\ producer[q].dev # d
        BY <1>3, <3>2, StamperAssumption DEF ProducerInv, LocksHold
      <4>3. Founded(q) BY DEF ProducerInv, SerialsHold
      <4>q. QED BY <1>2, <2>3, <4>1, <4>2, <4>3 DEF Founded, Stamping
    <3>q. QED BY <3>1, <3>2
  <2>8. SerialsHold' BY <1>2, <2>6, <2>7 DEF ProducerInv, SerialsHold
  <2>9. Housed(p)' BY <2>2 DEF Housed
  <2>10. RolesHold' BY <1>1, <1>2, <2>1, <2>9, ReconcileHolds DEF ProducerInv, Stops
  <2>q. QED BY <2>4, <2>5, <2>8, <2>10 DEF ProducerInv
<1>7. ASSUME NEW w \in {"reserve", "file"},
             producer' = [producer EXCEPT ![p].at = w, ![p].want = want], serials' = serials,
             w = "reserve" => Usable(want.gen),
             w = "file" => ReconciledRoles[want.gen].state # "active" /\ ~IndexFull
      PROVE  ProducerInv'
  <2>1. want \in Contents /\ want.epoch = epochs.active /\ want.gen \in Generations
    BY <1>1, <1>3 DEF Contents, ProducerTyped, Wanted, RoleIn, Sayable
  <2> HIDE DEF want
  <2> DEFINE r == [producer[p] EXCEPT !.at = w, !.want = want]
  <2>2. r \in Producing /\ r.at = w /\ r.want = want /\ r.dev = d
    BY <1>3, <2>1 DEF Producing, Places, RoleSteps
  <2>3. producer' = [producer EXCEPT ![p] = r] BY <1>3, <1>7, <1>1 DEF ProducerTyped
  <2> HIDE DEF r
  <2>4. Alone(p) /\ producer'[p] = r BY <1>1, <2>2, <2>3, TurnType
  <2>5. ProducerTyped' BY <1>1, <1>2, <1>5, <1>7, <2>4 DEF ProducerTyped, Alone
  <2>6. LocksHold'
    BY <1>2, <1>3, <2>1, <2>2, <2>4, LocksKept DEF ProducerInv, InitSteps
  <2>7. Founded(p)' BY <1>2, <1>4, <1>7, <2>2, <2>4 DEF Founded, InitSteps
  <2>8. SerialsHold' BY <1>2, <1>7, <2>4, <2>7, SerialsKept DEF ProducerInv
  <2>9. Housed(p)'
    <3>1. CASE w = "reserve"
      <4>1. roles'[want.gen].state = "active" /\ "final" \in artifacts'[want.gen]
        BY <1>2, <1>7, <3>1 DEF Usable
      <4>q. QED BY <2>2, <2>4, <3>1, <4>1 DEF Housed, Ready
    <3>2. CASE w = "file"
      <4>1. roles'[want.gen].state = "none"
        BY <1>2, <1>5, <1>7, <2>1, <3>2
      <4>2. Cardinality(Indexed') < MaxGenerations
        <5>1. IsFiniteSet(Indexed)
          BY StamperAssumption, FS_Subset DEF Indexed
        <5>2. Cardinality(Indexed) \in Nat BY <5>1, FS_CardinalityType
        <5>q. QED BY <1>5, <1>7, <3>2, <5>2, StamperAssumption DEF IndexFull
      <4>q. QED BY <2>2, <2>4, <3>2, <4>1, <4>2 DEF Housed
    <3>q. QED BY <3>1, <3>2
  <2>10. RolesHold' BY <1>1, <1>2, <2>4, <2>9, ReconcileHolds DEF ProducerInv
  <2>q. QED BY <2>5, <2>6, <2>8, <2>10 DEF ProducerInv
<1>q. QED
  <2>1. \/ /\ Stop(p)
           /\ serials' \in {serials, [serials EXCEPT ![d].reserved = NoStamp]}
        \/ /\ producer' = [producer EXCEPT ![p].at = "reserve", ![p].want = want]
           /\ serials' = serials /\ Usable(want.gen)
        \/ /\ producer' = [producer EXCEPT ![p].at = "file", ![p].want = want]
           /\ serials' = serials /\ ReconciledRoles[want.gen].state # "active" /\ ~IndexFull
    BY DEF Compare
  <2> HIDE DEF d, want
  <2>q. QED BY <1>6, <1>7, <2>1

LEMMA PublishHolds ==
    ASSUME ProducerInv, NEW p \in Producers, Publish(p)
    PROVE  ProducerInv'
<1> DEFINE g == producer[p].want.gen
<1>1. ProducerTyped BY DEF ProducerInv
<1>2. UNCHANGED <<epochs, admitted, serials, stamps, wanted, issued>>
  BY DEF Publish
<1>3. producer[p].at \in {"file", "index", "rename", "activate"}
  BY DEF Publish, At
<1>4. /\ producer[p].dev \in StDevices
      /\ producer[p].want \in Contents /\ producer[p].want.epoch = epochs.active
  BY <1>3 DEF ProducerInv, LocksHold, Stamping
<1>5. g \in Generations BY <1>4 DEF Contents
<1>6. PICK w \in {"index", "rename", "activate", "reserve"} :
        /\ Move(p, w)
        /\ \/ producer[p].at = "file" /\ w = "index" /\ roles' = roles
              /\ artifacts' = [artifacts EXCEPT ![g] = IF @ = {} THEN {"pending"} ELSE @]
           \/ producer[p].at = "index" /\ w = "rename" /\ artifacts' = artifacts
              /\ roles' = [roles EXCEPT ![g] = [state |-> "pending", age |-> "used"]]
           \/ producer[p].at = "rename" /\ w = "activate" /\ roles' = roles
              /\ artifacts' = [artifacts EXCEPT ![g] = {"final"}]
           \/ producer[p].at = "activate" /\ w = "reserve" /\ artifacts' = artifacts
              /\ roles' = [roles EXCEPT ![g].state = "active"]
  BY DEF Publish, At
<1>7. Moves(p, w)
  <2>1. w \in Places BY DEF Places, RoleSteps
  <2>q. QED BY <1>1, <1>6, <2>1, MoveType
<1>8. /\ artifacts' \in [Generations -> SUBSET {"pending", "final"}]
      /\ \A h \in Generations : "final" \in artifacts[h] => "final" \in artifacts'[h]
  BY <1>1, <1>5, <1>6 DEF ProducerTyped
<1>9. roles' \in [Generations -> Entries]
  <2>1. roles[g] \in Entries BY <1>1, <1>5 DEF ProducerTyped
  <2>2. [state |-> "pending", age |-> "used"] \in Entries BY DEF Entries
  <2>3. [roles[g] EXCEPT !.state = "active"] \in Entries BY <2>1 DEF Entries
  <2>q. QED BY <1>1, <1>5, <1>6, <2>2, <2>3 DEF ProducerTyped
<1>10. /\ producer[p].at # "index" => \A h \in Generations :
             roles[h].state = "active" => roles'[h].state = "active"
       /\ producer[p].at = "index" => \A h \in Generations : h # g => roles'[h] = roles[h]
       /\ producer[p].at = "index" => roles'[g].state = "pending"
       /\ producer[p].at = "activate" => roles'[g].state = "active"
       /\ producer[p].at # "index" /\ producer[p].at # "activate" => roles' = roles
       /\ producer[p].at = "activate" => \A h \in Generations : h # g => roles'[h] = roles[h]
  <2>1. roles[g] \in Entries BY <1>1, <1>5 DEF ProducerTyped
  <2>2. [roles[g] EXCEPT !.state = "active"].state = "active" BY <2>1 DEF Entries
  <2>3. roles \in [Generations -> Entries] BY <1>1 DEF ProducerTyped
  <2>4. CASE producer[p].at = "index"
    BY <1>5, <1>6, <2>3, <2>4
  <2>5. CASE producer[p].at = "activate"
    <3>1. roles' = [roles EXCEPT ![g] = [roles[g] EXCEPT !.state = "active"]] BY <1>6, <2>5
    <3>2. /\ roles'[g].state = "active"
          /\ \A h \in Generations : h # g => roles'[h] = roles[h]
      BY <1>5, <2>2, <2>3, <3>1
    <3>q. QED BY <2>5, <3>2
  <2>6. CASE producer[p].at \in {"file", "rename"}
    BY <1>6, <2>6
  <2>q. QED BY <1>3, <2>4, <2>5, <2>6
<1>11. ProducerTyped'
  BY <1>1, <1>2, <1>7, <1>8, <1>9 DEF ProducerTyped, Moves, Alone
<1>12. LocksHold'
  BY <1>2, <1>3, <1>4, <1>7, LocksKept DEF ProducerInv, Moves, RoleSteps, InitSteps
<1>13. Founded(p)'
  BY <1>2, <1>3, <1>6, <1>7 DEF ProducerInv, SerialsHold, Founded, Moves, InitSteps, Stamping
<1>14. SerialsHold' BY <1>2, <1>7, <1>13, SerialsKept DEF ProducerInv, Moves
<1>15. Housed(p) BY DEF ProducerInv, RolesHold
<1>16. IsFiniteSet(Indexed) /\ Cardinality(Indexed) \in Nat
  <2>1. IsFiniteSet(Indexed) BY StamperAssumption, FS_Subset DEF Indexed
  <2>q. QED BY <2>1, FS_CardinalityType
<1>17. Cardinality(Indexed') <= MaxGenerations
       /\ (w = "index" => roles'[g].state = "none" /\ Cardinality(Indexed') < MaxGenerations)
  <2>1. CASE producer[p].at = "index"
    <3>1. Indexed' = Indexed \cup {g} BY <1>5, <1>10, <2>1 DEF Indexed
    <3>2. Cardinality(Indexed) < MaxGenerations BY <1>15, <2>1 DEF Housed
    <3>3. Cardinality(Indexed \cup {g}) \in {Cardinality(Indexed), Cardinality(Indexed) + 1}
      BY <1>16, FS_AddElement
    <3>q. QED BY <1>6, <1>16, <2>1, <3>1, <3>2, <3>3, StamperAssumption
  <2>2. CASE producer[p].at = "activate"
    <3>1. roles[g].state = "pending" BY <1>15, <2>2 DEF Housed
    <3>2. Indexed' = Indexed BY <1>5, <1>10, <2>2, <3>1 DEF Indexed
    <3>q. QED BY <1>6, <2>2, <3>2 DEF ProducerInv, RolesHold
  <2>3. CASE producer[p].at \in {"file", "rename"}
    <3>1. Indexed' = Indexed BY <1>10, <2>3 DEF Indexed
    <3>2. producer[p].at = "file"
             => roles[g].state = "none" /\ Cardinality(Indexed) < MaxGenerations
      BY <1>15 DEF Housed
    <3>q. QED BY <1>6, <1>10, <2>3, <3>1, <3>2 DEF ProducerInv, RolesHold
  <2>q. QED BY <1>3, <2>1, <2>2, <2>3
<1>18. Housed(p)'
  <2>1. producer'[p].at = w /\ producer'[p].want = producer[p].want
    BY <1>7 DEF Moves
  <2>2. w = "rename" => roles'[g].state = "pending" BY <1>6, <1>10
  <2>3. w = "activate" => roles'[g].state = "pending" /\ "final" \in artifacts'[g]
    <3>1. w = "activate" => roles[g].state = "pending" BY <1>6, <1>15 DEF Housed
    <3>q. QED BY <1>1, <1>5, <1>6, <1>10, <3>1 DEF ProducerTyped
  <2>4. w = "reserve" => roles'[g].state = "active" /\ "final" \in artifacts'[g]
    <3>1. w = "reserve" => "final" \in artifacts[g] BY <1>6, <1>15 DEF Housed
    <3>q. QED BY <1>5, <1>6, <1>8, <1>10, <3>1
  <2>q. QED BY <1>17, <2>1, <2>2, <2>3, <2>4 DEF Housed, Ready
<1>19. ASSUME NEW q \in Producers PROVE Housed(q)'
  <2>1. CASE q # p
    <3>1. producer'[q].at \notin RoleSteps
      BY <1>3, <1>7, <2>1 DEF ProducerInv, LocksHold, Moves, Alone, RoleSteps
    <3>q. QED BY <3>1, Unhoused
  <2>q. QED BY <1>18, <2>1
<1>20. StampHasArtifact'
  <2>1. ASSUME NEW d \in StDevices, stamps'[d] # NoStamp
        PROVE  roles'[stamps'[d].gen].state = "active" /\ "final" \in artifacts'[stamps'[d].gen]
    <3>1. stamps[d] \in StampSet BY <1>1, <1>2, <2>1 DEF ProducerTyped
    <3>2. PICK h \in Generations : h = stamps[d].gen BY <3>1 DEF StampSet
    <3>3. roles[h].state = "active" /\ "final" \in artifacts[h]
      BY <1>2, <2>1, <3>2 DEF ProducerInv, RolesHold, StampHasArtifact
    <3>4. producer[p].at = "index" => h # g
      BY <1>15, <3>3 DEF Housed
    <3>5. roles'[h].state = "active" BY <1>10, <3>3, <3>4
    <3>q. QED BY <1>2, <1>8, <3>2, <3>3, <3>5
  <2>q. QED BY <2>1 DEF StampHasArtifact
<1>21. RolesHold' BY <1>17, <1>19, <1>20 DEF RolesHold
<1>q. QED BY <1>11, <1>12, <1>14, <1>21 DEF ProducerInv


\* The lock of a device: its history changes under no other producer.
LEMMA OthersFounded ==
    ASSUME ProducerInv, NEW p \in Producers, Alone(p), epochs' = epochs,
           producer[p].dev \in StDevices,
           \A e \in StDevices : e # producer[p].dev => serials'[e] = serials[e],
           NEW q \in Producers, q # p
    PROVE  Founded(q)'
<1>1. producer'[q] = producer[q] BY DEF Alone
<1>2. producer[q].at \in Stamping
         => producer[q].dev \in StDevices /\ producer[q].dev # producer[p].dev
  BY StamperAssumption DEF ProducerInv, LocksHold
<1>3. Founded(q) BY DEF ProducerInv, SerialsHold
<1>q. QED BY <1>1, <1>2, <1>3 DEF Founded, Stamping

LEMMA ReserveHolds ==
    ASSUME ProducerInv, NEW p \in Producers, Reserve(p)
    PROVE  ProducerInv'
<1> DEFINE d == producer[p].dev
           want == producer[p].want
           n == NextSerial(serials[d], want)
           row == [epoch |-> serials[d].epoch, high |-> n, reserved |-> want]
           r == [producer[p] EXCEPT !.at = "commit", !.serial = n]
<1>1. ProducerTyped BY DEF ProducerInv
<1>2. producer[p].at = "reserve" /\ UNCHANGED <<epochs, admitted, stamps, roles, artifacts, wanted, issued>>
  BY DEF Reserve, At
<1>3. /\ d \in StDevices /\ want \in Contents /\ want.epoch = epochs.active
      /\ producer[p] \in Producing
  BY <1>1, <1>2 DEF ProducerInv, LocksHold, Stamping, ProducerTyped
<1>4. serials[d] \in Histories /\ serials[d].epoch = epochs.active
  BY <1>2 DEF ProducerInv, SerialsHold, Founded, Stamping
<1>5. /\ n \in Nat /\ serials[d].high \in Nat
      /\ \/ n = serials[d].high /\ serials[d].reserved = want
         \/ n = serials[d].high + 1
  BY <1>4 DEF Histories, NextSerial
<1>6. row \in Histories /\ row.epoch = epochs.active /\ row.high = n /\ row.reserved = want
  BY <1>3, <1>4, <1>5 DEF Histories
<1>7. r \in Producing /\ r.at = "commit" /\ r.serial = n /\ r.dev = d /\ r.want = want
  BY <1>3, <1>5 DEF Producing, Places, RoleSteps
<1>8. serials' = [serials EXCEPT ![d] = row] /\ producer' = [producer EXCEPT ![p] = r]
  BY <1>1, <1>3 DEF Reserve, ProducerTyped
<1> HIDE DEF n, row, r
<1>9. Alone(p) /\ producer'[p] = r BY <1>1, <1>7, <1>8, TurnType
<1>10. /\ serials' \in [StDevices -> Histories \cup {NoStamp}] /\ serials'[d] = row
       /\ \A e \in StDevices : e # d => serials'[e] = serials[e]
  BY <1>1, <1>3, <1>6, <1>8 DEF ProducerTyped
<1>11. ProducerTyped' BY <1>1, <1>2, <1>9, <1>10 DEF ProducerTyped, Alone
<1>12. LocksHold'
  BY <1>2, <1>3, <1>7, <1>9, LocksKept DEF ProducerInv, RoleSteps, InitSteps
<1>13. ASSUME NEW e \in StDevices, e = d PROVE Recorded(e)'
  <2>1. Recorded(d) BY <1>3 DEF ProducerInv, SerialsHold
  <2>2. serials[d] # NoStamp /\ row # NoStamp BY <1>4, <1>6, StamperAssumption
  <2>3. ASSUME NEW i \in issued[d]
        PROVE  /\ i.epoch <= epochs.active
               /\ i.epoch = row.epoch =>
                    /\ i.serial <= row.high
                    /\ i.serial = row.high => row.reserved \in {NoStamp, Content(i)}
    <3>1. i \in StampSet BY <1>1, <1>3 DEF ProducerTyped
    <3>2. i.serial \in Nat BY <3>1 DEF StampSet
    <3>3. /\ i.epoch <= epochs.active
          /\ i.epoch = serials[d].epoch =>
                /\ i.serial <= serials[d].high
                /\ i.serial = serials[d].high
                      => serials[d].reserved \in {NoStamp, Content(i)}
      BY <2>1, <2>2 DEF Recorded
    <3>4. want # NoStamp BY <1>3, StamperAssumption
    <3>q. QED BY <1>4, <1>5, <1>6, <3>2, <3>3, <3>4
  <2>q. QED BY <1>2, <1>10, <1>13, <2>2, <2>3 DEF Recorded
<1>14. \A e \in StDevices : Recorded(e)'
  <2>1. ASSUME NEW e \in StDevices, e # d PROVE Recorded(e)'
    BY <1>2, <1>10, <2>1 DEF ProducerInv, SerialsHold, Recorded
  <2>q. QED BY <1>13, <2>1
<1>15. Founded(p)'
  BY <1>2, <1>6, <1>7, <1>9, <1>10 DEF Founded, InitSteps
<1>16. \A q \in Producers : Founded(q)'
  BY <1>2, <1>3, <1>9, <1>10, <1>15, OthersFounded
<1>17. SerialsHold' BY <1>2, <1>14, <1>16 DEF ProducerInv, SerialsHold
<1>18. Housed(p)'
  <2>1. Ready(want.gen) BY <1>2 DEF ProducerInv, RolesHold, Housed
  <2>q. QED BY <1>2, <1>7, <1>9, <2>1 DEF Housed, Ready
<1>19. RolesHold' BY <1>2, <1>9, <1>18, RolesKept DEF ProducerInv
<1>q. QED BY <1>11, <1>12, <1>17, <1>19 DEF ProducerInv

\* The stamp a producer commits is well formed and says what it wants.
LEMMA StampType ==
    ASSUME ProducerTyped, NEW p \in Producers, producer[p].want \in Contents
    PROVE  /\ StampOf(p) \in StampSet /\ Content(StampOf(p)) = producer[p].want
           /\ StampOf(p).epoch = producer[p].want.epoch /\ StampOf(p).gen = producer[p].want.gen
           /\ StampOf(p).serial = producer[p].serial
<1>1. producer[p].serial \in Nat BY DEF ProducerTyped, Producing
<1>q. QED BY <1>1 DEF StampOf, StampSet, Contents, Content

\* The only step that issues a stamp: above all earlier ones of the device.
LEMMA CommitHolds ==
    ASSUME ProducerInv, NEW p \in Producers, Commit(p)
    PROVE  ProducerInv' /\ StampsOnlyAdvance
<1> DEFINE d == producer[p].dev
           want == producer[p].want
           st == StampOf(p)
<1>1. ProducerTyped BY DEF ProducerInv
<1>2. producer[p].at = "commit" /\ UNCHANGED <<epochs, admitted, serials, roles, artifacts, wanted>>
  BY DEF Commit, At
<1>3. /\ d \in StDevices /\ want \in Contents /\ want.epoch = epochs.active
  BY <1>2 DEF ProducerInv, LocksHold, Stamping
<1>4. /\ serials[d] \in Histories /\ serials[d].epoch = epochs.active
      /\ serials[d].high = producer[p].serial /\ serials[d].reserved = want
  BY <1>2 DEF ProducerInv, SerialsHold, Founded, Stamping
<1>5. CASE Stop(p) /\ UNCHANGED <<stamps, issued>>
  <2>1. ProducerInv' BY <1>1, <1>2, <1>5, StopType, StoppedHolds
  <2>q. QED BY <1>5, <2>1 DEF StampsOnlyAdvance
<1>6. CASE /\ stamps' = [stamps EXCEPT ![d] = st]
           /\ issued' = [issued EXCEPT ![d] = @ \cup {st}]
           /\ Move(p, "confirm")
  <2>1. /\ st \in StampSet /\ Content(st) = want /\ st.epoch = epochs.active
        /\ st.gen = want.gen /\ st.serial = serials[d].high
    BY <1>1, <1>3, <1>4, StampType
  <2> HIDE DEF st
  <2>2. Moves(p, "confirm")
    <3>1. "confirm" \in Places BY DEF Places
    <3>q. QED BY <1>1, <1>6, <3>1, MoveType
  <2>3. /\ stamps' \in [StDevices -> StampSet \cup {NoStamp}] /\ stamps'[d] = st
        /\ \A e \in StDevices : e # d => stamps'[e] = stamps[e]
    BY <1>1, <1>3, <1>6, <2>1 DEF ProducerTyped
  <2>4. /\ issued' \in [StDevices -> SUBSET StampSet] /\ issued'[d] = issued[d] \cup {st}
        /\ \A e \in StDevices : e # d => issued'[e] = issued[e]
    BY <1>1, <1>3, <1>6, <2>1 DEF ProducerTyped
  <2>5. ProducerTyped' BY <1>1, <1>2, <2>2, <2>3, <2>4 DEF ProducerTyped, Moves, Alone
  <2>6. LocksHold'
    BY <1>2, <1>3, <2>2, LocksKept DEF ProducerInv, Moves, RoleSteps, InitSteps
  <2>7. Recorded(d) BY <1>3 DEF ProducerInv, SerialsHold
  <2>8. serials[d] # NoStamp BY <1>4, StamperAssumption
  <2>9. ASSUME NEW e \in StDevices, e = d PROVE Recorded(e)'
    <3>1. /\ epochs.active \in Nat /\ serials[d].high \in Nat
      BY <1>1, <1>4 DEF ProducerTyped, Histories
    <3>2. ASSUME NEW i \in issued'[d]
          PROVE  /\ i.epoch <= epochs.active
                 /\ i.epoch = serials[d].epoch =>
                      /\ i.serial <= serials[d].high
                      /\ i.serial = serials[d].high
                            => serials[d].reserved \in {NoStamp, Content(i)}
      <4>1. CASE i \in issued[d] BY <2>7, <2>8, <4>1 DEF Recorded
      <4>2. CASE i = st BY <1>4, <2>1, <3>1, <4>2
      <4>q. QED BY <2>4, <4>1, <4>2
    <3>q. QED BY <1>2, <2>8, <2>9, <3>2 DEF Recorded
  <2>10. \A e \in StDevices : Recorded(e)'
    <3>1. ASSUME NEW e \in StDevices, e # d PROVE Recorded(e)'
      BY <1>2, <2>4, <3>1 DEF ProducerInv, SerialsHold, Recorded
    <3>q. QED BY <2>9, <3>1
  <2>11. Founded(p)'
    BY <1>2, <1>4, <2>2 DEF Founded, Moves, InitSteps
  <2>12. \A q \in Producers : Founded(q)'
    BY <1>2, <1>3, <2>2, <2>11, OthersFounded DEF Moves
  <2>13. SerialsHold' BY <1>2, <2>10, <2>12 DEF ProducerInv, SerialsHold
  <2>14. ASSUME NEW q \in Producers PROVE Housed(q)'
    <3>1. producer'[q].at \notin RoleSteps
      BY <1>2, <2>2 DEF ProducerInv, LocksHold, Moves, Alone, RoleSteps
    <3>q. QED BY <3>1, Unhoused
  <2>15. StampHasArtifact'
    <3>1. Ready(want.gen) BY <1>2 DEF ProducerInv, RolesHold, Housed
    <3>q. QED BY <1>2, <2>1, <2>3, <3>1 DEF ProducerInv, RolesHold, StampHasArtifact, Ready
  <2>16. RolesHold'
    <3>1. Indexed' = Indexed BY <1>2 DEF Indexed
    <3>q. QED BY <2>14, <2>15, <3>1 DEF ProducerInv, RolesHold
  <2>17. StampsOnlyAdvance
    <3>1. ASSUME NEW old \in issued[d], st \notin issued[d] PROVE Newer(st, old)
      <4>1. old \in StampSet BY <1>1, <1>3 DEF ProducerTyped
      <4>2. /\ old.epoch <= epochs.active
            /\ old.epoch = serials[d].epoch =>
                 /\ old.serial <= serials[d].high
                 /\ old.serial = serials[d].high => serials[d].reserved \in {NoStamp, Content(old)}
        BY <2>7, <2>8 DEF Recorded
      <4>3. old.epoch \in Nat /\ old.serial \in Nat /\ epochs.active \in Nat
            /\ serials[d].high \in Nat
        BY <1>1, <1>4, <4>1 DEF StampSet, ProducerTyped, Histories
      <4>4. CASE old.epoch = epochs.active /\ old.serial = serials[d].high
        <5>1. want # NoStamp BY <1>3, StamperAssumption
        <5>2. Content(old) = Content(st) BY <1>4, <2>1, <4>2, <4>4, <5>1
        <5>3. /\ old.epoch = st.epoch /\ old.gen = st.gen /\ old.part = st.part
              /\ old.key = st.key /\ old.serial = st.serial
          BY <2>1, <4>4, <5>2 DEF Content
        <5>4. old = st BY <2>1, <4>1, <5>3 DEF StampSet
        <5>q. QED BY <3>1, <5>4
      <4>5. CASE ~(old.epoch = epochs.active /\ old.serial = serials[d].high)
        BY <1>4, <2>1, <4>2, <4>3, <4>5 DEF Newer
      <4>q. QED BY <4>4, <4>5
    <3>q. QED BY <1>3, <2>4, <3>1 DEF StampsOnlyAdvance
  <2>q. QED BY <2>5, <2>6, <2>13, <2>16, <2>17 DEF ProducerInv
<1>q. QED BY <1>5, <1>6 DEF Commit

LEMMA ConfirmHolds ==
    ASSUME ProducerInv, NEW p \in Producers, Confirm(p)
    PROVE  ProducerInv'
<1> DEFINE d == producer[p].dev
<1>1. ProducerTyped BY DEF ProducerInv
<1>2. /\ producer[p].at = "confirm" /\ Stop(p)
      /\ UNCHANGED <<epochs, admitted, roles, artifacts, wanted, issued>>
  BY DEF Confirm, At
<1>3. Stops(p) BY <1>1, <1>2, StopType
<1>4. producer'[p].at = "off" /\ producer'[p].dev = NoStamp BY <1>3, OffType DEF Stops
<1>5. d \in StDevices
  BY <1>2 DEF ProducerInv, LocksHold, Stamping
<1>6. serials[d] \in Histories
  BY <1>2 DEF ProducerInv, SerialsHold, Founded, Stamping
<1>7. LocksHold'
  BY <1>2, <1>3, <1>4, LocksKept DEF ProducerInv, Stops, RoleSteps, InitSteps, Stamping
<1>8. Founded(p)' BY <1>4 DEF Founded, InitSteps, Stamping
<1>9. Housed(p)' BY <1>4 DEF Housed
<1>10. CASE serials' = [serials EXCEPT ![d].reserved = NoStamp] /\ UNCHANGED stamps
  <2> DEFINE row == [serials[d] EXCEPT !.reserved = NoStamp]
  <2>1. row \in Histories /\ row.epoch = serials[d].epoch /\ row.high = serials[d].high
        /\ row.reserved = NoStamp
    BY <1>6 DEF Histories
  <2>2. serials' = [serials EXCEPT ![d] = row] BY <1>10
  <2> HIDE DEF row
  <2>3. /\ serials' \in [StDevices -> Histories \cup {NoStamp}] /\ serials'[d] = row
        /\ \A e \in StDevices : e # d => serials'[e] = serials[e]
    BY <1>1, <1>5, <2>1, <2>2 DEF ProducerTyped
  <2>4. ProducerTyped' BY <1>1, <1>2, <1>3, <1>10, <2>3 DEF ProducerTyped, Stops, Alone
  <2>5. \A e \in StDevices : Recorded(e)'
    BY <1>2, <1>5, <1>6, <2>1, <2>3, StamperAssumption DEF ProducerInv, SerialsHold, Recorded
  <2>6. \A q \in Producers : Founded(q)'
    BY <1>2, <1>3, <1>5, <1>8, <2>3, OthersFounded DEF Stops
  <2>7. SerialsHold' BY <1>2, <2>5, <2>6 DEF ProducerInv, SerialsHold
  <2>8. RolesHold' BY <1>2, <1>3, <1>9, <1>10, RolesKept DEF ProducerInv, Stops
  <2>q. QED BY <1>7, <2>4, <2>7, <2>8 DEF ProducerInv
<1>11. CASE /\ stamps' = [stamps EXCEPT ![d] = IF @ = StampOf(p) THEN NoStamp ELSE @]
            /\ UNCHANGED serials
  <2>1. /\ stamps' \in [StDevices -> StampSet \cup {NoStamp}]
        /\ \A e \in StDevices : stamps'[e] \in {stamps[e], NoStamp}
    BY <1>1, <1>5, <1>11 DEF ProducerTyped
  <2>2. ProducerTyped' BY <1>1, <1>2, <1>3, <1>11, <2>1 DEF ProducerTyped, Stops, Alone
  <2>3. SerialsHold' BY <1>2, <1>3, <1>8, <1>11, SerialsKept DEF ProducerInv, Stops
  <2>4. RolesHold' BY <1>2, <1>3, <1>9, <2>1, RolesKept DEF ProducerInv, Stops
  <2>q. QED BY <1>7, <2>2, <2>3, <2>4 DEF ProducerInv
<1>q. QED BY <1>10, <1>11 DEF Confirm


LEMMA StartGcHolds ==
    ASSUME ProducerInv, NEW p \in Producers, StartGc(p)
    PROVE  ProducerInv'
<1> DEFINE r == [Off EXCEPT !.at = "gc"]
<1>1. ProducerTyped BY DEF ProducerInv
<1>2. /\ NoInitializer /\ RoleFree /\ roles' = ReconciledRoles /\ artifacts' = ReconciledFiles
      /\ producer' = [producer EXCEPT ![p] = r]
      /\ UNCHANGED <<epochs, admitted, serials, stamps, wanted, issued>>
  BY DEF StartGc
<1>3. r \in Producing /\ r.at = "gc" /\ r.dev = NoStamp /\ r.gone = {}
  BY OffType DEF Off, Producing, Places, RoleSteps
<1> HIDE DEF r
<1>4. Alone(p) /\ producer'[p] = r BY <1>1, <1>2, <1>3, TurnType
<1>5. /\ roles' \in [Generations -> Entries]
      /\ artifacts' \in [Generations -> SUBSET {"pending", "final"}]
  BY <1>1, <1>2, Reconciled
<1>6. ProducerTyped' BY <1>1, <1>2, <1>4, <1>5 DEF ProducerTyped, Alone
<1>7. LocksHold'
  BY <1>2, <1>3, <1>4, LocksKept DEF ProducerInv, InitSteps, Stamping
<1>8. Founded(p)' BY <1>3, <1>4 DEF Founded, InitSteps, Stamping
<1>9. SerialsHold' BY <1>2, <1>4, <1>8, SerialsKept DEF ProducerInv
<1>10. Housed(p)' BY <1>3, <1>4 DEF Housed
<1>11. RolesHold' BY <1>1, <1>2, <1>4, <1>10, ReconcileHolds DEF ProducerInv
<1>q. QED BY <1>6, <1>7, <1>9, <1>11 DEF ProducerInv

\* What a collection may unlink is named by no stamp (gc_roles).
LEMMA CollectHolds ==
    ASSUME ProducerInv, NEW p \in Producers, NEW g \in Generations, Collect(p, g)
    PROVE  ProducerInv'
<1>1. ProducerTyped BY DEF ProducerInv
<1>2. /\ producer[p].at = "gc" /\ g \notin Referenced
      /\ UNCHANGED <<epochs, admitted, serials, stamps, roles, wanted, issued>>
  BY DEF Collect, At, Collectable
<1>3. CASE Stop(p) /\ UNCHANGED artifacts
  BY <1>1, <1>2, <1>3, StopType, StoppedHolds
<1>4. CASE /\ artifacts' = [artifacts EXCEPT ![g] = @ \ {"final"}]
           /\ producer' = [producer EXCEPT ![p].gone = @ \cup {g}]
  <2> DEFINE r == [producer[p] EXCEPT !.gone = @ \cup {g}]
  <2>1. producer[p] \in Producing BY <1>1 DEF ProducerTyped
  <2>2. /\ r \in Producing /\ r.at = "gc" /\ r.dev = producer[p].dev
        /\ r.gone = producer[p].gone \cup {g}
    BY <1>2, <2>1 DEF Producing
  <2>3. producer' = [producer EXCEPT ![p] = r] BY <1>4
  <2> HIDE DEF r
  <2>4. Alone(p) /\ producer'[p] = r BY <1>1, <2>2, <2>3, TurnType
  <2>5. /\ artifacts' \in [Generations -> SUBSET {"pending", "final"}]
        /\ \A h \in Generations : h # g => artifacts'[h] = artifacts[h]
    BY <1>1, <1>4 DEF ProducerTyped
  <2>6. ProducerTyped' BY <1>1, <1>2, <2>4, <2>5 DEF ProducerTyped, Alone
  <2>7. LocksHold'
    BY <1>2, <2>2, <2>4, LocksKept DEF ProducerInv, RoleSteps, InitSteps, Stamping
  <2>8. Founded(p)' BY <2>2, <2>4 DEF Founded, InitSteps, Stamping
  <2>9. SerialsHold' BY <1>2, <2>4, <2>8, SerialsKept DEF ProducerInv
  <2>10. \A d \in StDevices : stamps[d] # NoStamp => stamps[d].gen # g
    BY <1>2 DEF Referenced
  <2>11. ASSUME NEW q \in Producers PROVE Housed(q)'
    <3>1. CASE q = p
      <4>1. Housed(p) BY DEF ProducerInv, RolesHold
      <4>q. QED BY <1>2, <2>2, <2>4, <2>10, <3>1, <4>1 DEF Housed
    <3>2. CASE q # p
      <4>1. producer'[q].at \notin RoleSteps
        BY <1>2, <2>4, <3>2 DEF ProducerInv, LocksHold, Alone, RoleSteps
      <4>q. QED BY <4>1, Unhoused
    <3>q. QED BY <3>1, <3>2
  <2>12. StampHasArtifact'
    <3>1. ASSUME NEW d \in StDevices, stamps[d] # NoStamp
          PROVE  roles[stamps[d].gen].state = "active" /\ "final" \in artifacts'[stamps[d].gen]
      <4>1. stamps[d] \in StampSet BY <1>1, <3>1 DEF ProducerTyped
      <4>2. stamps[d].gen \in Generations BY <4>1 DEF StampSet
      <4>q. QED BY <2>5, <2>10, <3>1, <4>2 DEF ProducerInv, RolesHold, StampHasArtifact
    <3>q. QED BY <1>2, <3>1 DEF StampHasArtifact
  <2>13. RolesHold'
    <3>1. Indexed' = Indexed BY <1>2 DEF Indexed
    <3>q. QED BY <2>11, <2>12, <3>1 DEF ProducerInv, RolesHold
  <2>q. QED BY <2>6, <2>7, <2>9, <2>13 DEF ProducerInv
<1>q. QED BY <1>3, <1>4 DEF Collect

\* The entry a collection settles on for a generation.
Settles(p, g) ==
    IF g \in producer[p].gone THEN [state |-> "none", age |-> "used"]
    ELSE IF roles[g].state # "active" THEN roles[g]
    ELSE IF g \in Referenced THEN [roles[g] EXCEPT !.age = "used"]
    ELSE IF roles[g].age = "used" THEN [roles[g] EXCEPT !.age = "marked"]
    ELSE roles[g]

LEMMA FinishGcHolds ==
    ASSUME ProducerInv, NEW p \in Producers, FinishGc(p)
    PROVE  ProducerInv'
<1>1. ProducerTyped BY DEF ProducerInv
<1>2. /\ producer[p].at = "gc" /\ Stop(p)
      /\ roles' = [g \in Generations |-> Settles(p, g)]
      /\ UNCHANGED <<epochs, admitted, serials, stamps, artifacts, wanted, issued>>
  BY DEF FinishGc, At, Settles
<1>3. Stops(p) BY <1>1, <1>2, StopType
<1>4. producer'[p].at = "off" /\ producer'[p].dev = NoStamp BY <1>3, OffType DEF Stops
<1>5. ASSUME NEW g \in Generations
      PROVE  /\ Settles(p, g) \in Entries
             /\ g \notin producer[p].gone => Settles(p, g).state = roles[g].state
             /\ roles[g].state = "none" => Settles(p, g).state = "none"
  <2>1. roles[g] \in Entries BY <1>1 DEF ProducerTyped
  <2>2. [state |-> "none", age |-> "used"] \in Entries BY DEF Entries
  <2>3. /\ [roles[g] EXCEPT !.age = "used"] \in Entries
        /\ [roles[g] EXCEPT !.age = "marked"] \in Entries
        /\ [roles[g] EXCEPT !.age = "used"].state = roles[g].state
        /\ [roles[g] EXCEPT !.age = "marked"].state = roles[g].state
    BY <2>1 DEF Entries
  <2>q. QED BY <2>1, <2>2, <2>3 DEF Settles
<1>6. /\ roles' \in [Generations -> Entries]
      /\ \A g \in Generations : g \notin producer[p].gone => roles'[g].state = roles[g].state
      /\ \A g \in Generations : roles[g].state = "none" => roles'[g].state = "none"
  BY <1>2, <1>5
<1>7. ProducerTyped' BY <1>1, <1>2, <1>3, <1>6 DEF ProducerTyped, Stops, Alone
<1>8. LocksHold'
  BY <1>2, <1>3, <1>4, LocksKept DEF ProducerInv, Stops, RoleSteps, InitSteps, Stamping
<1>9. Founded(p)' BY <1>4 DEF Founded, InitSteps, Stamping
<1>10. SerialsHold' BY <1>2, <1>3, <1>9, SerialsKept DEF ProducerInv, Stops
<1>11. ASSUME NEW q \in Producers PROVE Housed(q)'
  <2>1. producer'[q].at \notin RoleSteps
    BY <1>2, <1>3, <1>4 DEF ProducerInv, LocksHold, Stops, Alone, RoleSteps
  <2>q. QED BY <2>1, Unhoused
<1>12. StampHasArtifact'
  <2>1. ASSUME NEW d \in StDevices, stamps[d] # NoStamp
        PROVE  roles'[stamps[d].gen].state = "active" /\ "final" \in artifacts[stamps[d].gen]
    <3>1. stamps[d] \in StampSet BY <1>1, <2>1 DEF ProducerTyped
    <3>2. stamps[d].gen \in Generations BY <3>1 DEF StampSet
    <3>3. stamps[d].gen \notin producer[p].gone
      BY <1>2, <2>1 DEF ProducerInv, RolesHold, Housed
    <3>q. QED BY <1>6, <2>1, <3>2, <3>3 DEF ProducerInv, RolesHold, StampHasArtifact
  <2>q. QED BY <1>2, <2>1 DEF StampHasArtifact
<1>13. Cardinality(Indexed') <= MaxGenerations
  <2>1. Indexed' \subseteq Indexed BY <1>6 DEF Indexed
  <2>2. IsFiniteSet(Indexed) BY StamperAssumption, FS_Subset DEF Indexed
  <2>3. /\ IsFiniteSet(Indexed') /\ Cardinality(Indexed') <= Cardinality(Indexed)
    BY <2>1, <2>2, FS_Subset
  <2>4. Cardinality(Indexed) \in Nat /\ Cardinality(Indexed') \in Nat
    BY <2>2, <2>3, FS_CardinalityType
  <2>q. QED BY <2>3, <2>4, StamperAssumption DEF ProducerInv, RolesHold
<1>14. RolesHold' BY <1>11, <1>12, <1>13 DEF RolesHold
<1>q. QED BY <1>7, <1>8, <1>10, <1>14 DEF ProducerInv

----------------------------------------------------------------------------
(* Recovery and the world *)

LEMMA StartRecoverHolds ==
    ASSUME ProducerInv, NEW p \in Producers, StartRecover(p)
    PROVE  ProducerInv'
<1> DEFINE r == [Off EXCEPT !.at = "admissions"]
<1>1. ProducerTyped BY DEF ProducerInv
<1>2. /\ NoProducer /\ epochs' = [epochs EXCEPT !.key = @ + 1]
      /\ [epoch : {epochs.key + 1}, body : Bodies] \subseteq Generations
      /\ producer' = [producer EXCEPT ![p] = r]
      /\ UNCHANGED <<admitted, serials, stamps, roles, artifacts, wanted, issued>>
  BY DEF StartRecover
<1>3. r \in Producing /\ r.at = "admissions" /\ r.dev = NoStamp
  BY OffType DEF Producing, Places, InitSteps
<1> HIDE DEF r
<1>4. Alone(p) /\ producer'[p] = r BY <1>1, <1>2, <1>3, TurnType
<1>5. /\ epochs' \in [key : Nat, active : Nat] /\ epochs'.active = epochs.active
      /\ epochs'.key = epochs.key + 1 /\ epochs.key \in Nat /\ epochs.active \in Nat
  BY <1>1, <1>2 DEF ProducerTyped
<1>6. ProducerTyped'
  <2>1. \A b \in Bodies :
           [epoch |-> epochs.key + 1, body |-> b] \in [epoch : {epochs.key + 1}, body : Bodies]
    OBVIOUS
  <2>2. Sayable(epochs.key + 1) BY <1>2, <2>1 DEF Sayable
  <2>3. Sayable(epochs'.active) /\ Sayable(epochs'.key)
    BY <1>1, <1>5, <2>2 DEF ProducerTyped
  <2>q. QED BY <1>1, <1>2, <1>4, <1>5, <2>3 DEF ProducerTyped, Alone, Sayable
<1>7. NoInitializer BY <1>2 DEF NoInitializer, NoProducer, InitSteps
<1>8. LocksHold'
  BY <1>2, <1>3, <1>4, <1>5, <1>7, LocksKept DEF ProducerInv, RoleSteps, Stamping
<1>9. \A d \in StDevices : Recorded(d)'
  BY <1>2, <1>5 DEF ProducerInv, SerialsHold, Recorded
<1>10. epochs'.active < epochs'.key BY <1>5 DEF ProducerInv, SerialsHold
<1>11. ASSUME NEW q \in Producers PROVE Founded(q)'
  <2>1. producer'[q].at \in {"off", "admissions"} BY <1>2, <1>3, <1>4 DEF NoProducer, Alone
  <2>q. QED BY <1>10, <2>1 DEF Founded, Stamping, InitSteps
<1>12. SerialsHold' BY <1>5, <1>9, <1>10, <1>11 DEF SerialsHold
<1>13. Housed(p)' BY <1>3, <1>4 DEF Housed
<1>14. RolesHold' BY <1>2, <1>4, <1>13, RolesKept DEF ProducerInv
<1>q. QED BY <1>6, <1>8, <1>12, <1>14 DEF ProducerInv

\* A recovery works alone, on histories of an epoch nobody was served from.
LEMMA RecoveryHolds ==
    ASSUME ProducerInv, NEW p \in Producers, Recovery(p)
    PROVE  ProducerInv'
<1>1. ProducerTyped BY DEF ProducerInv
<1>2. /\ producer[p].at \in InitSteps
      /\ UNCHANGED <<stamps, roles, artifacts, wanted, issued>>
  BY DEF Recovery, At, InitSteps
<1>3. /\ epochs.active < epochs.key /\ \A q \in Producers : q # p => producer[q].at = "off"
  BY <1>2 DEF ProducerInv, LocksHold, SerialsHold, Founded
<1>4. epochs.key \in Nat /\ epochs.active \in Nat BY <1>1 DEF ProducerTyped
<1>5. CASE /\ admitted' = [admitted EXCEPT !.epoch = epochs.key,
                                            !.row = [d \in StDevices |-> "active"]]
           /\ Move(p, "histories") /\ UNCHANGED <<epochs, serials>>
  <2>1. admitted' \in Admissions
    <3>1. admitted \in Admissions BY <1>1 DEF ProducerTyped
    <3>q. QED BY <1>4, <1>5, <3>1 DEF Admissions
  <2>2. Moves(p, "histories")
    <3>1. "histories" \in Places BY DEF Places, InitSteps
    <3>q. QED BY <1>1, <1>5, <3>1, MoveType
  <2>3. ProducerTyped' BY <1>1, <1>2, <1>5, <2>1, <2>2 DEF ProducerTyped, Moves, Alone
  <2>4. LocksHold'
    BY <1>2, <1>5, <2>2, LocksKept DEF ProducerInv, Moves, RoleSteps, InitSteps, Stamping
  <2>5. Founded(p)' BY <1>3, <1>5, <2>2 DEF Founded, Moves, Stamping
  <2>6. SerialsHold' BY <1>2, <1>5, <2>2, <2>5, SerialsKept DEF ProducerInv, Moves
  <2>7. Housed(p)' BY <2>2 DEF Housed, Moves
  <2>8. RolesHold' BY <1>2, <2>2, <2>7, RolesKept DEF ProducerInv, Moves
  <2>q. QED BY <2>3, <2>4, <2>6, <2>8 DEF ProducerInv
<1>6. CASE /\ serials' = [d \in StDevices |-> ZeroHistory(epochs.key)]
           /\ Move(p, "marker") /\ UNCHANGED <<epochs, admitted>>
  <2> DEFINE zero == ZeroHistory(epochs.key)
  <2>1. zero \in Histories /\ zero.epoch = epochs.key
    BY <1>4 DEF ZeroHistory, Histories
  <2> HIDE DEF zero
  <2>2. /\ serials' \in [StDevices -> Histories \cup {NoStamp}]
        /\ \A d \in StDevices : serials'[d] = zero
    BY <1>6, <2>1 DEF zero
  <2>3. Moves(p, "marker")
    <3>1. "marker" \in Places BY DEF Places, InitSteps
    <3>q. QED BY <1>1, <1>6, <3>1, MoveType
  <2>4. ProducerTyped' BY <1>1, <1>2, <1>6, <2>2, <2>3 DEF ProducerTyped, Moves, Alone
  <2>5. LocksHold'
    BY <1>2, <1>6, <2>3, LocksKept DEF ProducerInv, Moves, RoleSteps, InitSteps, Stamping
  <2>6. ASSUME NEW d \in StDevices PROVE Recorded(d)'
    <3>1. zero # NoStamp BY <2>1, StamperAssumption
    <3>2. ASSUME NEW i \in issued[d] PROVE i.epoch <= epochs.active /\ i.epoch # epochs.key
      <4>1. i \in StampSet BY <1>1 DEF ProducerTyped
      <4>2. i.epoch \in Nat BY <4>1 DEF StampSet
      <4>3. i.epoch <= epochs.active BY DEF ProducerInv, SerialsHold, Recorded
      <4>q. QED BY <1>3, <1>4, <4>2, <4>3
    <3>q. QED BY <1>2, <1>6, <2>1, <2>2, <3>1, <3>2 DEF Recorded
  <2>7. ASSUME NEW q \in Producers PROVE Founded(q)'
    <3>1. producer'[q].at \in {"off", "marker"} BY <1>3, <2>3 DEF Moves, Alone
    <3>q. QED BY <1>3, <1>6, <3>1 DEF Founded, Stamping, InitSteps
  <2>8. SerialsHold' BY <1>6, <2>6, <2>7 DEF ProducerInv, SerialsHold
  <2>9. Housed(p)' BY <2>3 DEF Housed, Moves
  <2>10. RolesHold' BY <1>2, <2>3, <2>9, RolesKept DEF ProducerInv, Moves
  <2>q. QED BY <2>4, <2>5, <2>8, <2>10 DEF ProducerInv
<1>7. CASE /\ epochs' = [epochs EXCEPT !.active = epochs.key]
           /\ Stop(p) /\ UNCHANGED <<admitted, serials>>
  <2>1. /\ epochs' \in [key : Nat, active : Nat] /\ epochs'.active = epochs.key
        /\ epochs'.key = epochs.key
    BY <1>1, <1>7 DEF ProducerTyped
  <2>2. Stops(p) BY <1>1, <1>7, StopType
  <2>3. \A q \in Producers : producer'[q].at = "off"
    BY <1>3, <2>2, OffType DEF Stops, Alone
  <2>4. ProducerTyped'
    BY <1>1, <1>2, <1>7, <2>1, <2>2 DEF ProducerTyped, Sayable, Stops, Alone
  <2>5. LocksHold'
    <3>1. ASSUME NEW q \in Producers, NEW s \in Producers, q # s,
                 producer'[q].dev # NoStamp
          PROVE  producer'[s].dev # producer'[q].dev
      <4>1. q # p /\ producer'[q] = producer[q]
        BY <2>2, <3>1, OffType DEF Stops, Alone
      <4>2. CASE s = p
        BY <2>2, <3>1, <4>2, OffType DEF Stops
      <4>3. CASE s # p
        <5>1. producer'[s] = producer[s] BY <2>2, <4>3 DEF Stops, Alone
        <5>q. QED BY <3>1, <4>1, <5>1 DEF ProducerInv, LocksHold
      <4>q. QED BY <4>2, <4>3
    <3>q. QED BY <2>3, <3>1 DEF LocksHold, RoleSteps, InitSteps, Stamping
  <2>6. ASSUME NEW d \in StDevices PROVE Recorded(d)'
    <3>1. ASSUME NEW i \in issued[d] PROVE i.epoch <= epochs.key
      <4>1. i \in StampSet BY <1>1 DEF ProducerTyped
      <4>2. i.epoch \in Nat BY <4>1 DEF StampSet
      <4>3. i.epoch <= epochs.active BY DEF ProducerInv, SerialsHold, Recorded
      <4>q. QED BY <1>3, <1>4, <4>2, <4>3
    <3>q. QED BY <1>2, <1>7, <2>1, <3>1 DEF ProducerInv, SerialsHold, Recorded
  <2>7. \A q \in Producers : Founded(q)'
    BY <2>3 DEF Founded, InitSteps, Stamping
  <2>8. SerialsHold' BY <1>4, <2>1, <2>6, <2>7 DEF SerialsHold
  <2>9. Housed(p)' BY <2>3 DEF Housed
  <2>10. RolesHold' BY <1>2, <2>2, <2>9, RolesKept DEF ProducerInv, Stops
  <2>q. QED BY <2>4, <2>5, <2>8, <2>10 DEF ProducerInv
<1>q. QED BY <1>5, <1>6, <1>7 DEF Recovery

\* The policy changes and the unused generations age: no producer's ground moves.
LEMMA WorldHolds ==
    ASSUME ProducerInv, World
    PROVE  ProducerInv'
<1>1. ProducerTyped BY DEF ProducerInv
<1>2. UNCHANGED <<epochs, admitted, serials, stamps, artifacts, producer, issued>>
  BY DEF World
<1>3. wanted' \in Wanted
  <2>1. wanted \in Wanted BY <1>1 DEF ProducerTyped
  <2>2. CASE wanted' = wanted BY <2>1, <2>2
  <2>3. ASSUME NEW g \in Bodies, wanted' = [wanted EXCEPT !.role = g]
        PROVE  wanted' \in Wanted
    BY <2>1, <2>3 DEF Wanted
  <2>4. ASSUME NEW d \in StDevices, wanted' = [wanted EXCEPT !.part[d] = 1 - @]
        PROVE  wanted' \in Wanted
    <3>1. wanted.part \in [StDevices -> {0, 1}] BY <2>1 DEF Wanted
    <3>2. [wanted.part EXCEPT ![d] = 1 - @] \in [StDevices -> {0, 1}] BY <3>1
    <3>3. wanted' = [wanted EXCEPT !.part = [wanted.part EXCEPT ![d] = 1 - @]] BY <2>4
    <3>q. QED BY <2>1, <3>2, <3>3 DEF Wanted
  <2>5. ASSUME NEW d \in StDevices, wanted' = [wanted EXCEPT !.key[d] = @ + 1]
        PROVE  wanted' \in Wanted
    <3>1. wanted.key \in [StDevices -> Nat] BY <2>1 DEF Wanted
    <3>2. [wanted.key EXCEPT ![d] = @ + 1] \in [StDevices -> Nat] BY <3>1
    <3>3. wanted' = [wanted EXCEPT !.key = [wanted.key EXCEPT ![d] = @ + 1]] BY <2>5
    <3>q. QED BY <2>1, <3>2, <3>3 DEF Wanted
  <2>q. QED BY <2>2, <2>3, <2>4, <2>5 DEF World
<1>4. /\ roles' \in [Generations -> Entries]
      /\ \A g \in Generations : roles'[g].state = roles[g].state
  <2>1. \A g \in Generations : roles[g] \in Entries /\ roles \in [Generations -> Entries]
    BY <1>1 DEF ProducerTyped
  <2>2. CASE roles' = roles BY <1>1, <2>2 DEF ProducerTyped
  <2>3. CASE roles' = [g \in Generations |->
                IF roles[g].age = "marked" THEN [roles[g] EXCEPT !.age = "old"] ELSE roles[g]]
    <3>1. ASSUME NEW g \in Generations
          PROVE  /\ [roles[g] EXCEPT !.age = "old"] \in Entries
                 /\ [roles[g] EXCEPT !.age = "old"].state = roles[g].state
      BY <2>1 DEF Entries
    <3>q. QED BY <2>1, <2>3, <3>1
  <2>q. QED BY <2>2, <2>3 DEF World
<1>5. ProducerTyped' BY <1>1, <1>2, <1>3, <1>4 DEF ProducerTyped
<1>6. LocksHold' BY <1>2 DEF ProducerInv, LocksHold
<1>7. SerialsHold' BY <1>2 DEF ProducerInv, SerialsHold, Founded, Recorded
<1>8. Indexed' = Indexed BY <1>4 DEF Indexed
<1>9. ASSUME NEW q \in Producers PROVE Housed(q)'
  <2>1. CASE producer[q].at \notin RoleSteps
    BY <1>2, <2>1, Unhoused
  <2>2. CASE producer[q].at = "gc"
    BY <1>2, <2>2 DEF ProducerInv, RolesHold, Housed
  <2>3. CASE producer[q].at \in RoleSteps \ {"gc"}
    <3>1. producer[q].want \in Contents
      BY <2>3 DEF ProducerInv, LocksHold, RoleSteps, Stamping
    <3>2. producer[q].want.gen \in Generations BY <3>1 DEF Contents
    <3>3. Housed(q) BY DEF ProducerInv, RolesHold
    <3>q. QED BY <1>2, <1>4, <1>8, <2>3, <3>2, <3>3 DEF Housed, Ready
  <2>q. QED BY <2>1, <2>2, <2>3
<1>10. StampHasArtifact'
  <2>1. ASSUME NEW d \in StDevices, stamps[d] # NoStamp
        PROVE  roles'[stamps[d].gen].state = "active" /\ "final" \in artifacts[stamps[d].gen]
    <3>1. stamps[d] \in StampSet BY <1>1, <2>1 DEF ProducerTyped
    <3>2. stamps[d].gen \in Generations BY <3>1 DEF StampSet
    <3>q. QED BY <1>4, <2>1, <3>2 DEF ProducerInv, RolesHold, StampHasArtifact
  <2>q. QED BY <1>2, <2>1 DEF StampHasArtifact
<1>11. RolesHold' BY <1>8, <1>9, <1>10 DEF ProducerInv, RolesHold
<1>q. QED BY <1>5, <1>6, <1>7, <1>11 DEF ProducerInv

----------------------------------------------------------------------------
(* Theorems *)

LEMMA IssuedKept ==
    ASSUME issued' = issued
    PROVE  StampsOnlyAdvance
BY DEF StampsOnlyAdvance

LEMMA ProducerStepHolds ==
    ProducerInv /\ [StamperNext]_stamperVars => ProducerInv' /\ StampsOnlyAdvance
<1> SUFFICES ASSUME ProducerInv, [StamperNext]_stamperVars
             PROVE  ProducerInv' /\ StampsOnlyAdvance
  OBVIOUS
<1>1. ASSUME NEW p \in Producers, NEW d \in StDevices, StartStamp(p, d)
      PROVE  ProducerInv' /\ StampsOnlyAdvance
  BY <1>1, StartStampHolds, IssuedKept DEF StartStamp
<1>2. ASSUME NEW p \in Producers, Admit(p) PROVE ProducerInv' /\ StampsOnlyAdvance
  BY <1>2, AdmitHolds, IssuedKept DEF Admit
<1>3. ASSUME NEW p \in Producers, Compare(p) PROVE ProducerInv' /\ StampsOnlyAdvance
  BY <1>3, CompareHolds, IssuedKept DEF Compare
<1>4. ASSUME NEW p \in Producers, RefuseStamp(p) PROVE ProducerInv' /\ StampsOnlyAdvance
  <2>1. Stops(p) BY <1>4, StopType DEF RefuseStamp, ProducerInv
  <2>q. QED BY <1>4, <2>1, StoppedHolds, IssuedKept DEF RefuseStamp
<1>5. ASSUME NEW p \in Producers, Publish(p) PROVE ProducerInv' /\ StampsOnlyAdvance
  BY <1>5, PublishHolds, IssuedKept DEF Publish
<1>6. ASSUME NEW p \in Producers, Reserve(p) PROVE ProducerInv' /\ StampsOnlyAdvance
  BY <1>6, ReserveHolds, IssuedKept DEF Reserve
<1>7. ASSUME NEW p \in Producers, Commit(p) PROVE ProducerInv' /\ StampsOnlyAdvance
  BY <1>7, CommitHolds
<1>8. ASSUME NEW p \in Producers, Confirm(p) PROVE ProducerInv' /\ StampsOnlyAdvance
  BY <1>8, ConfirmHolds, IssuedKept DEF Confirm
<1>9. ASSUME NEW p \in Producers, NEW g \in Generations, Collect(p, g)
      PROVE  ProducerInv' /\ StampsOnlyAdvance
  BY <1>9, CollectHolds, IssuedKept DEF Collect
<1>10. ASSUME NEW p \in Producers, FinishGc(p) PROVE ProducerInv' /\ StampsOnlyAdvance
  BY <1>10, FinishGcHolds, IssuedKept DEF FinishGc
<1>11. ASSUME NEW p \in Producers, Recovery(p) PROVE ProducerInv' /\ StampsOnlyAdvance
  BY <1>11, RecoveryHolds, IssuedKept DEF Recovery
<1>12. ASSUME NEW p \in Producers, StartGc(p) PROVE ProducerInv' /\ StampsOnlyAdvance
  BY <1>12, StartGcHolds, IssuedKept DEF StartGc
<1>13. ASSUME NEW p \in Producers, StartRecover(p) PROVE ProducerInv' /\ StampsOnlyAdvance
  BY <1>13, StartRecoverHolds, IssuedKept DEF StartRecover
<1>14. ASSUME NEW p \in Producers, ProducerDies(p) PROVE ProducerInv' /\ StampsOnlyAdvance
  <2>1. Stops(p) BY <1>14, StopType DEF ProducerDies, ProducerInv
  <2>q. QED BY <1>14, <2>1, StoppedHolds, IssuedKept DEF ProducerDies
<1>15. CASE World
  BY <1>15, WorldHolds, IssuedKept DEF World
<1>16. CASE UNCHANGED stamperVars
  <2>1. UNCHANGED <<epochs, admitted, serials, stamps, roles, artifacts, wanted, producer, issued>>
    BY <1>16 DEF stamperVars
  <2>2. ProducerTyped' BY <2>1 DEF ProducerInv, ProducerTyped
  <2>3. LocksHold' BY <2>1 DEF ProducerInv, LocksHold
  <2>4. SerialsHold' BY <2>1 DEF ProducerInv, SerialsHold, Founded, Recorded
  <2>5. RolesHold'
    BY <2>1 DEF ProducerInv, RolesHold, Housed, Indexed, Ready, StampHasArtifact
  <2>q. QED BY <2>1, <2>2, <2>3, <2>4, <2>5, IssuedKept DEF ProducerInv
<1>q. QED
  BY <1>1, <1>2, <1>3, <1>4, <1>5, <1>6, <1>7, <1>8, <1>9, <1>10, <1>11, <1>12, <1>13,
     <1>14, <1>15, <1>16
  DEF StamperNext, ProducerWork

LEMMA ProducerInvIsSafe == ProducerInv => StamperSafe
<1> SUFFICES ASSUME ProducerInv PROVE StamperSafe
  OBVIOUS
<1>1. StamperTypeOK
  BY DEF ProducerInv, ProducerTyped, RolesHold, StamperTypeOK, Admissions, Entries
<1>2. StampHasArtifact BY DEF ProducerInv, RolesHold
<1>q. QED BY <1>1, <1>2 DEF StamperSafe

\* For every fleet, number of producers and cap of the index, and whatever
\* dies between two writes: every stamp a device can read has its active
\* artifact, and the index stays within MAX_GENERATIONS
\* (instruction_stamper.py: _publish_role_locked, gc_roles).
THEOREM StampsHaveArtifacts == StamperSpec => []StamperSafe
<1>1. StamperInit => ProducerInv BY StamperInitHolds
<1>2. ProducerInv /\ [StamperNext]_stamperVars => ProducerInv' BY ProducerStepHolds
<1>3. ProducerInv => StamperSafe BY ProducerInvIsSafe
<1>q. QED BY <1>1, <1>2, <1>3, PTL DEF StamperSpec

\* Whatever the producers, the crashes, the changed keys and the recoveries:
\* a stamp that becomes visible has an (epoch, serial) above all that its
\* device could have read before (_reserve, _finalize, initialize_producer of
\* instruction_stamper.py).
THEOREM StampsAdvance == StamperSpec => [][StampsOnlyAdvance]_stamperVars
<1>1. StamperInit => ProducerInv BY StamperInitHolds
<1>2. ProducerInv /\ [StamperNext]_stamperVars => ProducerInv' BY ProducerStepHolds
<1>3. ProducerInv /\ [StamperNext]_stamperVars => [StampsOnlyAdvance]_stamperVars
  BY ProducerStepHolds
<1>q. QED BY <1>1, <1>2, <1>3, PTL DEF StamperSpec

=============================================================================
