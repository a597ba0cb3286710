------------------------- MODULE TransferTelemetry -------------------------
(***************************************************************************)
(* From an assignment to the collector: how the tracker process turns the  *)
(* plans the catalog mints, the reports devices post and the announces the *)
(* tracker sees into the two lifecycle events of a transfer, and how these *)
(* and the reports leave through the bounded log queue                     *)
(* (server/transfer_lifecycle.py, server/telemetry.py, server/otlp.py,     *)
(* server/report_attribution.py, and the report intake of                  *)
(* server/catalog.py).                                                     *)
(*                                                                         *)
(* One device and one image: the plans are the successive assignments of   *)
(* that image, one live at a time, and the registry has one row for the    *)
(* device.  A record is its event id and the value that a replay could get *)
(* wrong: the instant and the recovered flag of a lifecycle event, the     *)
(* identities a report's rows are attributed to.  The rows of a report     *)
(* name the origin and one other peer.                                     *)
(*                                                                         *)
(* The sampler is one thread: a pass observes, queues the reports, queues  *)
(* the lifecycle events, marks them, and flushes.                           *)
(* Announces queue records from other threads at any point, the catalog    *)
(* and the policy belong to other processes, and the process may die       *)
(* anywhere, which loses the queue and the registry and keeps the store.   *)
(***************************************************************************)
EXTENDS Integers, Sequences, FiniteSets, SequencesExt

CONSTANTS Plans,        \* plan numbers, in the order of their minting
          MaxNow,       \* the last instant
          QueueCap,     \* otlp.LogQueue max_queue
          RingCap,      \* catalog.TELEMETRY_RING
          AttestCap,    \* catalog.ATTESTATIONS
          MaxPlans,     \* transfer_lifecycle.MAX_PLANS
          Retention,    \* transfer_lifecycle.PLAN_RETENTION
          Damages,      \* what may happen to the store: "torn", "absent"
          TelBudgets    \* initial budgets: 
                        \* [mint, withdraw, post, crash, fault, swarm, down]

ASSUME TelemetryAssumption ==
  /\ Plans \subseteq (Nat \ {0}) /\ IsFiniteSet(Plans)
  /\ {MaxNow, QueueCap, RingCap, AttestCap, MaxPlans} \subseteq (Nat \ {0})
  /\ Retention \in Nat
  /\ Damages \subseteq {"torn", "absent"}

VARIABLES now4,      \* the server's clock
          policy4,   \* policy.json: [live, at]: the live plans, when each was minted
          intake,    \* the catalog: [ring, ids, facts] of the device's reports
          swarm4,    \* [full, done, last]: the device's file, its registry row
          tl,        \* transfer-lifecycle.json: [file, rows, cnt]
          pins4,     \* report-attribution.json
          who4,      \* the identities the registry and the fleet file show
                     \* now: 0 while no address of the origin is known
          tel,       \* the sampler thread and the hub's memory
          mail,      \* the LogQueue
          coll,      \* the collector: [up, got]; gone: reports that lost their
                     \* pin when they left the ring
          tleft      \* what is left of the budgets

telVars == <<now4, policy4, intake, swarm4, tl, pins4, who4, tel, mail, coll,
             tleft>>

Events4 == {"planned", "seeding_started"}
Instants == 0 .. MaxNow
Reports4 == Plans \X {1, 2}

\* The keys (event ids) a record may have; a swarm event's is always new.
LifeKey(p, e) == <<"life", p, e>>
RepKey(r) == <<"report", r[1], r[2]>>
RowsKey(r) == <<"rows", r[1], r[2]>>
SwarmKey == <<"swarm", 0, 0>>
PolicyKey == <<"policy", 0, 0>>

NoRow == [state |-> "none", sum |-> 0, seed |-> 0, start |-> 0,
          rec |-> FALSE, emitted |-> {}, delivered |-> {}, at |-> 0]

Empty4 == [p \in Plans |-> NoRow]

NoCount == [undelivered |-> 0, unemitted |-> 0, evicted |-> 0]

FreshMail == [q |-> <<>>, fly |-> <<>>, dropped |-> 0, owed |-> 0]

FreshTel == [pc |-> "observe", seen |-> FALSE, queued |-> {}, sent |-> {},
             acks |-> {}]

TelInit ==
  /\ now4 = 1
  /\ policy4 = [live |-> {}, at |-> [p \in Plans |-> 0]]
  /\ intake = [ring |-> <<>>, ids |-> {}, facts |-> <<>>]
  /\ swarm4 = [full |-> FALSE, done |-> 0, last |-> 0]
  /\ tl = [file |-> "absent", rows |-> Empty4, cnt |-> NoCount, known |-> {}]
  /\ pins4 = << >>
  /\ who4 = 0
  /\ tel = FreshTel
  /\ mail = FreshMail
  /\ coll = [up |-> TRUE, got |-> {}, gone |-> {}]
  /\ tleft \in TelBudgets

TSpend(what) ==
  /\ tleft[what] > 0
  /\ tleft' = [tleft EXCEPT ![what] = @ - 1]

----------------------------------------------------------------------------
(* The world outside the tracker process.                                  *)

Clock4 ==
  /\ now4 < MaxNow /\ TSpend("tick")
  /\ now4' = now4 + 1
  /\ UNCHANGED <<policy4, intake, swarm4, tl, pins4, who4, tel, mail, coll>>

\* The assignment writer mints a plan for every image it adds.
Mint(p) ==
  /\ policy4.at[p] = 0 /\ policy4.live = {}
  /\ \A o \in Plans : o < p => policy4.at[o] # 0
  /\ policy4' = [live |-> {p},
                 at |-> [policy4.at EXCEPT ![p] = now4]]
  /\ TSpend("mint")
  /\ UNCHANGED <<now4, intake, swarm4, tl, pins4, who4, tel, mail, coll>>

\* An image withdrawn takes its plan with it; a later assignment mints anew.
Withdraw4(p) ==
  /\ p \in policy4.live
  /\ policy4' = [policy4 EXCEPT !.live = @ \ {p}]
  /\ TSpend("withdraw")
  /\ UNCHANGED <<now4, intake, swarm4, tl, pins4, who4, tel, mail, coll>>

\* The device completes its file; only a device without a live plan loses it.
DeviceFile ==
  /\ IF swarm4.full THEN policy4.live = {} ELSE policy4.live # {}
  /\ swarm4' = [swarm4 EXCEPT !.full = ~@]
  /\ UNCHANGED <<now4, policy4, intake, tl, pins4, who4, tel, mail, coll, tleft>>

KeepLast(s, n) == IF Len(s) <= n THEN s ELSE SubSeq(s, Len(s) - n + 1, Len(s))

\* One attestation for a transfer, the first.
RememberAttestation(r) ==
  IF \E i \in DOMAIN intake.facts : intake.facts[i].p = r[1]
    THEN intake.facts
    ELSE KeepLast(Append(intake.facts, [p |-> r[1], at |-> now4]), AttestCap)

\* record_telemetry.  The ring, the report ids and the attestations are three
\* files: a catalog that dies in between leaves the first `done` of them
\* written, and the device posts the report again.
RecordTelemetry(r, done) ==
  LET dup == r \in intake.ids \/ \E i \in DOMAIN intake.ring : intake.ring[i].r = r
  IN /\ swarm4.full /\ policy4.at[r[1]] # 0
     /\ r[2] = 2 => <<r[1], 1>> \in intake.ids
     /\ intake' =
          [ring  |-> IF dup THEN intake.ring
                     ELSE KeepLast(Append(intake.ring, [r |-> r, at |-> now4]), RingCap),
           ids   |-> IF ~dup /\ done >= 2 THEN intake.ids \cup {r} ELSE intake.ids,
           facts |-> IF done >= 3 THEN RememberAttestation(r) ELSE intake.facts]
     /\ intake' # intake
     /\ tleft.post >= r[2]
     /\ IF done = 3 THEN UNCHANGED tleft ELSE TSpend("fault")
     /\ UNCHANGED <<now4, policy4, swarm4, tl, pins4, who4, tel, mail, coll>>

\* The identities behind the peer addresses change, or the rows and the durable
\* endpoint of a seeder that stopped announcing age out.
Readdress ==
  /\ TSpend("fault")
  /\ \E who \in 0 .. 2 : who # who4 /\ who4' = who
  /\ UNCHANGED <<now4, policy4, intake, swarm4, tl, pins4, tel, mail, coll>>

\* The seeder's announce makes the origin's address known.
OriginAnnounces ==
  /\ who4 = 0
  /\ who4' \in {1, 2}
  /\ UNCHANGED <<now4, policy4, intake, swarm4, tl, pins4, tel, mail, coll, tleft>>

CollectorToggles ==
  /\ IF coll.up THEN TSpend("down") ELSE UNCHANGED tleft
  /\ coll' = [coll EXCEPT !.up = ~@]
  /\ UNCHANGED <<now4, policy4, intake, swarm4, tl, pins4, who4, tel, mail>>

\* The store is damaged under the process.
Damage(how) ==
  /\ how \in Damages /\ tl.file = "ok"
  /\ TSpend("fault")
  /\ tl' = [tl EXCEPT !.file = how]
  /\ UNCHANGED <<now4, policy4, intake, swarm4, pins4, who4, tel, mail, coll>>

----------------------------------------------------------------------------
(* The log queue.                                                          *)

Keys(s) == {s[i].key : i \in DOMAIN s}

Holds4(m, k) == k \in Keys(m.q) \cup Keys(m.fly)

\* The oldest evictable record goes, or else the oldest.
EvictOne(m) ==
  LET soft == {i \in DOMAIN m.q : m.q[i].soft}
      victim == IF soft = {} THEN 1 ELSE CHOOSE i \in soft : \A j \in soft : i <= j
  IN [m EXCEPT !.q = RemoveAt(@, victim), !.dropped = @ + 1]

\* LogQueue.emit: a record whose id is waiting or in flight is refused, a full
\* queue makes room.  `owed` counts what was accepted and has
\* not reached the collector.
\* Mutant: the queue compares an id only with the records waiting, not with
\* those in flight.
Emit4_WaitingOnly(m, r) ==
  IF r.key # SwarmKey /\ r.key \in Keys(m.q) THEN m
  ELSE LET n == IF Len(m.q) >= QueueCap THEN EvictOne(m) ELSE m
       IN [n EXCEPT !.q = Append(@, r), !.owed = @ + 1]

Emit4(m, r) ==
  IF r.key # SwarmKey /\ Holds4(m, r.key) THEN m
  ELSE LET n == IF Len(m.q) >= QueueCap THEN EvictOne(m) ELSE m
       IN [n EXCEPT !.q = Append(@, r), !.owed = @ + 1]

EmitAll(m, rs) == FoldLeft(Emit4, m, rs)

\* An announce of the tracker's own thread: the registry's row, and the swarm
\* event it queues.
Announced ==
  /\ swarm4.full /\ policy4.at[1] # 0
  /\ swarm4' = [swarm4 EXCEPT !.done = IF @ = 0 THEN now4 ELSE @, !.last = now4]
  /\ swarm4' # swarm4
  /\ UNCHANGED <<now4, policy4, intake, tl, pins4, who4, tel, mail, coll, tleft>>

OnSwarmEvent(soft) ==
  /\ TSpend("swarm")
  /\ mail' = Emit4(mail, [key |-> SwarmKey, soft |-> soft, start |-> 0,
                           rec |-> FALSE, fl |-> FALSE, firm |-> FALSE])
  /\ UNCHANGED <<now4, policy4, intake, swarm4, tl, pins4, who4, tel, coll>>

\* The reconciler's thread queues a policy operation under its own id, and
\* queues it again when it could not save that it had.
OnPolicyEvent ==
  /\ TSpend("swarm")
  /\ mail' = Emit4(mail, [key |-> PolicyKey, soft |-> FALSE, start |-> 0,
                          rec |-> FALSE, fl |-> FALSE, firm |-> FALSE])
  /\ UNCHANGED <<now4, policy4, intake, swarm4, tl, pins4, who4, tel, coll>>

\* The registry drops a row that stopped announcing.
RowExpires ==
  /\ ~swarm4.full /\ swarm4.done # 0
  /\ swarm4' = [swarm4 EXCEPT !.done = 0, !.last = 0]
  /\ UNCHANGED <<now4, policy4, intake, tl, pins4, who4, tel, mail, coll, tleft>>

----------------------------------------------------------------------------
(* The pass: observe.                                                      *)

TGoto(next) == tel' = [tel EXCEPT !.pc = next]

Smaller(S) == IF S = {} THEN 0 ELSE CHOOSE x \in S : \A y \in S : x <= y

\* verified_facts: the earliest attestation of the plan, of the ring and of
\* the catalog's own list.
VerifiedFact(p) ==
  Smaller({intake.ring[i].at : i \in {j \in DOMAIN intake.ring : intake.ring[j].r[1] = p}}
          \cup {intake.facts[i].at : i \in {j \in DOMAIN intake.facts : intake.facts[j].p = p}})

\* seeder_facts: the registry's row belongs to the device, so an instant
\* before the plan is not the plan's, and the next one is tried: the row's
\* completion, its last announce, now.
\* Mutant: an instant of the previous transfer is taken for this one's.
SeederFact_NoFloor(p) == swarm4.done

SeederFact(p) ==
  IF swarm4.done = 0 THEN 0
  ELSE IF swarm4.done >= policy4.at[p] THEN swarm4.done
  ELSE IF swarm4.last >= policy4.at[p] THEN swarm4.last
  ELSE now4

Wanted(row) == IF row.state = "seeding" THEN Events4 ELSE {"planned"}
Retirable(row) == row.state \in {"seeding", "cancelled"} /\ Wanted(row) \subseteq row.emitted
Undelivered(row) == (Wanted(row) \cap row.emitted) \ row.delivered
Later4(a, b) == IF a > b THEN a ELSE b

\* observe, the state of a row against the live plans: opened, reopened after
\* a policy that could not be read, or cancelled, which a seeding row never is.
\* Mutant: a plan no longer live is cancelled whatever its state.
Reconciled4_AnyState(p, row, live) ==
  IF row.state = "none" /\ p \in live
    THEN [NoRow EXCEPT !.state = "planned", !.at = now4]
  ELSE IF p \in live /\ row.state = "cancelled"
    THEN [row EXCEPT !.state = "planned", !.at = now4]
  ELSE IF p \notin live /\ row.state \in {"planned", "seeding"}
    THEN [row EXCEPT !.state = "cancelled", !.at = now4]
  ELSE row

Reconciled4(p, row, live) ==
  IF row.state = "none" /\ p \in live
    THEN [NoRow EXCEPT !.state = "planned", !.at = now4]
  ELSE IF p \in live /\ row.state = "cancelled"
    THEN [row EXCEPT !.state = "planned", !.at = now4]
  ELSE IF p \notin live /\ row.state = "planned"
    THEN [row EXCEPT !.state = "cancelled", !.at = now4]
  ELSE row

\* The facts are latched once, and a planned row that has both is promoted.  A
\* row opened on a pass that found the store lost takes its instant from the
\* durable fact alone.
Observed(p, row, live, lost) ==
  LET opened == row.state = "none" /\ p \in live
      r1 == Reconciled4(p, row, live)
      sum == IF r1.sum = 0 /\ p \in live THEN VerifiedFact(p) ELSE r1.sum
      seed == IF r1.seed = 0 /\ p \in live THEN SeederFact(p) ELSE r1.seed
      r2 == IF sum = r1.sum /\ seed = r1.seed THEN r1
            ELSE [r1 EXCEPT !.sum = sum, !.seed = seed, !.at = now4]
  IN IF r2.state # "planned" \/ sum = 0 \/ seed = 0 THEN r2
     ELSE [r2 EXCEPT !.state = "seeding", !.at = now4,
             !.rec = @ \/ (lost /\ opened /\ r2.start = 0),
             !.start = IF @ # 0 THEN @
                       ELSE Later4(policy4.at[p],
                                   IF lost /\ opened THEN sum ELSE Later4(sum, seed))]

Remove4(rows, P) == [p \in Plans |-> IF p \in P THEN NoRow ELSE rows[p]]

Total4(rows, P) ==
  FoldLeft(LAMBDA n, p : n + Cardinality(Undelivered(rows[p])), 0, SetToSeq(P))

\* _retain: old, terminal, fully queued rows that no assignment backs.
Aged(rows, live) ==
  {p \in Plans \ live : Retirable(rows[p]) /\ rows[p].at + Retention < now4}

\* _bound: over the cap the retirable go first, then the rows no assignment
\* backs, and the live ones last.
Class(rows, live, p) == IF p \in live THEN 2 ELSE IF Retirable(rows[p]) THEN 0 ELSE 1

\* Mutant: one row more than the cap is kept.
Excess_OffByOne(rows, live) == {}

Excess(rows, live) ==
  LET kept == {p \in Plans : rows[p] # NoRow}
      before(a, b) ==
        \/ Class(rows, live, a) < Class(rows, live, b)
        \/ Class(rows, live, a) = Class(rows, live, b) /\ rows[a].at < rows[b].at
        \/ Class(rows, live, a) = Class(rows, live, b) /\ rows[a].at = rows[b].at /\ a < b
  IN {p \in kept : Cardinality({o \in kept : before(o, p)}) < Cardinality(kept) - MaxPlans}

\* Mutant: a row is dropped without counting what was never acknowledged.
Counted_Silent(cnt, rows, aged, over, live) ==
  [cnt EXCEPT !.unemitted = @ + Cardinality({p \in over : ~Retirable(rows[p])}),
              !.evicted = @ + Cardinality(over \cap live)]

Counted(cnt, rows, aged, over, live) ==
  [undelivered |-> cnt.undelivered + Total4(rows, aged \cup (over \ live)),
   unemitted |-> cnt.unemitted + Cardinality({p \in over : ~Retirable(rows[p])}),
   evicted |-> cnt.evicted + Cardinality(over \cap live)]

\* TransferLifecycle.observe: one locked read, change and write of the store.
\* A policy that cannot be read shows no live plan.  With no destination (a
\* switch _refresh_exporters reads first) the pass ends here.
ObservePass(readable, on) ==
  LET lost == tl.file = "torn" \/ (tl.file = "absent" /\ tel.seen)
      base == IF tl.file = "ok" THEN tl.rows ELSE Empty4
      cnt0 == IF tl.file = "ok" THEN tl.cnt ELSE NoCount
      live == IF readable THEN policy4.live ELSE {}
      r1 == [p \in Plans |-> Observed(p, base[p], live, lost)]
      aged == Aged(r1, live)
      r2 == Remove4(r1, aged)
      over == Excess(r2, live)
      r3 == Remove4(r2, over)
      dirty == r1 # base \/ aged # {} \/ over # {}
  IN /\ tel.pc = "observe"
     /\ IF ~readable THEN TSpend("fault") ELSE IF on THEN UNCHANGED tleft ELSE TSpend("down")
     /\ tl' = IF ~dirty THEN tl
              ELSE [file |-> "ok", rows |-> r3,
                    cnt |-> Counted(cnt0, r1, aged, over, live),
                    known |-> (IF tl.file = "ok" THEN tl.known ELSE {})
                              \cup {p \in Plans : r1[p] # NoRow}]
     /\ tel' = [tel EXCEPT !.pc = IF on THEN "reports" ELSE "observe",
                           !.seen = @ \/ dirty \/ tl.file = "ok"]
     /\ UNCHANGED <<now4, policy4, intake, swarm4, pins4, who4, mail, coll>>

----------------------------------------------------------------------------
(* The pass: queue the reports and the lifecycle events, flush.            *)

\* is_provisional: no address of the origin is known, so its row is unknown.
\* Mutant: the answer of the startup gap is taken for good.
Provisional4_Never == FALSE

Provisional4 == who4 = 0

\* ReportAttributionStore.sync: the pins of reports that left the ring go, the
\* first pin of a report stays.
\* Mutant: what was exported is not pinned.
Pinned_Forgotten(ringed, new) == [r \in DOMAIN pins4 \cap ringed |-> pins4[r]]

Pinned(ringed, new) ==
  [r \in (DOMAIN pins4 \cap ringed) \cup new |->
     IF r \in DOMAIN pins4 THEN pins4[r] ELSE who4]

\* _export_new_reports: every report of the ring the collector has not
\* acknowledged and the queue does not hold, oldest first, with the records
\* of its peer rows.  Their identities are the pinned ones, or those of now,
\* which are then pinned unless they are provisional; a write of the pins that
\* fails is passed over (saved).  A record is firm when its identities are
\* pinned at the end of the pass.
ExportReports(saved) ==
  LET ringed == {intake.ring[i].r : i \in DOMAIN intake.ring}
      skip(r) == RepKey(r) \in tel.sent \/ Holds4(mail, RepKey(r))
      view(r) == IF r \in DOMAIN pins4 THEN pins4[r] ELSE who4
      record(k, r) == [key |-> k, soft |-> FALSE, start |-> view(r),
                       rec |-> FALSE, fl |-> FALSE,
                       firm |-> r \in DOMAIN pins4 \/ (saved /\ ~Provisional4)]
      fresh == SelectSeq([i \in DOMAIN intake.ring |-> intake.ring[i].r],
                         LAMBDA r : ~skip(r))
      pins == Pinned(ringed, IF Provisional4 THEN {} ELSE ToSet(fresh))
  IN /\ tel.pc = "reports"
     /\ mail' = EmitAll(mail, FlattenSeq([i \in DOMAIN fresh |->
                  <<record(RepKey(fresh[i]), fresh[i]),
                    record(RowsKey(fresh[i]), fresh[i])>>]))
     /\ IF saved THEN pins4' = pins /\ UNCHANGED tleft
        ELSE pins # pins4 /\ TSpend("fault") /\ UNCHANGED pins4
     /\ coll' = [coll EXCEPT !.gone = @ \cup (DOMAIN pins4 \ ringed)]
     /\ tel' = [tel EXCEPT !.pc = "emit",
                  !.sent = {k \in @ : \E r \in ringed : k = RepKey(r)}]
     /\ UNCHANGED <<now4, policy4, intake, swarm4, tl, who4>>

\* The events of the store the collector has not acknowledged.
\* Mutant: an event is owed only until it was queued once.
Outstanding_Unmarked ==
  IF tl.file # "ok" THEN {}
  ELSE {d \in Plans \X Events4 :
          tl.rows[d[1]] # NoRow /\ d[2] \in Wanted(tl.rows[d[1]]) \ tl.rows[d[1]].emitted}

Outstanding ==
  IF tl.file # "ok" THEN {}
  ELSE {d \in Plans \X Events4 :
          tl.rows[d[1]] # NoRow /\ d[2] \in Wanted(tl.rows[d[1]]) \ tl.rows[d[1]].delivered}

\* By the plan's creation, and `planned` before `seeding_started`.
InOrder(due) ==
  SetToSortSeq(due, LAMBDA a, b :
    \/ policy4.at[a[1]] < policy4.at[b[1]]
    \/ policy4.at[a[1]] = policy4.at[b[1]] /\ a[1] < b[1]
    \/ a[1] = b[1] /\ a[2] = "planned" /\ b[2] # "planned")

\* _mark_many: the rows that are still there.
Marked(items, confirm) ==
  LET of(p) == {x[2] : x \in {y \in items : y[1] = p}}
      hit(p) == tl.rows[p] # NoRow /\ of(p) # {}
  IN IF tl.file # "ok" THEN tl
     ELSE [tl EXCEPT !.rows = [p \in Plans |->
             IF ~hit(p) THEN @[p]
             ELSE [@[p] EXCEPT !.emitted = @ \cup of(p),
                     !.delivered = IF confirm THEN @ \cup of(p) ELSE @,
                     !.at = now4]]]

\* _emit_transfer_lifecycle: every outstanding event the queue does not hold
\* is queued, the map from ids to rows is made the outstanding set, and what
\* the store has not marked is marked.  A death between the queueing and the
\* marks loses the queue, and is a death before both.
EmitLifecycle ==
  LET due == InOrder(Outstanding)
      row(x) == tl.rows[x[1]]
      lacks(x) == ~Holds4(mail, LifeKey(x[1], x[2]))
      absent == SelectSeq(due, lacks)
  IN /\ tel.pc = "emit"
     /\ mail' = EmitAll(mail, [i \in DOMAIN absent |->
          [key |-> LifeKey(absent[i][1], absent[i][2]), soft |-> FALSE,
           start |-> IF absent[i][2] = "planned" THEN policy4.at[absent[i][1]]
                     ELSE row(absent[i]).start,
           rec |-> absent[i][2] # "planned" /\ row(absent[i]).rec,
           fl |-> FALSE, firm |-> FALSE]])
     /\ tel' = [tel EXCEPT !.pc = "flush", !.queued = Outstanding]
     /\ tl' = Marked({x \in ToSet(absent) : x[2] \notin row(x).emitted}, FALSE)
     /\ UNCHANGED <<now4, policy4, intake, swarm4, pins4, who4, coll, tleft>>

\* LogQueue.flush: the batch is taken under the lock and sent outside it.
FlushTake ==
  /\ tel.pc = "flush"
  /\ mail' = [mail EXCEPT !.fly = mail.q,
                          !.q = [i \in DOMAIN mail.q |-> [mail.q[i] EXCEPT !.fl = TRUE]]]
  /\ TGoto(IF mail.q = <<>> THEN "observe" ELSE "send")
  /\ UNCHANGED <<now4, policy4, intake, swarm4, tl, pins4, who4, coll, tleft>>

\* The send fails: what still waits waits on, and what was evicted meanwhile
\* stays dropped.
FlushFails ==
  /\ tel.pc = "send" /\ ~coll.up
  /\ mail' = [mail EXCEPT !.fly = <<>>,
                          !.q = [i \in DOMAIN mail.q |-> [mail.q[i] EXCEPT !.fl = FALSE]]]
  /\ TGoto("observe")
  /\ UNCHANGED <<now4, policy4, intake, swarm4, tl, pins4, who4, coll, tleft>>

\* The collector has the batch; the queue has not heard yet.
FlushLands ==
  /\ tel.pc = "send" /\ coll.up
  /\ coll' = [coll EXCEPT !.got = @ \cup
                {[key |-> mail.fly[i].key, start |-> mail.fly[i].start,
                  rec |-> mail.fly[i].rec, firm |-> mail.fly[i].firm] : i \in {j \in DOMAIN mail.fly :
                                                    mail.fly[j].key # SwarmKey}}]
  /\ mail' = [mail EXCEPT !.owed = @ - Len(mail.fly)]
  /\ TGoto("sent")
  /\ UNCHANGED <<now4, policy4, intake, swarm4, tl, pins4, who4, tleft>>

\* The batch leaves the queue, and a record of it that was evicted while the
\* send was out was not dropped after all.
\* Mutant: an eviction during the send stays counted as a loss.
Settle4_KeepsDrops(m) ==
  [m EXCEPT !.q = SelectSeq(@, LAMBDA r : ~r.fl), !.fly = <<>>]

Settle4(m) ==
  LET retained == Len(SelectSeq(m.q, LAMBDA r : r.fl))
  IN [m EXCEPT !.q = SelectSeq(@, LAMBDA r : ~r.fl), !.fly = <<>>,
               !.dropped = @ - (Len(m.fly) - retained)]

FlushSettles ==
  /\ tel.pc = "sent"
  /\ mail' = Settle4(mail)
  /\ tel' = [tel EXCEPT !.pc = "acks", !.acks = Keys(mail.fly) \ {SwarmKey}]
  /\ UNCHANGED <<now4, policy4, intake, swarm4, tl, pins4, who4, coll, tleft>>

\* The delivery callback: the reports are seen, the lifecycle rows confirmed.
\* Mutant: everything outstanding is confirmed, not what was sent.
Confirmed4_All == tel.queued

Confirmed4 == {x \in tel.queued : LifeKey(x[1], x[2]) \in tel.acks}

Acknowledge ==
  /\ tel.pc = "acks"
  /\ tl' = Marked(Confirmed4, TRUE)
  /\ tel' = [tel EXCEPT
               !.pc = "observe", !.acks = {}, !.sent = @ \cup tel.acks,
               !.queued = @ \ Confirmed4]
  /\ UNCHANGED <<now4, policy4, intake, swarm4, pins4, who4, mail, coll, tleft>>

\* The process dies and starts again: the registry, the queue and the maps
\* are gone, the files stay.  The durable endpoints may still name the origin.
TrackerDies ==
  /\ TSpend("crash")
  /\ tel' = FreshTel
  /\ mail' = FreshMail
  /\ swarm4' = [swarm4 EXCEPT !.done = 0, !.last = 0]
  /\ who4' \in {who4, 0}
  /\ UNCHANGED <<now4, policy4, intake, tl, pins4, coll>>

SamplerStep ==
  \/ ObservePass(TRUE, TRUE) \/ ExportReports(TRUE) \/ EmitLifecycle
  \/ FlushTake \/ FlushFails \/ FlushLands \/ FlushSettles
  \/ Acknowledge

Outside4 ==
  \/ Clock4
  \/ \E p \in Plans : Mint(p) \/ Withdraw4(p)
  \/ DeviceFile \/ Announced \/ RowExpires \/ Readdress
  \/ OriginAnnounces \/ CollectorToggles
  \/ \E r \in Reports4, d \in 1 .. 3 : RecordTelemetry(r, d)
  \/ \E h \in {"torn", "absent"} : Damage(h)
  \/ OnPolicyEvent
  \/ \E soft \in BOOLEAN : OnSwarmEvent(soft)

TelNext ==
  \/ SamplerStep
  \/ Outside4
  \/ ObservePass(FALSE, TRUE)
  \/ ObservePass(TRUE, FALSE)
  \/ ExportReports(FALSE)
  \/ TrackerDies

TelSpec == TelInit /\ [][TelNext]_telVars

----------------------------------------------------------------------------
(* Properties.                                                             *)

\* Rows, rings, attestations and the queue keep their shape and their caps.
TelTypeOK ==
  /\ now4 \in 1 .. MaxNow
  /\ policy4.live \subseteq Plans /\ policy4.at \in [Plans -> Instants]
  /\ Len(intake.ring) <= RingCap /\ Len(intake.facts) <= AttestCap
  /\ intake.ids \subseteq Reports4
  /\ tl.file \in {"ok", "torn", "absent"}
  /\ \A p \in Plans :
       /\ tl.rows[p].state \in {"none", "planned", "seeding", "cancelled"}
       /\ {tl.rows[p].sum, tl.rows[p].seed, tl.rows[p].start, tl.rows[p].at}
            \subseteq Instants
       /\ tl.rows[p].emitted \cup tl.rows[p].delivered \subseteq Events4
  /\ Cardinality({p \in Plans : tl.rows[p] # NoRow}) <= MaxPlans
  /\ Len(mail.q) <= QueueCap /\ mail.dropped \in Nat

\* LogQueue.flush sends outside the queue's lock while announces evict from
\* it, and gives a record evicted on its way back to the count of drops.
\* Whenever no send is unsettled, what was accepted and never reached the
\* collector is exactly what waits and what is counted as dropped.
DropsAreExact == tel.pc # "sent" => mail.owed = Len(mail.q) + mail.dropped

\* emit refuses an id that waits or is in flight; a record evicted while it is
\* being sent is in neither list of the queue but its id still counts.  One
\* event id never has two copies on their way to the collector.
OneCopy ==
  \A i, j \in DOMAIN mail.q \cup {0} :
    LET fresh(n) == n # 0 /\ ~mail.q[n].fl /\ mail.q[n].key # SwarmKey
    IN /\ (i # j /\ fresh(i) /\ fresh(j)) => mail.q[i].key # mail.q[j].key
       /\ fresh(i) => mail.q[i].key \notin Keys(mail.fly)

\* The delivered markers are written from a callback that runs after the send,
\* with the rows that may have changed since.  A marked event did reach the
\* collector: nothing is taken for delivered on the strength of being queued.
MarkedIsReceived ==
  tl.file = "ok" =>
    \A p \in Plans : \A e \in tl.rows[p].delivered :
      \E g \in coll.got : g.key = LifeKey(p, e)

\* Retention and the size bound drop rows.  An event of a plan the store once
\* held and holds no more, and whose store was not lost, reached the collector
\* or one of the exported counters says that something did not.
ForgottenIsCounted ==
  tl.file = "ok" =>
    \A p \in tl.known :
      tl.rows[p] = NoRow =>
        \/ \E g \in coll.got : g.key = LifeKey(p, "planned")
        \/ tl.cnt.undelivered + tl.cnt.unemitted + tl.cnt.evicted > 0

\* A registry row belongs to the device and outlives a plan: seeder_facts and
\* the floor of observe keep every published instant behind the plan's own.
SeedsAfterPlanned ==
  \A p \in Plans :
    /\ tl.rows[p].seed # 0 => tl.rows[p].seed >= policy4.at[p]
    /\ \A g \in coll.got : g.key[1] = "life" /\ g.key[2] = p => g.start >= policy4.at[p]

\* A report is exported again after a restart, when the addresses may belong
\* to others or the origin has not announced yet.  Records under one id that
\* were exported with pinned identities say the same while the report stays in
\* the ring, and none of them is the answer of the startup gap: a backend may
\* see a provisional record or one whose pin could not be written before them,
\* and never a second settled one.
AttributionIsStable ==
  \A g \in coll.got :
    g.firm => /\ g.start # 0
              /\ <<g.key[2], g.key[3]>> \in coll.gone
                 \/ \A h \in coll.got : h.firm /\ h.key = g.key => h.start = g.start

\* A transfer that was seen to seed stays so: no step of the tracker takes a
\* row out of that state except by retiring it or losing the file.
SeedingIsFinal ==
  \A p \in Plans :
    tl.file = "ok" /\ tl.rows[p].state = "seeding" /\ tl'.rows[p] # NoRow
      => \/ tl'.rows[p].state = "seeding" /\ tl'.rows[p].start = tl.rows[p].start
         \/ tl'.file # tl.file

\* Events are evicted, sends fail, the process dies between a send and its
\* mark: a plan that stays assigned, attested and seeding is still published.
\* Holds for good in the end.
SeedingIsPublished ==
  \A p \in Plans :
    p \in policy4.live /\ swarm4.full /\ <<p, 1>> \in intake.ids
      => \E g \in coll.got : g.key = LifeKey(p, "seeding_started")

\* transfer_lifecycle.py says that every replay agrees with every other: two
\* records under one id with different instants are told apart by the flag of
\* a recovered promotion.
EveryReplayAgrees ==
  \A g, h \in coll.got :
    g.key = h.key /\ g.key[1] = "life" /\ ~g.rec /\ ~h.rec => g.start = h.start

\* What holds in every state of the export.
TelemetrySafe ==
  /\ TelTypeOK
  /\ DropsAreExact
  /\ OneCopy
  /\ MarkedIsReceived
  /\ ForgottenIsCounted
  /\ SeedsAfterPlanned
  /\ AttributionIsStable
=============================================================================
