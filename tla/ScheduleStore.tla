--------------------------- MODULE ScheduleStore ---------------------------
(***************************************************************************)
(* The schedule authority of server/schedules.py and the claim half of one *)
(* pass of server/schedule_runner.py.                                      *)
(*                                                                         *)
(* Operators create, edit, re-affirm and delete definitions; every writer  *)
(* works under the schedule's shard lock and bumps the row's revision (its *)
(* strong ETag).  The one runner thread scans the definitions, computes    *)
(* the next slot of each from a durable cursor, and claims due slots: the  *)
(* occurrence row is written first, the cursor second, so a crash between  *)
(* the two must be repaired by claiming the identical occurrence again.    *)
(*                                                                         *)
(* Time is an integer; a week is DaysPerWeek days of HoursPerDay units, in *)
(* one zone without daylight saving (resolve() always finds one instant).  *)
(***************************************************************************)
EXTENDS Integers, FiniteSets

CONSTANTS
    Ids,          \* schedule identifiers
    Payloads,     \* everything in a definition but its "when" and "state"
    Whens,        \* the "when" values an operator may write
    NoRow,        \* model value: an absent row
    NoSlot,       \* model value: next_fire returned None
    DaysPerWeek, HoursPerDay,
    MaxTime,      \* bound: the clock stops here
    Limits,       \* bounds: the mixes of operator writes, crashes of the
                  \* management process and backward steps of the wall clock
    MaxClaims     \* the runner's max_claims budget of one pass

ASSUME CalendarAssumption ==
    /\ DaysPerWeek \in Nat \ {0}
    /\ HoursPerDay \in Nat \ {0}

ASSUME BoundAssumption ==
    /\ MaxTime \in Nat
    /\ Limits \subseteq [edits : Nat, crashes : Nat, backs : Nat]
    /\ MaxClaims \in Nat \ {0}

Week == DaysPerWeek * HoursPerDay

\* normalize_definition: once names an instant, recurring a weekday and a time
\* of day; a window is at least one unit and at most one week long.
ASSUME WhenAssumption ==
    Whens \subseteq
        [kind : {"once"}, at : Nat, window : 1 .. Week]
        \cup
        [kind : {"recurring"}, weekday : 0 .. DaysPerWeek - 1,
         hour : 0 .. HoursPerDay - 1, window : 1 .. Week]

VARIABLES
    rows,       \* schedules.json: id -> definition row or NoRow
    retired,    \* schedule-retired.json: id -> revision floor (0: no row)
    progress,   \* schedule-progress.json: id -> cursor or NoRow
    occurrences,\* schedule-occurrences.json: the set of occurrence rows
    gens,       \* generations minted so far (uuid4 never repeats)
    runner,     \* the runner thread: program counter and its pass
    writer,     \* the API writer inside delete(): its id, or NoRow
    now,        \* the wall clock
    budget,     \* writes, crashes and clock steps spent, see the bounds
    etags       \* history: every row state that was ever live

vars == <<rows, retired, progress, occurrences, gens, runner, writer, now,
          budget, etags>>

States == {"pending", "paused", "completed"}

Row == [gen : Nat, rev : Nat \ {0}, payload : Payloads, when : Whens,
        state : States, created : Nat]

Slot == [at : Nat, end : Nat]

\* An absent row is no row, and no schedule has its name.
ASSUME NoRowAssumption == NoRow \notin Row /\ NoRow \notin Ids

----------------------------------------------------------------------------
(* Slot arithmetic: next_fire(metadata=True) and its callers.              *)

MaxOf(a, b) == IF a >= b THEN a ELSE b

\* weekly_at: the instant of the recurring local time on a given day.
WeeklyAt(when, day) == day * HoursPerDay + when.hour

\* The latest day not after the anchor's date that has the wanted weekday.
\* As in the code it may lie before the first day of the epoch.
WeekdayOnOrBefore(when, anchor) ==
    LET date == anchor \div HoursPerDay IN
    date - ((date - when.weekday) % DaysPerWeek)

SlotAt(stamp, when) == [at |-> stamp, end |-> stamp + when.window]

\* The recurring branch without a cursor: the slot of the anchor's week, its
\* successor when that precedes the creation, or the previous slot while its
\* window is still open.
RecurringNoCursor(when, created, t) ==
    LET day0  == WeekdayOnOrBefore(when, MaxOf(created, t))
        day   == IF WeeklyAt(when, day0) < created
                 THEN day0 + DaysPerWeek ELSE day0
        stamp == WeeklyAt(when, day)
        prior == stamp - Week
    IN  IF stamp > t /\ prior >= created /\ prior <= t /\ t < prior + when.window
        THEN prior ELSE stamp

\* The recurring branch with a cursor: the first slot strictly after it.
RecurringAfter(when, created, after) ==
    LET floor == MaxOf(created, after + 1)
        day0  == WeekdayOnOrBefore(when, floor)
    IN  IF WeeklyAt(when, day0) < floor
        THEN WeeklyAt(when, day0 + DaysPerWeek)
        ELSE WeeklyAt(when, day0)

NoCursor == -1

\* occurrence_slot(row, t, after_epoch=cursor).
OccurrenceSlot(row, t, cursor) ==
    IF row.state # "pending" THEN NoSlot
    ELSE IF row.when.kind = "once"
         THEN IF cursor # NoCursor /\ row.when.at <= cursor THEN NoSlot
              ELSE SlotAt(row.when.at, row.when)
    ELSE SlotAt(IF cursor = NoCursor
                THEN RecurringNoCursor(row.when, row.created, t)
                ELSE RecurringAfter(row.when, row.created, cursor), row.when)

\* ScheduleStore.progress: a cursor of another generation does not count.
Cursor(id, row) ==
    IF progress[id] # NoRow /\ progress[id].gen = row.gen
    THEN progress[id].last_slot ELSE NoCursor

\* Mutant: the first scan starts at the current time.
RunnerSlot_FromNow(id, row) == OccurrenceSlot(row, now, Cursor(id, row))

\* ScheduleRunner._slot: the first scan of a recurring row starts at creation.
RunnerSlot(id, row) ==
    LET cursor == Cursor(id, row) IN
    OccurrenceSlot(row,
        IF cursor = NoCursor /\ row.when.kind = "recurring"
        THEN row.created ELSE now, cursor)

\* Mutant: the lookup overlooks occurrences recorded as missed.
Existing_Fired(gen, at) ==
    {o \in occurrences : o.gen = gen /\ o.at = at /\ o.state # "missed"}

\* OccurrenceStore.get(occurrence_id(row, scheduled_at)).
Existing(gen, at) == {o \in occurrences : o.gen = gen /\ o.at = at}

----------------------------------------------------------------------------
(* Initial state: empty stores.                                            *)

Idle == [pc |-> "idle", pending |-> {}, claims |-> 0, entry |-> NoRow,
         snapshot |-> FALSE, guarded |-> FALSE]

Init ==
    /\ rows = [i \in Ids |-> NoRow]
    /\ retired = [i \in Ids |-> 0]
    /\ progress = [i \in Ids |-> NoRow]
    /\ occurrences = {}
    /\ gens = 0
    /\ runner = Idle
    /\ writer = NoRow
    /\ now = 0
    /\ budget = [edits |-> 0, crashes |-> 0, backs |-> 0]
    /\ etags = {}

----------------------------------------------------------------------------
(* Operator writes.  The role-management lock keeps create, put, patch and *)
(* delete out of a guarded claim; the schedule's shard lock keeps every    *)
(* writer of that schedule out of a claim's two writes.                    *)

\* The claim holds the shard lock from its occurrence write to its cursor
\* write; delete() holds it from the retired write to the row's removal.
ShardHeldByClaim(id) == runner.pc = "claimed" /\ runner.entry.id = id
Writable(id) ==
    /\ writer = NoRow
    /\ ~runner.guarded
    /\ ~ShardHeldByClaim(id)

\* One more event of a kind, within one of the mixes.
Within(spent) ==
    /\ budget' = spent
    /\ \E mix \in Limits : \A k \in {"edits", "crashes", "backs"} : spent[k] <= mix[k]
Spend == Within([budget EXCEPT !.edits = @ + 1])

Publish(id, row) ==
    /\ rows' = [rows EXCEPT ![id] = row]
    /\ etags' = etags \cup {[id |-> id, row |-> row]}

\* The revision create() starts from, and a mutant that forgets the increment.
FirstRevision_Floor(id) == retired[id]
FirstRevision(id) == retired[id] + 1

\* ScheduleStore.create: the revision starts above the retired floor.
Create(id, payload, when) ==
    /\ Writable(id)
    /\ rows[id] = NoRow
    /\ Publish(id, [gen |-> gens + 1, rev |-> FirstRevision(id),
                    payload |-> payload, when |-> when,
                    state |-> "pending", created |-> now])
    /\ gens' = gens + 1
    /\ Spend
    /\ UNCHANGED <<retired, progress, occurrences, runner, writer, now>>

\* _edit behind put and patch: any definition, one revision more.
Edit(id, payload, when, state) ==
    /\ Writable(id)
    /\ rows[id] # NoRow
    /\ Publish(id, [rows[id] EXCEPT !.payload = payload, !.when = when,
                                    !.state = state, !.rev = @ + 1])
    /\ Spend
    /\ UNCHANGED <<retired, progress, occurrences, gens, runner, writer, now>>

\* reaffirm takes the shard lock alone: it may land inside a guarded claim.
Reaffirm(id) ==
    /\ rows[id] # NoRow
    /\ writer # id
    /\ ~ShardHeldByClaim(id)
    /\ Publish(id, [rows[id] EXCEPT !.rev = @ + 1])
    /\ Spend
    /\ UNCHANGED <<retired, progress, occurrences, gens, runner, writer, now>>

\* The floor delete() writes; mutant: the floor of the earlier deletion.
RetiredFloor_Prior(id) == retired[id]
RetiredFloor(id) == MaxOf(rows[id].rev, retired[id])

\* delete, first durable write: the floor, while the row is still live.
DeleteRetire(id) ==
    /\ Writable(id)
    /\ rows[id] # NoRow
    /\ retired' = [retired EXCEPT ![id] = RetiredFloor(id)]
    /\ writer' = id
    /\ Spend
    /\ UNCHANGED <<rows, progress, occurrences, gens, runner, now, etags>>

\* delete, second durable write: the row leaves the shard.
DeleteRow ==
    /\ writer # NoRow
    /\ rows' = [rows EXCEPT ![writer] = NoRow]
    /\ writer' = NoRow
    /\ UNCHANGED <<retired, progress, occurrences, gens, runner, now, budget,
                   etags>>

----------------------------------------------------------------------------
(* The runner's pass.                                                      *)

Entry(id) == [id |-> id, row |-> rows[id], slot |-> RunnerSlot(id, rows[id])]

HasSlot(id) == rows[id] # NoRow /\ RunnerSlot(id, rows[id]) # NoSlot

\* _pass: list the definitions and heap their next slots.
Scan ==
    /\ runner.pc = "idle"
    /\ runner' = [Idle EXCEPT !.pc = "claiming",
                    !.pending = {Entry(id) : id \in {i \in Ids : HasSlot(i)}}]
    /\ UNCHANGED <<rows, retired, progress, occurrences, gens, writer, now,
                   budget, etags>>

Due == {e \in runner.pending : e.slot.at <= now}

\* The while condition of _pass fails: nothing due, or the budget is spent.
EndPass ==
    /\ runner.pc = "claiming"
    /\ Due = {} \/ runner.claims = MaxClaims
    /\ runner' = Idle
    /\ UNCHANGED <<rows, retired, progress, occurrences, gens, writer, now,
                   budget, etags>>

\* _claim resolves a target only for an unclaimed slot whose window is open;
\* mutant: for any unclaimed slot.
NeedsTarget_Always(e) == Existing(e.row.gen, e.slot.at) = {}
NeedsTarget(e) == Existing(e.row.gen, e.slot.at) = {} /\ now < e.slot.end

\* _claim up to the store call, for the earliest due entry: a known occurrence
\* keeps its binding, an expired slot binds nothing, otherwise the target is
\* resolved under the role guard, which stays held for the claim.
Resolve(e) ==
    /\ runner.pc = "claiming"
    /\ runner.claims < MaxClaims
    /\ e \in Due
    /\ \A f \in runner.pending : e.slot.at <= f.slot.at
    /\ NeedsTarget(e) => writer = NoRow
    /\ runner' = [runner EXCEPT
          !.pc = "resolved", !.entry = e,
          !.pending = @ \ {e}, !.claims = @ + 1,
          !.snapshot = NeedsTarget(e), !.guarded = NeedsTarget(e)]
    /\ UNCHANGED <<rows, retired, progress, occurrences, gens, writer, now,
                   budget, etags>>

\* The second clock read of _claim: resolution may cross the window's end.
RecheckEnd ==
    /\ runner.pc = "resolved"
    /\ runner.snapshot
    /\ now >= runner.entry.slot.end
    /\ runner' = [runner EXCEPT !.snapshot = FALSE]
    /\ UNCHANGED <<rows, retired, progress, occurrences, gens, writer, now,
                   budget, etags>>

\* resolve_target raises: the guard is released and the pass goes on.  Nothing
\* bounds how often this happens.
ResolveError ==
    /\ runner.pc = "resolved"
    /\ runner.guarded
    /\ runner' = [runner EXCEPT !.pc = "claiming", !.entry = NoRow,
                                !.snapshot = FALSE, !.guarded = FALSE]
    /\ UNCHANGED <<rows, retired, progress, occurrences, gens, writer, now,
                   budget, etags>>

\* Mutant: the claim checks only that the generation is live and pending.
ClaimRefused_StaleRow(e) ==
    LET live == rows[e.id] IN
    IF live = NoRow THEN TRUE
    ELSE \/ live.gen # e.row.gen
         \/ live.state # "pending"
         \/ now < e.slot.at

\* claim_occurrence's refusals: the row was edited, deleted, recreated or
\* paused since the scan, the clock moved back before the slot, the slot is no
\* longer the definition's, or the binding does not fit the window's end.
ClaimRefused(e) ==
    LET live == rows[e.id] IN
    IF live = NoRow THEN TRUE
    ELSE \/ live.rev # e.row.rev
         \/ live.gen # e.row.gen
         \/ live.state # "pending"
         \/ now < e.slot.at
         \/ /\ Existing(live.gen, e.slot.at) = {}
            /\ \/ OccurrenceSlot(live, e.slot.at, NoCursor) # e.slot
               \/ runner.snapshot # (now < e.slot.end)

ClaimConflict ==
    /\ runner.pc = "resolved"
    /\ writer # runner.entry.id
    /\ ClaimRefused(runner.entry)
    /\ runner' = [runner EXCEPT !.pc = "claiming", !.entry = NoRow,
                                !.snapshot = FALSE, !.guarded = FALSE]
    /\ UNCHANGED <<rows, retired, progress, occurrences, gens, writer, now,
                   budget, etags>>

\* OccurrenceStore.create: freeze the live row and its slot.
Frozen(e, live) ==
    [gen |-> live.gen, at |-> e.slot.at, end |-> e.slot.end,
     id |-> e.id, row |-> live,
     state |-> IF now >= e.slot.end THEN "missed" ELSE "pending"]

\* The occurrences after a claim, which keeps the one an interrupted claim left
\* behind; mutant: an expired slot only advances the cursor.
Claimed_SkipMissed(e, live) ==
    IF Existing(live.gen, e.slot.at) = {} /\ now < e.slot.end
    THEN occurrences \cup {Frozen(e, live)} ELSE occurrences
Claimed(e, live) ==
    IF Existing(live.gen, e.slot.at) = {}
    THEN occurrences \cup {Frozen(e, live)} ELSE occurrences

\* claim_occurrence, first durable write: the occurrence.
ClaimOccurrence ==
    LET e == runner.entry IN
    /\ runner.pc = "resolved"
    /\ writer # runner.entry.id
    /\ ~ClaimRefused(e)
    /\ occurrences' = Claimed(e, rows[e.id])
    /\ runner' = [runner EXCEPT !.pc = "claimed"]
    /\ UNCHANGED <<rows, retired, progress, gens, writer, now, budget, etags>>

\* claim_occurrence, second durable write: the cursor only moves forward.
AdvanceProgress ==
    LET e    == runner.entry
        live == rows[e.id]
        old  == progress[e.id]
    IN  /\ runner.pc = "claimed"
        /\ progress' =
             IF IF old = NoRow THEN TRUE
                ELSE old.gen # live.gen \/ old.last_slot <= e.slot.at
             THEN [progress EXCEPT
                     ![e.id] = [gen |-> live.gen, last_slot |-> e.slot.at]]
             ELSE progress
        /\ runner' = [runner EXCEPT !.pc = "advanced", !.snapshot = FALSE,
                                    !.guarded = FALSE]
        /\ UNCHANGED <<rows, retired, occurrences, gens, writer, now, budget,
                       etags>>

\* _pass after a successful claim: push the row's next slot.
PushUpcoming ==
    LET id == runner.entry.id IN
    /\ runner.pc = "advanced"
    /\ runner' = [runner EXCEPT !.pc = "claiming", !.entry = NoRow,
                    !.pending = IF HasSlot(id) THEN @ \cup {Entry(id)} ELSE @]
    /\ UNCHANGED <<rows, retired, progress, occurrences, gens, writer, now,
                   budget, etags>>

----------------------------------------------------------------------------
(* Environment.                                                            *)

Tick ==
    /\ now < MaxTime
    /\ now' = now + 1
    /\ UNCHANGED <<rows, retired, progress, occurrences, gens, runner, writer,
                   budget, etags>>

\* The wall clock is stepped back by one unit.
ClockBack ==
    /\ now > 0
    /\ now' = now - 1
    /\ Within([budget EXCEPT !.backs = @ + 1])
    /\ UNCHANGED <<rows, retired, progress, occurrences, gens, runner, writer,
                   etags>>

\* The management process dies: its locks and its pass are gone.
Crash ==
    /\ Within([budget EXCEPT !.crashes = @ + 1])
    /\ runner' = Idle
    /\ writer' = NoRow
    /\ UNCHANGED <<rows, retired, progress, occurrences, gens, now, etags>>

RunnerStep ==
    \/ Scan
    \/ EndPass
    \/ \E e \in runner.pending : Resolve(e)
    \/ RecheckEnd
    \/ ResolveError
    \/ ClaimConflict
    \/ ClaimOccurrence
    \/ AdvanceProgress
    \/ PushUpcoming

Next ==
    \/ \E id \in Ids, p \in Payloads, w \in Whens : Create(id, p, w)
    \/ \E id \in Ids, p \in Payloads, w \in Whens, s \in States :
          Edit(id, p, w, s)
    \/ \E id \in Ids : Reaffirm(id) \/ DeleteRetire(id)
    \/ DeleteRow
    \/ RunnerStep
    \/ Tick
    \/ ClockBack
    \/ Crash

Spec == Init /\ [][Next]_vars

\* The runner thread never stops scanning, an admitted delete completes, and
\* time passes; operators and crashes are under no obligation.
Fairness ==
    /\ WF_vars(RunnerStep)
    /\ WF_vars(DeleteRow)
    /\ WF_vars(Tick)

FairSpec == Spec /\ Fairness

----------------------------------------------------------------------------
(* Properties.                                                             *)

EntryType == [id : Ids, row : Row, slot : Slot]

TypeOK ==
    /\ rows \in [Ids -> Row \cup {NoRow}]
    /\ retired \in [Ids -> Nat]
    /\ progress \in [Ids -> [gen : Nat, last_slot : Nat] \cup {NoRow}]
    /\ occurrences \subseteq
         [gen : Nat, at : Nat, end : Nat, id : Ids, row : Row,
          state : {"pending", "missed"}]
    /\ gens \in Nat
    /\ runner \in [pc : {"idle", "claiming", "resolved", "claimed", "advanced"},
                   pending : SUBSET EntryType, claims : Nat,
                   entry : EntryType \cup {NoRow},
                   snapshot : BOOLEAN, guarded : BOOLEAN]
    /\ writer \in Ids \cup {NoRow}
    /\ now \in Nat
    /\ budget \in [edits : Nat, crashes : Nat, backs : Nat]
    /\ etags \subseteq [id : Ids, row : Row]

\* A strong ETag (schedule id, revision) names one row content for ever, over
\* edits, deletions, recreations and a crash in the middle of a deletion: the
\* promise of the comment in ScheduleStore.delete.
ETagNeverRecycled ==
    \A e, f \in etags :
        e.id = f.id /\ e.row.rev = f.row.rev => e.row = f.row

\* A slot of a generation is claimed at most once, whatever crash or backward
\* clock step separates the occurrence write from the cursor write.
OneOccurrencePerSlot ==
    \A o, p \in occurrences : o.gen = p.gen /\ o.at = p.at => o = p

\* When the definition `row` owes a slot at time t, from the calendar alone.
IsSlotOf(row, t) ==
    IF row.when.kind = "once" THEN t = row.when.at
    ELSE /\ t >= row.created
         /\ t % HoursPerDay = row.when.hour
         /\ (t \div HoursPerDay) % DaysPerWeek = row.when.weekday

\* An occurrence freezes a row that was live at its claim and a slot of exactly
\* that row, with that row's window: an edit that lands between the scan and
\* the claim never mixes two definitions in one occurrence.
OccurrenceMatchesItsDefinition ==
    \A o \in occurrences :
        /\ [id |-> o.id, row |-> o.row] \in etags
        /\ o.row.state = "pending"
        /\ IsSlotOf(o.row, o.at)
        /\ o.end = o.at + o.row.when.window

HasOccurrence(gen, at) == \E o \in occurrences : o.gen = gen /\ o.at = at

\* The durable cursor never runs ahead of the durable occurrences: a crash at
\* any point leaves a claimed slot behind the cursor, never a lost one.
CursorNamesClaimedSlot ==
    \A id \in Ids :
        progress[id] # NoRow =>
            HasOccurrence(progress[id].gen, progress[id].last_slot)

\* No recurring slot is passed over: as long as a generation keeps one
\* calendar, every slot from its creation to its cursor has an occurrence
\* (fired or missed), pauses, downtime and clock steps included.
NoSlotSkipped ==
    \A id \in Ids :
        rows[id] # NoRow /\ Cursor(id, rows[id]) # NoCursor =>
            LET row == rows[id] IN
            (/\ row.when.kind = "recurring"
             /\ \A e \in etags : e.row.gen = row.gen => e.row.when = row.when)
            => \A t \in row.created .. Cursor(id, row) :
                   IsSlotOf(row, t) => HasOccurrence(row.gen, t)

\* A slot whose window has ended without a claim.
Overdue(id) ==
    /\ HasSlot(id)
    /\ RunnerSlot(id, rows[id]).end <= now

\* Every slot is accounted for in the end, even if target resolution never
\* succeeds: once its window is over the slot is claimed without a target.
EverySlotAccountedFor == \A id \in Ids : []<>~Overdue(id)

============================================================================
