------------------------- MODULE ScheduleStoreProofs -------------------------
(***************************************************************************)
(* What ScheduleStore keeps for any schedules, calendar, claim budget and  *)
(* mix of writes, crashes and clock steps: types, ETags, one occurrence    *)
(* per slot, cursors behind the occurrences, and no slot passed over.      *)
(***************************************************************************)
EXTENDS ScheduleStore, TLAPS

----------------------------------------------------------------------------
(* Division with a symbolic divisor: weeks and days are constants.         *)

\* Euclidean division: quotient and remainder put the number together again.
LEMMA DivMod ==
    ASSUME NEW a \in Int, NEW d \in Nat \ {0}
    PROVE  /\ a \div d \in Int
           /\ a % d \in 0 .. d - 1
           /\ a = d * (a \div d) + (a % d)
  OBVIOUS

\* ... and they are the only ones that do.
LEMMA DivModUnique ==
    ASSUME NEW d \in Nat \ {0}, NEW q \in Int, NEW r \in 0 .. d - 1
    PROVE  /\ (d * q + r) \div d = q
           /\ (d * q + r) % d = r
  OBVIOUS

\* Multiples of one number are ordered as their factors.
LEMMA LatticeOrder ==
    ASSUME NEW d \in Nat \ {0}, NEW a \in Int, NEW b \in Int, d * a < d * b + d
    PROVE  a <= b
  OBVIOUS

\* The other direction.
LEMMA LatticeMonotone ==
    ASSUME NEW d \in Nat \ {0}, NEW a \in Int, NEW b \in Int, a <= b
    PROVE  d * a <= d * b
  OBVIOUS

----------------------------------------------------------------------------
(* The calendar.                                                           *)

Weekly == [kind : {"recurring"}, weekday : 0 .. DaysPerWeek - 1,
           hour : 0 .. HoursPerDay - 1, window : 1 .. Week]

\* The instants of a weekly definition, whatever its creation.
OnCalendar(when, t) ==
    /\ t % HoursPerDay = when.hour
    /\ (t \div HoursPerDay) % DaysPerWeek = when.weekday

\* weekly_at of a day with the wanted weekday is such an instant.
LEMMA WeeklyAtOnCalendar ==
    ASSUME NEW when \in Weekly, NEW day \in Int, day % DaysPerWeek = when.weekday
    PROVE  WeeklyAt(when, day) \in Int /\ OnCalendar(when, WeeklyAt(when, day))
  <1>1. /\ HoursPerDay \in Nat \ {0}
        /\ when.hour \in 0 .. HoursPerDay - 1
    BY CalendarAssumption DEF Weekly
  <1>2. WeeklyAt(when, day) = HoursPerDay * day + when.hour
    BY <1>1 DEF WeeklyAt
  <1>3. /\ (HoursPerDay * day + when.hour) \div HoursPerDay = day
        /\ (HoursPerDay * day + when.hour) % HoursPerDay = when.hour
    BY <1>1, DivModUnique
  <1>4. HoursPerDay * day + when.hour \in Int
    BY <1>1
  <1> QED
    BY <1>2, <1>3, <1>4 DEF OnCalendar

\* The day that next_fire starts from has the wanted weekday, as has the same
\* day of the next week, and the anchor's date lies between the two.
LEMMA WeekdayFound ==
    ASSUME NEW when \in Weekly, NEW anchor \in Int,
           NEW day, day = WeekdayOnOrBefore(when, anchor)
    PROVE  /\ day \in Int
           /\ day <= anchor \div HoursPerDay
           /\ anchor \div HoursPerDay < day + DaysPerWeek
           /\ day % DaysPerWeek = when.weekday
           /\ (day + DaysPerWeek) % DaysPerWeek = when.weekday
           /\ (day - DaysPerWeek) % DaysPerWeek = when.weekday
  <1> DEFINE date == anchor \div HoursPerDay
             back == (date - when.weekday) % DaysPerWeek
             weeks == (date - when.weekday) \div DaysPerWeek
  <1>1. /\ HoursPerDay \in Nat \ {0} /\ DaysPerWeek \in Nat \ {0}
        /\ when.weekday \in 0 .. DaysPerWeek - 1
    BY CalendarAssumption DEF Weekly
  <1>2. date \in Int /\ date - when.weekday \in Int
    BY <1>1
  <1>3. /\ weeks \in Int
        /\ back \in 0 .. DaysPerWeek - 1
        /\ date - when.weekday = DaysPerWeek * weeks + back
    BY <1>1, <1>2, DivMod
  <1>4. day = date - back
    BY DEF WeekdayOnOrBefore
  <1> HIDE DEF date, back, weeks
  <1>5. /\ day = DaysPerWeek * weeks + when.weekday
        /\ day + DaysPerWeek = DaysPerWeek * (weeks + 1) + when.weekday
        /\ day - DaysPerWeek = DaysPerWeek * (weeks - 1) + when.weekday
    BY <1>1, <1>2, <1>3, <1>4
  <1>6. \A w \in Int : (DaysPerWeek * w + when.weekday) % DaysPerWeek = when.weekday
    BY <1>1, DivModUnique
  <1>7. weeks + 1 \in Int /\ weeks - 1 \in Int
    BY <1>3
  <1>8. day \in Int /\ day <= date /\ date < day + DaysPerWeek
    BY <1>1, <1>2, <1>3, <1>4
  <1> QED
    BY <1>3, <1>5, <1>6, <1>7, <1>8 DEF date

\* One week later.
LEMMA WeekLater ==
    ASSUME NEW when \in Weekly, NEW day \in Int
    PROVE  /\ WeeklyAt(when, day + DaysPerWeek) = WeeklyAt(when, day) + Week
           /\ WeeklyAt(when, day - DaysPerWeek) = WeeklyAt(when, day) - Week
           /\ Week \in Nat \ {0}
  BY CalendarAssumption DEF WeeklyAt, Week, Weekly

\* The first instant of a weekly definition from a floor on.
FirstFrom(when, floor) ==
    LET day == WeekdayOnOrBefore(when, floor) IN
    IF WeeklyAt(when, day) < floor
    THEN WeeklyAt(when, day + DaysPerWeek) ELSE WeeklyAt(when, day)

\* It is one of the calendar's, no earlier one is, and it is at most a week away.
LEMMA FirstFromIsFirst ==
    ASSUME NEW when \in Weekly, NEW floor \in Int
    PROVE  /\ FirstFrom(when, floor) \in Int
           /\ FirstFrom(when, floor) >= floor
           /\ OnCalendar(when, FirstFrom(when, floor))
           /\ FirstFrom(when, floor) - Week < floor
           /\ \A t \in Int : OnCalendar(when, t) /\ t >= floor
                                => FirstFrom(when, floor) <= t
  <1> DEFINE H == HoursPerDay
             D == DaysPerWeek
             date == floor \div H
             hour == when.hour
             first == FirstFrom(when, floor)
  <1>1. PICK day : day = WeekdayOnOrBefore(when, floor)
    OBVIOUS
  <1>2. /\ H \in Nat \ {0} /\ D \in Nat \ {0}
        /\ when.weekday \in 0 .. D - 1 /\ hour \in 0 .. H - 1
    BY CalendarAssumption DEF Weekly
  <1>3. /\ day \in Int /\ day <= date /\ date < day + D
        /\ day % D = when.weekday /\ (day + D) % D = when.weekday
    BY <1>1, WeekdayFound
  <1>4. /\ date \in Int
        /\ H * date <= floor /\ floor < H * date + H
    BY <1>2, DivMod
  <1>5. first = IF WeeklyAt(when, day) < floor
                THEN WeeklyAt(when, day + D) ELSE WeeklyAt(when, day)
    BY <1>1 DEF FirstFrom
  <1>6. /\ WeeklyAt(when, day) = H * day + hour
        /\ WeeklyAt(when, day + D) = H * (day + D) + hour
        /\ WeeklyAt(when, day + D) = WeeklyAt(when, day) + Week
        /\ Week \in Nat \ {0}
    BY <1>2, <1>3, WeekLater DEF WeeklyAt
  <1>7. first \in Int /\ OnCalendar(when, first)
    <2>1. day + D \in Int
      BY <1>2, <1>3
    <2>2. /\ WeeklyAt(when, day) \in Int /\ OnCalendar(when, WeeklyAt(when, day))
          /\ WeeklyAt(when, day + D) \in Int /\ OnCalendar(when, WeeklyAt(when, day + D))
      BY <2>1, <1>3, WeeklyAtOnCalendar
    <2> QED
      BY <2>2, <1>5
  <1> HIDE DEF H, D, date, hour, first
  <1>8. date + 1 <= day + D
    BY <1>2, <1>3, <1>4
  <1>9. H * (date + 1) <= H * (day + D)
    BY <1>2, <1>3, <1>4, <1>8, LatticeMonotone
  <1>10. first >= floor
    BY <1>2, <1>3, <1>4, <1>5, <1>6, <1>9
  <1>11. first - Week < floor
    <2>1. H * day <= H * date
      BY <1>2, <1>3, <1>4, LatticeMonotone
    <2>2. CASE WeeklyAt(when, day) < floor
      BY <2>2, <1>2, <1>3, <1>4, <1>5, <1>6
    <2>3. CASE ~(WeeklyAt(when, day) < floor)
      <3>1. Week = H * D
        BY <1>2 DEF Week, H, D
      <3>2. H * 1 <= H * D
        BY <1>2, LatticeMonotone
      <3>3. H <= Week
        BY <3>1, <3>2, <1>2
      <3> QED
        BY <2>1, <2>3, <3>3, <1>2, <1>3, <1>4, <1>5, <1>6
    <2> QED
      BY <2>2, <2>3
  <1>12. ASSUME NEW t \in Int, OnCalendar(when, t), t >= floor
         PROVE  first <= t
    <2> DEFINE d == t \div H
    <2>1. /\ d \in Int /\ d % D = when.weekday
          /\ t = H * d + hour
      <3>1. /\ t % H = hour /\ d % D = when.weekday
        BY <1>12 DEF OnCalendar, H, D, hour
      <3> QED
        BY <3>1, <1>2, DivMod
    <2> HIDE DEF d
    <2>2. date <= d
      <3>1. H * date < H * d + H
        BY <2>1, <1>2, <1>4, <1>12
      <3> QED
        BY <3>1, <2>1, <1>2, <1>4, LatticeOrder
    <2>3. CASE ~(WeeklyAt(when, day) < floor)
      <3>1. H * day <= H * d
        BY <2>1, <2>2, <1>2, <1>3, <1>4, LatticeMonotone
      <3> QED
        BY <2>1, <2>3, <3>1, <1>2, <1>3, <1>5, <1>6
    <2>4. CASE WeeklyAt(when, day) < floor
      <3>1. day < d
        <4>1. H * day < H * d
          BY <2>1, <2>4, <1>2, <1>3, <1>4, <1>6, <1>12
        <4>2. d <= day => H * d <= H * day
          BY <2>1, <1>2, <1>3, LatticeMonotone
        <4> QED
          BY <4>1, <4>2, <2>1, <1>2, <1>3
      <3>2. /\ d = D * (d \div D) + when.weekday /\ d \div D \in Int
            /\ day = D * (day \div D) + when.weekday /\ day \div D \in Int
        BY <2>1, <1>2, <1>3, DivMod
      <3>3. day \div D + 1 <= d \div D
        <4>1. D * (day \div D) < D * (d \div D)
          BY <3>1, <3>2, <2>1, <1>2, <1>3
        <4>2. d \div D <= day \div D => D * (d \div D) <= D * (day \div D)
          BY <3>2, <1>2, LatticeMonotone
        <4> QED
          BY <4>1, <4>2, <3>2, <1>2
      <3>4. D * (day \div D + 1) <= D * (d \div D)
        <4>1. day \div D + 1 \in Int
          BY <3>2
        <4> QED
          BY <4>1, <3>2, <3>3, <1>2, LatticeMonotone
      <3>5. day + D <= d
        BY <3>2, <3>4, <2>1, <1>2, <1>3
      <3>6. H * (day + D) <= H * d
        BY <3>5, <2>1, <1>2, <1>3, LatticeMonotone
      <3> QED
        BY <3>6, <2>1, <2>4, <1>2, <1>3, <1>5, <1>6
    <2> QED
      BY <2>3, <2>4
  <1> QED
    BY <1>7, <1>10, <1>11, <1>12 DEF first

\* normalize_definition: a definition fires once or weekly.
LEMMA WhenCases ==
    ASSUME NEW when \in Whens
    PROVE  /\ when.window \in Nat
           /\ \/ when.kind = "once" /\ when.at \in Nat
              \/ when.kind = "recurring" /\ when \in Weekly
  <1>1. CASE when \in [kind : {"once"}, at : Nat, window : 1 .. Week]
    BY <1>1, CalendarAssumption DEF Week
  <1>2. CASE when \in Weekly
    BY <1>2, CalendarAssumption DEF Weekly, Week
  <1> QED
    BY <1>1, <1>2, WhenAssumption DEF Weekly

\* The scan that starts at the creation finds the first slot from there on.
LEMMA FromCreation ==
    ASSUME NEW when \in Weekly, NEW created \in Nat
    PROVE  RecurringNoCursor(when, created, created) = FirstFrom(when, created)
  <1>1. MaxOf(created, created) = created
    BY DEF MaxOf
  <1>2. PICK day : day = WeekdayOnOrBefore(when, created)
    OBVIOUS
  <1>3. day \in Int
    BY <1>2, WeekdayFound
  <1> DEFINE first == FirstFrom(when, created)
  <1>4. /\ first \in Int /\ first - Week < created
        /\ first = WeeklyAt(when, IF WeeklyAt(when, day) < created
                                  THEN day + DaysPerWeek ELSE day)
    BY <1>2, FirstFromIsFirst DEF FirstFrom
  <1>5. Week \in Nat
    BY <1>3, WeekLater
  <1>6. ~(first - Week >= created)
    BY <1>4, <1>5
  <1> QED
    BY <1>1, <1>2, <1>4, <1>6 DEF RecurringNoCursor

\* The slot after a cursor is the first one from the next instant on.
LEMMA FromCursor ==
    ASSUME NEW when \in Weekly, NEW created \in Nat, NEW after \in Nat
    PROVE  /\ MaxOf(created, after + 1) \in Nat
           /\ RecurringAfter(when, created, after) = FirstFrom(when, MaxOf(created, after + 1))
  BY DEF RecurringAfter, FirstFrom, MaxOf

\* Whatever the clock says, the slot without a cursor is one of the calendar
\* and not before the creation.
LEMMA NoCursorSlot ==
    ASSUME NEW when \in Weekly, NEW created \in Nat, NEW t \in Nat
    PROVE  /\ RecurringNoCursor(when, created, t) \in Nat
           /\ RecurringNoCursor(when, created, t) >= created
           /\ OnCalendar(when, RecurringNoCursor(when, created, t))
  <1> DEFINE H == HoursPerDay
             anchor == MaxOf(created, t)
             date == anchor \div H
  <1>1. /\ H \in Nat \ {0} /\ DaysPerWeek \in Nat \ {0} /\ when.hour \in 0 .. H - 1
        /\ anchor \in Nat /\ created <= anchor
    BY CalendarAssumption DEF Weekly, MaxOf
  <1>2. PICK day0 : day0 = WeekdayOnOrBefore(when, anchor)
    OBVIOUS
  <1>3. /\ day0 \in Int /\ date < day0 + DaysPerWeek
        /\ day0 % DaysPerWeek = when.weekday
        /\ (day0 + DaysPerWeek) % DaysPerWeek = when.weekday
        /\ (day0 - DaysPerWeek) % DaysPerWeek = when.weekday
    BY <1>1, <1>2, WeekdayFound
  <1>4. /\ day0 + DaysPerWeek \in Int /\ day0 - DaysPerWeek \in Int
    BY <1>1, <1>3
  <1>5. \A d \in {day0 - DaysPerWeek, day0, day0 + DaysPerWeek} :
            WeeklyAt(when, d) \in Int /\ OnCalendar(when, WeeklyAt(when, d))
    BY <1>3, <1>4, WeeklyAtOnCalendar
  <1>6. /\ WeeklyAt(when, day0 + DaysPerWeek) - Week = WeeklyAt(when, day0)
        /\ WeeklyAt(when, day0) - Week = WeeklyAt(when, day0 - DaysPerWeek)
    <2>1. /\ WeeklyAt(when, day0 + DaysPerWeek) = WeeklyAt(when, day0) + Week
          /\ WeeklyAt(when, day0 - DaysPerWeek) = WeeklyAt(when, day0) - Week
          /\ Week \in Nat
      BY <1>3, WeekLater
    <2> QED
      BY <2>1, <1>5
  <1>7. WeeklyAt(when, day0 + DaysPerWeek) >= created
    <2> HIDE DEF anchor, H
    <2>1. date \in Int /\ anchor < H * date + H
      <3>1. /\ date \in Int /\ anchor % H \in 0 .. H - 1
            /\ anchor = H * date + (anchor % H)
        BY <1>1, DivMod
      <3> QED
        BY <3>1, <1>1
    <2> HIDE DEF date
    <2>2. date + 1 <= day0 + DaysPerWeek /\ date + 1 \in Int
      BY <1>1, <1>3, <2>1
    <2>3. H * (date + 1) <= H * (day0 + DaysPerWeek)
      BY <2>2, <1>1, <1>4, LatticeMonotone
    <2>4. WeeklyAt(when, day0 + DaysPerWeek) = H * (day0 + DaysPerWeek) + when.hour
      BY <1>1, <1>4 DEF WeeklyAt, H
    <2> QED
      BY <2>1, <2>3, <2>4, <1>1, <1>4
  <1>8. PICK day : day = IF WeeklyAt(when, day0) < created THEN day0 + DaysPerWeek ELSE day0
    OBVIOUS
  <1>9. RecurringNoCursor(when, created, t) =
            IF /\ WeeklyAt(when, day) > t
               /\ WeeklyAt(when, day) - Week >= created
               /\ WeeklyAt(when, day) - Week <= t
               /\ t < WeeklyAt(when, day) - Week + when.window
            THEN WeeklyAt(when, day) - Week ELSE WeeklyAt(when, day)
    BY <1>2, <1>8 DEF RecurringNoCursor
  <1>10. /\ WeeklyAt(when, day) \in Int /\ WeeklyAt(when, day) >= created
         /\ OnCalendar(when, WeeklyAt(when, day))
         /\ WeeklyAt(when, day) - Week \in Int
         /\ OnCalendar(when, WeeklyAt(when, day) - Week)
    <2>1. CASE WeeklyAt(when, day0) < created
      <3>1. day = day0 + DaysPerWeek
        BY <2>1, <1>8
      <3> QED
        BY <3>1, <1>5, <1>6, <1>7
    <2>2. CASE ~(WeeklyAt(when, day0) < created)
      <3>1. day = day0
        BY <2>2, <1>8
      <3>2. WeeklyAt(when, day) >= created
        BY <2>2, <3>1, <1>5
      <3> QED
        BY <3>1, <3>2, <1>5, <1>6
    <2> QED
      BY <2>1, <2>2
  <1> QED
    BY <1>9, <1>10

\* The slot a claim stores is a slot of the claimed row, with its window.
LEMMA ClaimedSlot ==
    ASSUME NEW row \in Row, row.state = "pending", NEW slot, NEW t \in Nat,
           OccurrenceSlot(row, t, NoCursor) = slot
    PROVE  /\ IsSlotOf(row, slot.at)
           /\ slot.end = slot.at + row.when.window
  <1>1. row.when \in Whens /\ row.created \in Nat
    BY DEF Row
  <1>2. CASE row.when.kind = "once"
    <2>1. slot = SlotAt(row.when.at, row.when)
      BY <1>2 DEF OccurrenceSlot, NoCursor
    <2> QED
      BY <1>2, <2>1 DEF SlotAt, IsSlotOf
  <1>3. CASE row.when.kind = "recurring" /\ row.when \in Weekly
    <2>1. slot = SlotAt(RecurringNoCursor(row.when, row.created, t), row.when)
      BY <1>3 DEF OccurrenceSlot, NoCursor
    <2>2. /\ slot.at = RecurringNoCursor(row.when, row.created, t)
          /\ slot.end = slot.at + row.when.window
      BY <2>1 DEF SlotAt
    <2>3. slot.at >= row.created /\ OnCalendar(row.when, slot.at)
      BY <1>1, <1>3, <2>2, NoCursorSlot
    <2> QED
      BY <1>3, <2>2, <2>3 DEF IsSlotOf, OnCalendar
  <1> QED
    BY <1>1, <1>2, <1>3, WhenCases

----------------------------------------------------------------------------
(* The inductive invariant.                                                *)

\* The runner holds an entry of its pass.
Holding == runner.pc \in {"resolved", "claimed", "advanced"}

\* The entries of the pass whose slot has not been counted yet.
Uncounted ==
    runner.pending \cup (IF runner.pc \in {"resolved", "claimed"} THEN {runner.entry} ELSE {})

\* The slot of an entry is the first one its definition still owes: every
\* earlier slot is behind the cursor.
FirstOwed(e) ==
    e.row.when.kind = "recurring" =>
        \A t \in 0 .. e.slot.at - 1 : IsSlotOf(e.row, t) => t <= Cursor(e.id, e.row)

\* A pass has one entry for a schedule, taken from a row that was live.
PassConsistent ==
    /\ Holding => runner.entry \in EntryType
    /\ \A e, f \in runner.pending : e.id = f.id => e = f
    /\ Holding => \A e \in runner.pending : e.id # runner.entry.id
    /\ \A e \in Uncounted : [id |-> e.id, row |-> e.row] \in etags /\ FirstOwed(e)

\* From the occurrence write to the cursor write the shard lock keeps the row.
ClaimHeld ==
    runner.pc = "claimed" =>
        /\ rows[runner.entry.id] = runner.entry.row
        /\ writer # runner.entry.id
        /\ HasOccurrence(runner.entry.row.gen, runner.entry.slot.at)

\* Generations are minted in order, and every live row is on record.
Minted ==
    /\ \A e \in etags : e.row.gen <= gens
    /\ \A id \in Ids : progress[id] # NoRow => progress[id].gen <= gens
    /\ \A id \in Ids : rows[id] # NoRow => [id |-> id, row |-> rows[id]] \in etags

\* The live revision, or else the retired floor, is the highest ever issued;
\* an admitted deletion has already covered it.
RevisionsCovered ==
    /\ \A e \in etags :
          e.row.rev <= IF rows[e.id] = NoRow THEN retired[e.id] ELSE rows[e.id].rev
    /\ \A id \in Ids : rows[id] # NoRow => retired[id] <= rows[id].rev
    /\ writer # NoRow => (rows[writer] # NoRow => rows[writer].rev <= retired[writer])

Inductive ==
    /\ TypeOK
    /\ Minted
    /\ RevisionsCovered
    /\ ETagNeverRecycled
    /\ PassConsistent
    /\ ClaimHeld
    /\ OneOccurrencePerSlot
    /\ OccurrenceMatchesItsDefinition
    /\ CursorNamesClaimedSlot
    /\ NoSlotSkipped

----------------------------------------------------------------------------
(* What the runner's scan finds.                                           *)

\* The slot found by the scan is the first one that the cursor has not passed.
LEMMA RunnerSlotIsFirst ==
    ASSUME TypeOK, NEW id \in Ids, NEW row \in Row, RunnerSlot(id, row) # NoSlot
    PROVE  /\ RunnerSlot(id, row) \in Slot
           /\ row.when.kind = "recurring" =>
                 \A t \in 0 .. RunnerSlot(id, row).at - 1 :
                    IsSlotOf(row, t) => t <= Cursor(id, row)
  <1> DEFINE cursor == Cursor(id, row)
             slot == RunnerSlot(id, row)
  <1>1. /\ row.when \in Whens /\ row.created \in Nat /\ now \in Nat
        /\ row.when.window \in Nat
    BY WhenCases DEF TypeOK, Row
  <1>2. cursor = NoCursor \/ cursor \in Nat
    BY DEF TypeOK, Cursor
  <1>3. row.state = "pending"
    BY DEF RunnerSlot, OccurrenceSlot
  <1>4. CASE row.when.kind = "once" /\ row.when.at \in Nat
    <2>1. slot = SlotAt(row.when.at, row.when)
      BY <1>3, <1>4 DEF RunnerSlot, OccurrenceSlot
    <2> QED
      BY <1>1, <1>4, <2>1 DEF SlotAt, Slot
  <1>5. CASE row.when.kind = "recurring" /\ row.when \in Weekly
    <2>1. PICK floor \in Nat : /\ slot = SlotAt(FirstFrom(row.when, floor), row.when)
                               /\ \A t \in Nat : t >= row.created /\ t < floor => t <= cursor
      <3>1. CASE cursor = NoCursor
        <4>1. slot = SlotAt(RecurringNoCursor(row.when, row.created, row.created), row.when)
          BY <1>3, <1>5, <3>1 DEF RunnerSlot, OccurrenceSlot
        <4>2. slot = SlotAt(FirstFrom(row.when, row.created), row.when)
          BY <4>1, <1>1, <1>5, FromCreation
        <4>3. \A t \in Nat : t >= row.created /\ t < row.created => t <= cursor
          BY <1>1
        <4> QED
          BY <4>2, <4>3, <1>1
      <3>2. CASE cursor # NoCursor
        <4>1. slot = SlotAt(RecurringAfter(row.when, row.created, cursor), row.when)
          BY <1>3, <1>5, <3>2 DEF RunnerSlot, OccurrenceSlot
        <4> DEFINE floor == MaxOf(row.created, cursor + 1)
        <4>2. floor \in Nat /\ slot = SlotAt(FirstFrom(row.when, floor), row.when)
          BY <4>1, <3>2, <1>1, <1>2, <1>5, FromCursor
        <4>3. \A t \in Nat : t >= row.created /\ t < floor => t <= cursor
          BY <3>2, <1>1, <1>2 DEF MaxOf
        <4> QED
          BY <4>2, <4>3
      <3> QED
        BY <3>1, <3>2
    <2>2. /\ FirstFrom(row.when, floor) \in Nat
          /\ \A t \in Int : OnCalendar(row.when, t) /\ t >= floor
                                => FirstFrom(row.when, floor) <= t
      <3>1. /\ FirstFrom(row.when, floor) \in Int /\ FirstFrom(row.when, floor) >= floor
            /\ \A t \in Int : OnCalendar(row.when, t) /\ t >= floor
                                => FirstFrom(row.when, floor) <= t
        BY <1>5, <2>1, FirstFromIsFirst
      <3> QED
        BY <3>1, <2>1
    <2>3. slot.at = FirstFrom(row.when, floor) /\ slot \in Slot
      BY <2>1, <2>2, <1>1 DEF SlotAt, Slot
    <2> HIDE DEF slot, cursor
    <2>4. ASSUME NEW t \in 0 .. slot.at - 1, IsSlotOf(row, t)
          PROVE  t <= cursor
      <3>1. t \in Nat /\ t < slot.at
        BY <2>2, <2>3
      <3>2. t >= row.created /\ OnCalendar(row.when, t)
        BY <1>5, <2>4 DEF IsSlotOf, OnCalendar
      <3>3. t < floor
        BY <2>1, <2>2, <2>3, <3>1, <3>2
      <3> QED
        BY <2>1, <3>1, <3>2, <3>3
    <2> QED
      BY <2>3, <2>4 DEF slot, cursor
  <1> QED
    BY <1>1, <1>4, <1>5, WhenCases

\* What the scan and the push put on the heap.
LEMMA EntryFound ==
    ASSUME TypeOK, NEW id \in Ids, HasSlot(id)
    PROVE  /\ Entry(id) \in EntryType
           /\ Entry(id).id = id
           /\ Entry(id).row = rows[id]
           /\ FirstOwed(Entry(id))
  <1>1. rows[id] \in Row
    BY DEF HasSlot, TypeOK
  <1>2. /\ RunnerSlot(id, rows[id]) \in Slot
        /\ rows[id].when.kind = "recurring" =>
              \A t \in 0 .. RunnerSlot(id, rows[id]).at - 1 :
                 IsSlotOf(rows[id], t) => t <= Cursor(id, rows[id])
    BY <1>1, RunnerSlotIsFirst DEF HasSlot
  <1> QED
    BY <1>1, <1>2 DEF Entry, EntryType, FirstOwed

----------------------------------------------------------------------------
(* Types.                                                                  *)

\* A thread between two passes.
LEMMA IdleType == Idle.pc = "idle" /\ Idle.pending = {} /\ Idle \in
    [pc : {"idle", "claiming", "resolved", "claimed", "advanced"},
     pending : SUBSET EntryType, claims : Nat, entry : EntryType \cup {NoRow},
     snapshot : BOOLEAN, guarded : BOOLEAN]
  BY DEF Idle

\* One more event is counted.
LEMMA SpendType ==
    ASSUME budget \in [edits : Nat, crashes : Nat, backs : Nat],
           \/ Spend \/ Within([budget EXCEPT !.backs = @ + 1])
           \/ Within([budget EXCEPT !.crashes = @ + 1])
    PROVE  budget' \in [edits : Nat, crashes : Nat, backs : Nat]
  BY DEF Spend, Within

\* _edit keeps the generation and the creation, and adds one revision.
LEMMA EditedRow ==
    ASSUME NEW r \in Row, NEW p \in Payloads, NEW w \in Whens, NEW s \in States
    PROVE  /\ [r EXCEPT !.payload = p, !.when = w, !.state = s, !.rev = @ + 1]
                = [gen |-> r.gen, rev |-> r.rev + 1, payload |-> p, when |-> w, state |-> s,
                   created |-> r.created]
           /\ [r EXCEPT !.payload = p, !.when = w, !.state = s, !.rev = @ + 1] \in Row
  <1>1. r = [gen |-> r.gen, rev |-> r.rev, payload |-> r.payload, when |-> r.when,
             state |-> r.state, created |-> r.created]
    BY DEF Row
  <1>2. PICK n : n = [r EXCEPT !.payload = p, !.when = w, !.state = s, !.rev = @ + 1]
    OBVIOUS
  <1>5. n = [gen |-> r.gen, rev |-> r.rev + 1, payload |-> p, when |-> w, state |-> s,
             created |-> r.created]
    BY <1>1, <1>2
  <1>3. r.gen \in Nat /\ r.created \in Nat /\ r.rev + 1 \in Nat \ {0}
    BY DEF Row
  <1>4. [gen |-> r.gen, rev |-> r.rev + 1, payload |-> p, when |-> w, state |-> s,
         created |-> r.created] \in Row
    BY <1>3 DEF Row
  <1> QED
    BY <1>2, <1>4, <1>5

\* Every step keeps the types.
LEMMA TypeStep == TypeOK /\ PassConsistent /\ ClaimHeld /\ [Next]_vars => TypeOK'
  <1> SUFFICES ASSUME TypeOK, PassConsistent, ClaimHeld, [Next]_vars
               PROVE  TypeOK'
    OBVIOUS
  <1> DEFINE RunnerType ==
        [pc : {"idle", "claiming", "resolved", "claimed", "advanced"},
         pending : SUBSET EntryType, claims : Nat, entry : EntryType \cup {NoRow},
         snapshot : BOOLEAN, guarded : BOOLEAN]
  <1>0. runner \in RunnerType
    BY DEF TypeOK
  <1>1. ASSUME NEW id \in Ids, NEW p \in Payloads, NEW w \in Whens, Create(id, p, w)
        PROVE  TypeOK'
    <2>1. [gen |-> gens + 1, rev |-> FirstRevision(id), payload |-> p, when |-> w,
           state |-> "pending", created |-> now] \in Row
      BY DEF Row, States, FirstRevision, TypeOK
    <2>2. budget' \in [edits : Nat, crashes : Nat, backs : Nat]
      BY <1>1, SpendType DEF Create, TypeOK
    <2> QED
      BY <1>1, <2>1, <2>2 DEF Create, Publish, TypeOK
  <1>2. ASSUME NEW id \in Ids, NEW p \in Payloads, NEW w \in Whens, NEW s \in States,
               Edit(id, p, w, s)
        PROVE  TypeOK'
    <2>1. [rows[id] EXCEPT !.payload = p, !.when = w, !.state = s, !.rev = @ + 1] \in Row
      <3>1. rows[id] \in Row
        BY <1>2 DEF Edit, TypeOK
      <3> QED
        BY <3>1, EditedRow
    <2>2. budget' \in [edits : Nat, crashes : Nat, backs : Nat]
      BY <1>2, SpendType DEF Edit, TypeOK
    <2> QED
      BY <1>2, <2>1, <2>2 DEF Edit, Publish, TypeOK
  <1>3. ASSUME NEW id \in Ids, Reaffirm(id)
        PROVE  TypeOK'
    <2>1. [rows[id] EXCEPT !.rev = @ + 1] \in Row
      BY <1>3 DEF Reaffirm, Row, TypeOK
    <2>2. budget' \in [edits : Nat, crashes : Nat, backs : Nat]
      BY <1>3, SpendType DEF Reaffirm, TypeOK
    <2> QED
      BY <1>3, <2>1, <2>2 DEF Reaffirm, Publish, TypeOK
  <1>4. ASSUME NEW id \in Ids, DeleteRetire(id)
        PROVE  TypeOK'
    <2>1. RetiredFloor(id) \in Nat
      BY <1>4 DEF DeleteRetire, RetiredFloor, MaxOf, Row, TypeOK
    <2>2. budget' \in [edits : Nat, crashes : Nat, backs : Nat]
      BY <1>4, SpendType DEF DeleteRetire, TypeOK
    <2> QED
      BY <1>4, <2>1, <2>2 DEF DeleteRetire, TypeOK
  <1>5. CASE DeleteRow
    BY <1>5 DEF DeleteRow, TypeOK
  <1>6. CASE Scan
    <2>1. {Entry(id) : id \in {i \in Ids : HasSlot(i)}} \in SUBSET EntryType
      BY EntryFound
    <2>2. runner' \in RunnerType
      BY <1>6, <2>1 DEF Scan, Idle
    <2> QED
      BY <1>6, <2>2 DEF Scan, TypeOK
  <1>7. CASE EndPass
    <2>1. runner' \in RunnerType
      BY <1>7, IdleType DEF EndPass
    <2> QED
      BY <1>7, <2>1 DEF EndPass, TypeOK
  <1>8. ASSUME NEW e \in runner.pending, Resolve(e)
        PROVE  TypeOK'
    <2>1. e \in EntryType
      BY <1>0
    <2>2. NeedsTarget(e) \in BOOLEAN
      BY DEF NeedsTarget
    <2>3. runner' = [runner EXCEPT !.pc = "resolved", !.entry = e,
                       !.pending = runner.pending \ {e}, !.claims = runner.claims + 1,
                       !.snapshot = NeedsTarget(e), !.guarded = NeedsTarget(e)]
      BY <1>8 DEF Resolve
    <2>4. runner.pending \ {e} \in SUBSET EntryType /\ runner.claims + 1 \in Nat
      BY <1>0
    <2>5. runner' \in RunnerType
      BY <1>0, <2>1, <2>2, <2>3, <2>4
    <2> QED
      BY <1>8, <2>5 DEF Resolve, TypeOK
  <1>9. CASE RecheckEnd \/ ResolveError \/ ClaimConflict
    <2>1. runner' \in RunnerType
      BY <1>0, <1>9 DEF RecheckEnd, ResolveError, ClaimConflict
    <2> QED
      BY <1>9, <2>1 DEF RecheckEnd, ResolveError, ClaimConflict, TypeOK
  <1>10. CASE ClaimOccurrence
    <2>1. runner.entry \in EntryType /\ rows[runner.entry.id] # NoRow
      BY <1>10 DEF ClaimOccurrence, ClaimRefused, PassConsistent, Holding
    <2>2. rows[runner.entry.id] \in Row
      BY <2>1 DEF TypeOK, EntryType
    <2>3. Frozen(runner.entry, rows[runner.entry.id]) \in
             [gen : Nat, at : Nat, end : Nat, id : Ids, row : Row,
              state : {"pending", "missed"}]
      BY <2>1, <2>2 DEF Frozen, EntryType, Slot, Row
    <2>4. runner' \in RunnerType
      BY <1>0, <1>10 DEF ClaimOccurrence
    <2> QED
      BY <1>10, <2>3, <2>4 DEF ClaimOccurrence, Claimed, TypeOK
  <1>11. CASE AdvanceProgress
    <2>1. runner.entry \in EntryType /\ rows[runner.entry.id] = runner.entry.row
      BY <1>11 DEF AdvanceProgress, PassConsistent, ClaimHeld, Holding
    <2>2. [gen |-> rows[runner.entry.id].gen, last_slot |-> runner.entry.slot.at]
             \in [gen : Nat, last_slot : Nat]
      BY <2>1 DEF EntryType, Row, Slot
    <2>3. progress' \in [Ids -> [gen : Nat, last_slot : Nat] \cup {NoRow}]
      BY <1>11, <2>1, <2>2 DEF AdvanceProgress, TypeOK, EntryType
    <2>4. runner' \in RunnerType
      BY <1>0, <1>11 DEF AdvanceProgress
    <2> QED
      BY <1>11, <2>3, <2>4 DEF AdvanceProgress, TypeOK
  <1>12. CASE PushUpcoming
    <2>1. runner.entry \in EntryType
      BY <1>12 DEF PushUpcoming, PassConsistent, Holding
    <2>2. HasSlot(runner.entry.id) => Entry(runner.entry.id) \in EntryType
      BY <2>1, EntryFound DEF EntryType
    <2>3. runner' \in RunnerType
      BY <1>0, <1>12, <2>2 DEF PushUpcoming
    <2> QED
      BY <1>12, <2>3 DEF PushUpcoming, TypeOK
  <1>13. CASE Tick \/ ClockBack
    <2>1. CASE Tick
      BY <2>1 DEF Tick, TypeOK
    <2>2. CASE ClockBack
      <3>1. budget' \in [edits : Nat, crashes : Nat, backs : Nat]
        BY <2>2, SpendType DEF ClockBack, TypeOK
      <3> QED
        BY <2>2, <3>1 DEF ClockBack, TypeOK
    <2> QED
      BY <1>13, <2>1, <2>2
  <1>14. CASE Crash
    <2>1. budget' \in [edits : Nat, crashes : Nat, backs : Nat]
      BY <1>14, SpendType DEF Crash, TypeOK
    <2>2. runner' \in RunnerType
      BY <1>14, IdleType DEF Crash
    <2> QED
      BY <1>14, <2>1, <2>2 DEF Crash, TypeOK
  <1>15. CASE UNCHANGED vars
    BY <1>15 DEF vars, TypeOK
  <1> QED
    BY <1>1, <1>2, <1>3, <1>4, <1>5, <1>6, <1>7, <1>8, <1>9, <1>10, <1>11, <1>12,
       <1>13, <1>14, <1>15 DEF Next, RunnerStep

----------------------------------------------------------------------------
(* ETags.                                                                  *)

Ledger == Minted /\ RevisionsCovered /\ ETagNeverRecycled

\* A row published with a revision above the live one and above the floor.
LEMMA PublishStep ==
    ASSUME TypeOK, Ledger, NEW id \in Ids, NEW row \in Row, Publish(id, row),
           gens' \in Nat, gens <= gens', row.gen <= gens',
           writer # id, UNCHANGED <<retired, progress, writer>>,
           row.rev > retired[id], rows[id] # NoRow => row.rev > rows[id].rev
    PROVE  Ledger'
  <1>1. /\ rows' = [rows EXCEPT ![id] = row] /\ rows'[id] = row /\ row # NoRow
        /\ etags' = etags \cup {[id |-> id, row |-> row]}
    BY NoRowAssumption DEF Publish, TypeOK
  <1>2. \A e \in etags : /\ e.id \in Ids /\ e.row \in Row /\ e.row.rev \in Nat /\ e.row.gen \in Nat
                         /\ e.id = id => e.row.rev < row.rev
    <2> SUFFICES ASSUME NEW e \in etags
                 PROVE  /\ e.id \in Ids /\ e.row \in Row /\ e.row.rev \in Nat /\ e.row.gen \in Nat
                        /\ e.id = id => e.row.rev < row.rev
      OBVIOUS
    <2>1. e.id \in Ids /\ e.row \in Row /\ e.row.rev \in Nat /\ e.row.gen \in Nat
      BY DEF TypeOK, Row
    <2>2. /\ row.rev \in Nat /\ retired[id] \in Nat
          /\ rows[id] # NoRow => rows[id].rev \in Nat
      BY DEF TypeOK, Row
    <2> QED
      BY <2>1, <2>2 DEF Ledger, RevisionsCovered
  <1>3. Minted'
    <2>1. \A e \in etags' : e.row.gen <= gens'
      BY <1>1, <1>2 DEF Ledger, Minted, TypeOK
    <2>2. \A i \in Ids : progress'[i] # NoRow => progress'[i].gen <= gens'
      BY DEF Ledger, Minted, TypeOK
    <2>3. \A i \in Ids : rows'[i] # NoRow => [id |-> i, row |-> rows'[i]] \in etags'
      BY <1>1 DEF Ledger, Minted, TypeOK
    <2> QED
      BY <2>1, <2>2, <2>3 DEF Minted
  <1>4. RevisionsCovered'
    <2>1. ASSUME NEW e \in etags'
          PROVE  e.row.rev <= IF rows'[e.id] = NoRow THEN retired'[e.id] ELSE rows'[e.id].rev
      <3>1. CASE e = [id |-> id, row |-> row]
        BY <3>1, <1>1 DEF Row
      <3>2. CASE e \in etags /\ e.id = id
        BY <3>2, <1>1, <1>2 DEF Row
      <3>3. CASE e \in etags /\ e.id # id
        BY <3>3, <1>1, <1>2 DEF Ledger, RevisionsCovered, TypeOK
      <3> QED
        BY <2>1, <3>1, <3>2, <3>3, <1>1
    <2>2. ASSUME NEW i \in Ids, rows'[i] # NoRow
          PROVE  retired'[i] <= rows'[i].rev
      BY <2>2, <1>1 DEF Ledger, RevisionsCovered, TypeOK, Row
    <2>3. writer' # NoRow => (rows'[writer'] # NoRow => rows'[writer'].rev <= retired'[writer'])
      BY <1>1 DEF Ledger, RevisionsCovered, TypeOK
    <2> QED
      BY <2>1, <2>2, <2>3 DEF RevisionsCovered
  <1>5. ETagNeverRecycled'
    <2>1. ASSUME NEW e \in etags', NEW f \in etags', e.id = f.id, e.row.rev = f.row.rev
          PROVE  e.row = f.row
      <3>1. CASE e \in etags /\ f \in etags
        BY <2>1, <3>1 DEF Ledger, ETagNeverRecycled
      <3>2. CASE e = [id |-> id, row |-> row] /\ f \in etags
        BY <2>1, <3>2, <1>2 DEF Row
      <3>3. CASE e \in etags /\ f = [id |-> id, row |-> row]
        BY <2>1, <3>3, <1>2 DEF Row
      <3> QED
        BY <2>1, <3>1, <3>2, <3>3, <1>1
    <2> QED
      BY <2>1 DEF ETagNeverRecycled
  <1> QED
    BY <1>3, <1>4, <1>5 DEF Ledger

\* Every step keeps the record of what was issued.
LEMMA LedgerStep ==
    TypeOK /\ Ledger /\ PassConsistent /\ ClaimHeld /\ [Next]_vars => Ledger'
  <1> SUFFICES ASSUME TypeOK, Ledger, PassConsistent, ClaimHeld, [Next]_vars
               PROVE  Ledger'
    OBVIOUS
  <1>1. ASSUME NEW id \in Ids, NEW p \in Payloads, NEW w \in Whens, Create(id, p, w)
        PROVE  Ledger'
    <2> DEFINE row == [gen |-> gens + 1, rev |-> FirstRevision(id), payload |-> p,
                       when |-> w, state |-> "pending", created |-> now]
    <2>1. /\ row \in Row /\ row.gen = gens + 1 /\ row.rev > retired[id] /\ gens \in Nat
      BY DEF Row, States, FirstRevision, TypeOK
    <2>2. /\ writer = NoRow /\ rows[id] = NoRow /\ Publish(id, row) /\ gens' = gens + 1
          /\ UNCHANGED <<retired, progress, writer>>
      BY <1>1 DEF Create, Writable
    <2> HIDE DEF row
    <2> QED
      BY <2>1, <2>2, PublishStep, NoRowAssumption
  <1>2. ASSUME NEW id \in Ids, NEW p \in Payloads, NEW w \in Whens, NEW s \in States,
               Edit(id, p, w, s)
        PROVE  Ledger'
    <2>0. PICK row : row = [rows[id] EXCEPT !.payload = p, !.when = w, !.state = s, !.rev = @ + 1]
      OBVIOUS
    <2>1. rows[id] \in Row /\ rows[id] # NoRow
      BY <1>2 DEF Edit, TypeOK
    <2>2. row \in Row /\ row.gen = rows[id].gen /\ row.rev = rows[id].rev + 1
      <3>1. /\ row = [gen |-> rows[id].gen, rev |-> rows[id].rev + 1, payload |-> p,
                      when |-> w, state |-> s, created |-> rows[id].created]
            /\ row \in Row
        BY <2>0, <2>1, EditedRow, ZenonT(60)
      <3> QED
        BY <3>1
    <2>3. /\ writer = NoRow /\ Publish(id, row) /\ UNCHANGED <<retired, progress, writer, gens>>
      BY <1>2, <2>0 DEF Edit, Writable
    <2>4. /\ rows[id].gen <= gens /\ retired[id] <= rows[id].rev
          /\ gens \in Nat /\ retired[id] \in Nat /\ rows[id].rev \in Nat
      BY <2>1, ZenonT(60) DEF Ledger, Minted, RevisionsCovered, TypeOK, Row
    <2> QED
      BY <2>1, <2>2, <2>3, <2>4, PublishStep, NoRowAssumption
  <1>3. ASSUME NEW id \in Ids, Reaffirm(id)
        PROVE  Ledger'
    <2> DEFINE row == [rows[id] EXCEPT !.rev = @ + 1]
    <2>1. rows[id] \in Row /\ rows[id] # NoRow
      BY <1>3 DEF Reaffirm, TypeOK
    <2>2. row \in Row /\ row.gen = rows[id].gen /\ row.rev = rows[id].rev + 1
      BY <2>1 DEF Row
    <2>3. /\ writer # id /\ Publish(id, row) /\ UNCHANGED <<retired, progress, writer, gens>>
      BY <1>3 DEF Reaffirm
    <2> HIDE DEF row
    <2>4. /\ rows[id].gen <= gens /\ retired[id] <= rows[id].rev
          /\ gens \in Nat /\ retired[id] \in Nat /\ rows[id].rev \in Nat
      BY <2>1 DEF Ledger, Minted, RevisionsCovered, TypeOK, Row
    <2> QED
      BY <2>1, <2>2, <2>3, <2>4, PublishStep
  <1>4. ASSUME NEW id \in Ids, DeleteRetire(id)
        PROVE  Ledger'
    <2>1. rows[id] \in Row /\ rows[id] # NoRow /\ rows[id].rev \in Nat /\ retired[id] \in Nat
      BY <1>4 DEF DeleteRetire, TypeOK, Row
    <2>2. retired[id] <= rows[id].rev
      BY <2>1 DEF Ledger, RevisionsCovered
    <2>3. /\ retired' = [retired EXCEPT ![id] = rows[id].rev] /\ writer' = id
          /\ UNCHANGED <<rows, progress, gens, etags>>
      BY <1>4, <2>1, <2>2 DEF DeleteRetire, RetiredFloor, MaxOf
    <2>4. Minted' /\ ETagNeverRecycled'
      BY <2>3 DEF Ledger, Minted, ETagNeverRecycled
    <2>5. RevisionsCovered'
      BY <2>1, <2>3 DEF Ledger, RevisionsCovered, TypeOK
    <2> QED
      BY <2>4, <2>5 DEF Ledger
  <1>5. CASE DeleteRow
    <2>1. /\ writer \in Ids /\ rows' = [rows EXCEPT ![writer] = NoRow] /\ writer' = NoRow
          /\ writer # NoRow /\ UNCHANGED <<retired, progress, gens, etags>>
      BY <1>5 DEF DeleteRow, TypeOK
    <2>2. Minted' /\ ETagNeverRecycled'
      BY <2>1 DEF Ledger, Minted, ETagNeverRecycled, TypeOK
    <2>3. ASSUME NEW e \in etags
          PROVE  e.row.rev <= IF rows'[e.id] = NoRow THEN retired[e.id] ELSE rows'[e.id].rev
      <3>1. e.id \in Ids /\ e.row.rev \in Nat /\ retired[e.id] \in Nat
            /\ (rows[e.id] # NoRow => rows[e.id].rev \in Nat)
        BY DEF TypeOK, Row
      <3> QED
        BY <2>1, <3>1 DEF Ledger, RevisionsCovered, TypeOK
    <2>4. RevisionsCovered'
      BY <2>1, <2>3 DEF Ledger, RevisionsCovered, TypeOK
    <2> QED
      BY <2>2, <2>4 DEF Ledger
  <1>6. CASE AdvanceProgress
    <2> DEFINE e == runner.entry
    <2>1. /\ e.id \in Ids /\ rows[e.id] = e.row /\ e.row \in Row
          /\ e.row # NoRow
      BY <1>6, NoRowAssumption DEF AdvanceProgress, PassConsistent, Holding, ClaimHeld, EntryType
    <2>2. rows[e.id].gen <= gens
      BY <2>1 DEF Ledger, Minted
    <2>3. ASSUME NEW id \in Ids, progress'[id] # NoRow
          PROVE  progress'[id].gen <= gens
      BY <1>6, <2>1, <2>2, <2>3 DEF AdvanceProgress, Ledger, Minted, TypeOK
    <2>4. UNCHANGED <<rows, retired, gens, etags, writer>>
      BY <1>6 DEF AdvanceProgress
    <2> QED
      BY <2>3, <2>4 DEF Ledger, Minted, RevisionsCovered, ETagNeverRecycled
  <1>7. CASE Crash
    BY <1>7 DEF Crash, Ledger, Minted, RevisionsCovered, ETagNeverRecycled
  <1>8. CASE UNCHANGED <<rows, retired, progress, gens, writer, etags>>
    BY <1>8 DEF Ledger, Minted, RevisionsCovered, ETagNeverRecycled
  <1>9. ASSUME \/ Scan \/ EndPass \/ (\E e \in runner.pending : Resolve(e)) \/ RecheckEnd
               \/ ResolveError \/ ClaimConflict \/ ClaimOccurrence \/ PushUpcoming
               \/ Tick \/ ClockBack \/ UNCHANGED vars
        PROVE  UNCHANGED <<rows, retired, progress, gens, writer, etags>>
    BY <1>9 DEF Scan, EndPass, Resolve, RecheckEnd, ResolveError, ClaimConflict, ClaimOccurrence,
           PushUpcoming, Tick, ClockBack, vars
  <1>10. RunnerStep => Ledger'
    BY <1>6, <1>8, <1>9 DEF RunnerStep
  <1> QED
    BY <1>1, <1>2, <1>3, <1>4, <1>5, <1>7, <1>8, <1>9, <1>10 DEF Next

----------------------------------------------------------------------------
(* The pass.                                                               *)

\* What an entry owes depends on the cursor of its schedule alone.
LEMMA OwedKept ==
    ASSUME NEW e, progress'[e.id] = progress[e.id], FirstOwed(e)
    PROVE  FirstOwed(e)'
  BY DEF FirstOwed, Cursor

\* Steps of the writers, the clock and nobody leave the pass as it is.
LEMMA PassKept ==
    ASSUME TypeOK, PassConsistent, UNCHANGED <<runner, progress>>, etags \subseteq etags'
    PROVE  PassConsistent'
  <1>1. \A e \in Uncounted : FirstOwed(e)'
    BY OwedKept DEF PassConsistent
  <1>2. Uncounted' = Uncounted /\ Holding' = Holding
    BY DEF Uncounted, Holding
  <1> QED
    BY <1>1, <1>2 DEF PassConsistent

\* ... and the claim, as long as they spare the claimed schedule.
LEMMA ClaimKept ==
    ASSUME ClaimHeld, UNCHANGED <<runner, occurrences>>,
           runner.pc = "claimed" => /\ rows'[runner.entry.id] = rows[runner.entry.id]
                                    /\ writer' # runner.entry.id
    PROVE  ClaimHeld'
  BY DEF ClaimHeld, HasOccurrence

\* Every step keeps the pass and its claim.
LEMMA PassStep ==
    TypeOK /\ Ledger /\ PassConsistent /\ ClaimHeld /\ [Next]_vars
        => PassConsistent' /\ ClaimHeld'
  <1> SUFFICES ASSUME TypeOK, Ledger, PassConsistent, ClaimHeld, [Next]_vars
               PROVE  PassConsistent' /\ ClaimHeld'
    OBVIOUS
  <1>0. runner.pc = "claimed" => runner.entry \in EntryType /\ runner.entry.id \in Ids
    BY DEF PassConsistent, Holding, EntryType
  <1>1. ASSUME NEW id \in Ids,
               \/ \E p \in Payloads, w \in Whens : Create(id, p, w)
               \/ \E p \in Payloads, w \in Whens, s \in States : Edit(id, p, w, s)
               \/ Reaffirm(id)
        PROVE  PassConsistent' /\ ClaimHeld'
    <2>1. /\ UNCHANGED <<runner, progress, occurrences, writer>> /\ etags \subseteq etags'
          /\ \E row : rows' = [rows EXCEPT ![id] = row]
          /\ ~ShardHeldByClaim(id)
      BY <1>1 DEF Create, Edit, Reaffirm, Publish, Writable
    <2>2. runner.pc = "claimed" => /\ rows'[runner.entry.id] = rows[runner.entry.id]
                                   /\ writer' # runner.entry.id
      BY <2>1, <1>0 DEF ShardHeldByClaim, ClaimHeld, TypeOK
    <2> QED
      BY <2>1, <2>2, PassKept, ClaimKept
  <1>2. ASSUME NEW id \in Ids, DeleteRetire(id)
        PROVE  PassConsistent' /\ ClaimHeld'
    <2>1. /\ UNCHANGED <<runner, progress, occurrences, rows, etags>> /\ writer' = id
          /\ ~ShardHeldByClaim(id)
      BY <1>2 DEF DeleteRetire, Writable
    <2> QED
      BY <2>1, PassKept, ClaimKept DEF ShardHeldByClaim
  <1>3. CASE DeleteRow
    <2>1. /\ UNCHANGED <<runner, progress, occurrences, etags>> /\ writer' = NoRow
          /\ rows' = [rows EXCEPT ![writer] = NoRow]
      BY <1>3 DEF DeleteRow
    <2>2. runner.pc = "claimed" => /\ rows'[runner.entry.id] = rows[runner.entry.id]
                                   /\ writer' # runner.entry.id
      BY <2>1, <1>0, NoRowAssumption DEF ClaimHeld, TypeOK
    <2> QED
      BY <2>1, <2>2, PassKept, ClaimKept
  <1>4. CASE Scan
    <2> DEFINE found == {Entry(id) : id \in {i \in Ids : HasSlot(i)}}
    <2>1. /\ runner' = [Idle EXCEPT !.pc = "claiming", !.pending = found]
          /\ UNCHANGED <<progress, etags>>
      BY <1>4 DEF Scan
    <2>2. /\ runner'.pc = "claiming" /\ runner'.pending = found
      BY <2>1 DEF Idle
    <2>3. ~Holding' /\ Uncounted' = found
      BY <2>2 DEF Holding, Uncounted
    <2>4. ASSUME NEW e \in found
          PROVE  /\ [id |-> e.id, row |-> e.row] \in etags /\ FirstOwed(e)
                 /\ e = Entry(e.id)
      <3>1. PICK id \in Ids : HasSlot(id) /\ e = Entry(id)
        BY <2>4
      <3>2. e.id = id /\ e.row = rows[id] /\ FirstOwed(e)
        BY <3>1, EntryFound
      <3>3. rows[id] # NoRow
        BY <3>1 DEF HasSlot
      <3> QED
        BY <3>1, <3>2, <3>3 DEF Ledger, Minted
    <2> HIDE DEF found
    <2>5. \A e \in found : FirstOwed(e)'
      BY <2>1, <2>4, OwedKept
    <2>6. \A e, f \in found : e.id = f.id => e = f
      BY <2>4
    <2>7. PassConsistent'
      BY <2>1, <2>2, <2>3, <2>4, <2>5, <2>6 DEF PassConsistent
    <2> QED
      BY <2>2, <2>7 DEF ClaimHeld
  <1>5. CASE EndPass \/ Crash
    <2>1. runner'.pc = "idle" /\ runner'.pending = {}
      BY <1>5, IdleType DEF EndPass, Crash
    <2> QED
      BY <2>1 DEF PassConsistent, ClaimHeld, Holding, Uncounted
  <1>6. ASSUME NEW e \in runner.pending, Resolve(e)
        PROVE  PassConsistent' /\ ClaimHeld'
    <2>1. /\ runner'.pc = "resolved" /\ runner'.entry = e
          /\ runner'.pending = runner.pending \ {e}
          /\ UNCHANGED <<progress, etags>>
      BY <1>6 DEF Resolve, TypeOK
    <2>2. e \in EntryType
      BY DEF TypeOK
    <2>3. Uncounted' = runner.pending
      BY <2>1 DEF Uncounted
    <2>4. \A f \in runner.pending : /\ [id |-> f.id, row |-> f.row] \in etags
                                    /\ FirstOwed(f)'
      BY <2>1, OwedKept DEF PassConsistent, Uncounted
    <2>5. PassConsistent'
      BY <2>1, <2>2, <2>3, <2>4 DEF PassConsistent
    <2> QED
      BY <2>1, <2>5 DEF ClaimHeld
  <1>7. CASE RecheckEnd
    <2>1. /\ runner'.pc = runner.pc /\ runner'.entry = runner.entry /\ runner.pc = "resolved"
          /\ runner'.pending = runner.pending /\ UNCHANGED <<progress, etags>>
      BY <1>7 DEF RecheckEnd, TypeOK
    <2>2. Uncounted' = Uncounted /\ Holding' = Holding
      BY <2>1 DEF Uncounted, Holding
    <2>3. \A e \in Uncounted : FirstOwed(e)'
      BY <2>1, OwedKept DEF PassConsistent
    <2> QED
      BY <2>1, <2>2, <2>3 DEF PassConsistent, ClaimHeld
  <1>8. CASE ResolveError \/ ClaimConflict
    <2>1. /\ runner'.pc = "claiming" /\ runner'.pending = runner.pending
          /\ UNCHANGED <<progress, etags>>
      BY <1>8 DEF ResolveError, ClaimConflict, TypeOK
    <2>2. Uncounted' = runner.pending /\ ~Holding' /\ runner.pending \subseteq Uncounted
      BY <2>1 DEF Uncounted, Holding
    <2>3. \A e \in runner.pending : FirstOwed(e)'
      BY <2>1, <2>2, OwedKept DEF PassConsistent
    <2> QED
      BY <2>1, <2>2, <2>3 DEF PassConsistent, ClaimHeld
  <1>9. CASE ClaimOccurrence
    <2> DEFINE e == runner.entry
    <2>1. /\ runner.pc = "resolved" /\ runner'.pc = "claimed" /\ runner'.entry = e
          /\ runner'.pending = runner.pending /\ UNCHANGED <<progress, etags, rows, writer>>
          /\ writer # e.id /\ occurrences' = Claimed(e, rows[e.id]) /\ ~ClaimRefused(e)
      BY <1>9 DEF ClaimOccurrence, TypeOK
    <2>2. Uncounted' = Uncounted /\ Holding /\ Holding' /\ e \in Uncounted
      BY <2>1 DEF Uncounted, Holding
    <2>3. \A f \in Uncounted : FirstOwed(f)'
      BY <2>1, OwedKept DEF PassConsistent
    <2>4. PassConsistent'
      BY <2>1, <2>2, <2>3 DEF PassConsistent
    <2>5. e.id \in Ids /\ rows[e.id] # NoRow /\ rows[e.id].rev = e.row.rev
      BY <2>1, <2>2 DEF ClaimRefused, PassConsistent, EntryType
    <2>6. rows[e.id] = e.row
      <3>1. /\ [id |-> e.id, row |-> e.row] \in etags
            /\ [id |-> e.id, row |-> rows[e.id]] \in etags
        BY <2>2, <2>5 DEF PassConsistent, Ledger, Minted
      <3> QED
        BY <2>5, <3>1 DEF Ledger, ETagNeverRecycled
    <2>7. \E o \in Claimed(e, rows[e.id]) : o.gen = e.row.gen /\ o.at = e.slot.at
      <3>1. CASE Existing(e.row.gen, e.slot.at) = {}
        <4>1. Frozen(e, rows[e.id]) \in Claimed(e, rows[e.id])
          BY <2>6, <3>1 DEF Claimed
        <4>2. Frozen(e, rows[e.id]).gen = e.row.gen /\ Frozen(e, rows[e.id]).at = e.slot.at
          BY <2>6 DEF Frozen
        <4> QED
          BY <4>1, <4>2
      <3>2. CASE Existing(e.row.gen, e.slot.at) # {}
        BY <2>6, <3>2 DEF Claimed, Existing
      <3> QED
        BY <3>1, <3>2
    <2> QED
      BY <2>1, <2>4, <2>6, <2>7 DEF ClaimHeld, HasOccurrence
  <1>10. CASE AdvanceProgress
    <2> DEFINE e == runner.entry
    <2>1. /\ runner.pc = "claimed" /\ runner'.pc = "advanced" /\ runner'.entry = e
          /\ runner'.pending = runner.pending /\ UNCHANGED etags
      BY <1>10 DEF AdvanceProgress, TypeOK
    <2>2. /\ e \in EntryType /\ e.id \in Ids /\ \A f \in runner.pending : f.id # e.id
      BY <2>1, <1>0 DEF PassConsistent, Holding
    <2>3. \A f \in runner.pending : progress'[f.id] = progress[f.id]
      BY <1>10, <2>2 DEF AdvanceProgress, TypeOK, EntryType
    <2>4. \A f \in runner.pending : FirstOwed(f)'
      BY <2>3, OwedKept DEF PassConsistent, Uncounted
    <2>5. Uncounted' = runner.pending /\ runner.pending \subseteq Uncounted
      BY <2>1 DEF Uncounted
    <2> QED
      BY <2>1, <2>2, <2>4, <2>5 DEF PassConsistent, ClaimHeld, Holding
  <1>11. CASE PushUpcoming
    <2> DEFINE id == runner.entry.id
    <2>1. /\ runner.pc = "advanced" /\ runner'.pc = "claiming" /\ UNCHANGED <<progress, etags>>
          /\ runner'.pending = IF HasSlot(id) THEN runner.pending \cup {Entry(id)} ELSE runner.pending
      BY <1>11 DEF PushUpcoming, TypeOK
    <2>2. /\ id \in Ids /\ \A f \in runner.pending : f.id # id
      BY <2>1 DEF PassConsistent, Holding, EntryType
    <2>3. HasSlot(id) => /\ Entry(id).id = id /\ Entry(id).row = rows[id] /\ FirstOwed(Entry(id))
                         /\ [id |-> id, row |-> rows[id]] \in etags
      BY <2>2, EntryFound DEF HasSlot, Ledger, Minted
    <2>4. \A f \in runner'.pending : [id |-> f.id, row |-> f.row] \in etags /\ FirstOwed(f)
      BY <2>1, <2>3 DEF PassConsistent, Uncounted
    <2>5. \A f \in runner'.pending : FirstOwed(f)'
      BY <2>1, <2>4, OwedKept
    <2>6. Uncounted' = runner'.pending /\ ~Holding'
      BY <2>1 DEF Uncounted, Holding
    <2>7. \A f, g \in runner'.pending : f.id = g.id => f = g
      BY <2>1, <2>2, <2>3 DEF PassConsistent
    <2> QED
      BY <2>1, <2>4, <2>5, <2>6, <2>7 DEF PassConsistent, ClaimHeld
  <1>12. CASE Tick \/ ClockBack \/ UNCHANGED vars
    <2>1. UNCHANGED <<runner, progress, occurrences, rows, writer, etags>>
      BY <1>12 DEF Tick, ClockBack, vars
    <2> QED
      BY <2>1, PassKept, ClaimKept DEF ClaimHeld
  <1>13. RunnerStep => PassConsistent' /\ ClaimHeld'
    BY <1>4, <1>5, <1>6, <1>7, <1>8, <1>9, <1>10, <1>11 DEF RunnerStep
  <1> QED
    BY <1>1, <1>2, <1>3, <1>5, <1>12, <1>13 DEF Next

----------------------------------------------------------------------------
(* Occurrences and cursors.                                                *)

Claims == OneOccurrencePerSlot /\ OccurrenceMatchesItsDefinition /\ CursorNamesClaimedSlot

\* Every step keeps what the occurrences and cursors say, and removes none.
LEMMA ClaimsStep ==
    TypeOK /\ Ledger /\ PassConsistent /\ ClaimHeld /\ Claims /\ [Next]_vars
        => Claims' /\ occurrences \subseteq occurrences'
  <1> SUFFICES ASSUME TypeOK, Ledger, PassConsistent, ClaimHeld, Claims, [Next]_vars
               PROVE  Claims' /\ occurrences \subseteq occurrences'
    OBVIOUS
  <1>1. CASE ClaimOccurrence
    <2> DEFINE e == runner.entry
               live == rows[e.id]
    <2>1. /\ runner.pc = "resolved" /\ UNCHANGED <<progress, etags>>
          /\ occurrences' = Claimed(e, live) /\ ~ClaimRefused(e)
      BY <1>1 DEF ClaimOccurrence
    <2>2. occurrences \subseteq occurrences'
      BY <2>1 DEF Claimed
    <2>3. CursorNamesClaimedSlot'
      BY <2>1, <2>2 DEF Claims, CursorNamesClaimedSlot, HasOccurrence
    <2>4. CASE Existing(live.gen, e.slot.at) # {}
      BY <2>1, <2>2, <2>3, <2>4
         DEF Claimed, Claims, OneOccurrencePerSlot, OccurrenceMatchesItsDefinition
    <2>5. CASE Existing(live.gen, e.slot.at) = {}
      <3> DEFINE new == Frozen(e, live)
      <3>1. /\ occurrences' = occurrences \cup {new}
            /\ new.gen = live.gen /\ new.at = e.slot.at /\ new.end = e.slot.end
            /\ new.id = e.id /\ new.row = live
        BY <2>1, <2>5 DEF Claimed, Frozen
      <3>2. /\ e \in EntryType /\ e.id \in Ids /\ live # NoRow /\ live.state = "pending"
            /\ OccurrenceSlot(live, e.slot.at, NoCursor) = e.slot
        BY <2>1, <2>5 DEF ClaimRefused, PassConsistent, Holding, EntryType
      <3>3. live \in Row /\ e.slot.at \in Nat /\ [id |-> e.id, row |-> live] \in etags
        BY <3>2 DEF TypeOK, EntryType, Slot, Ledger, Minted
      <3>4. IsSlotOf(live, e.slot.at) /\ e.slot.end = e.slot.at + live.when.window
        BY <3>2, <3>3, ClaimedSlot
      <3> HIDE DEF new, live, e
      <3>5. OccurrenceMatchesItsDefinition'
        BY <2>1, <3>1, <3>2, <3>3, <3>4 DEF Claims, OccurrenceMatchesItsDefinition
      <3>6. \A o \in occurrences : ~(o.gen = new.gen /\ o.at = new.at)
        BY <2>5, <3>1 DEF Existing
      <3>7. OneOccurrencePerSlot'
        BY <3>1, <3>6 DEF Claims, OneOccurrencePerSlot
      <3> QED
        BY <2>2, <2>3, <3>5, <3>7 DEF Claims
    <2> QED
      BY <2>4, <2>5
  <1>2. CASE AdvanceProgress
    <2> DEFINE e == runner.entry
    <2>1. /\ runner.pc = "claimed" /\ UNCHANGED <<occurrences, etags>> /\ e.id \in Ids
          /\ HasOccurrence(rows[e.id].gen, e.slot.at)
      BY <1>2 DEF AdvanceProgress, ClaimHeld, PassConsistent, Holding, EntryType
    <2>2. \A id \in Ids :
             \/ progress'[id] = progress[id]
             \/ id = e.id /\ progress'[id] = [gen |-> rows[e.id].gen, last_slot |-> e.slot.at]
      BY <1>2, <2>1 DEF AdvanceProgress, TypeOK
    <2>3. CursorNamesClaimedSlot'
      BY <2>1, <2>2 DEF Claims, CursorNamesClaimedSlot, HasOccurrence
    <2> QED
      BY <2>1, <2>3 DEF Claims, OneOccurrencePerSlot, OccurrenceMatchesItsDefinition
  <1>3. CASE UNCHANGED <<occurrences, progress>> /\ etags \subseteq etags'
    BY <1>3 DEF Claims, OneOccurrencePerSlot, OccurrenceMatchesItsDefinition,
                CursorNamesClaimedSlot, HasOccurrence
  <1>4. ASSUME \/ \E id \in Ids, p \in Payloads, w \in Whens : Create(id, p, w)
               \/ \E id \in Ids, p \in Payloads, w \in Whens, s \in States : Edit(id, p, w, s)
               \/ \E id \in Ids : Reaffirm(id) \/ DeleteRetire(id)
               \/ DeleteRow \/ Scan \/ EndPass \/ (\E e \in runner.pending : Resolve(e))
               \/ RecheckEnd \/ ResolveError \/ ClaimConflict \/ PushUpcoming
               \/ Tick \/ ClockBack \/ Crash \/ UNCHANGED vars
        PROVE  UNCHANGED <<occurrences, progress>> /\ etags \subseteq etags'
    BY <1>4 DEF Create, Edit, Reaffirm, DeleteRetire, DeleteRow, Publish, Scan, EndPass, Resolve,
                RecheckEnd, ResolveError, ClaimConflict, PushUpcoming, Tick, ClockBack, Crash, vars
  <1> QED
    BY <1>1, <1>2, <1>3, <1>4 DEF Next, RunnerStep

----------------------------------------------------------------------------
(* No slot is passed over.                                                 *)

\* NoSlotSkipped for one schedule.
Accounted(id) ==
    rows[id] # NoRow /\ Cursor(id, rows[id]) # NoCursor =>
        LET row == rows[id] IN
        (/\ row.when.kind = "recurring"
         /\ \A e \in etags : e.row.gen = row.gen => e.row.when = row.when)
        => \A t \in row.created .. Cursor(id, row) :
               IsSlotOf(row, t) => HasOccurrence(row.gen, t)

\* A step that keeps the cursor and writes at most a revision of the same
\* generation: if the calendar is still the only one, it is the old one.
LEMMA AccountedKept ==
    ASSUME Ledger, NEW id \in Ids, Accounted(id), progress'[id] = progress[id],
           occurrences \subseteq occurrences', etags \subseteq etags',
           rows'[id] # NoRow =>
              /\ rows[id] # NoRow
              /\ rows'[id].gen = rows[id].gen /\ rows'[id].created = rows[id].created
    PROVE  Accounted(id)'
  <1> SUFFICES ASSUME rows'[id] # NoRow, Cursor(id, rows[id])' # NoCursor,
                      rows'[id].when.kind = "recurring",
                      \A e \in etags' : e.row.gen = rows'[id].gen => e.row.when = rows'[id].when,
                      NEW t \in rows'[id].created .. Cursor(id, rows[id])',
                      IsSlotOf(rows'[id], t)
               PROVE  HasOccurrence(rows[id].gen, t)'
    BY DEF Accounted
  <1>1. /\ rows[id] # NoRow /\ rows'[id].gen = rows[id].gen
        /\ rows'[id].created = rows[id].created
    OBVIOUS
  <1>2. Cursor(id, rows[id])' = Cursor(id, rows[id])
    BY <1>1 DEF Cursor
  <1>3. rows'[id].when = rows[id].when
    BY <1>1 DEF Ledger, Minted
  <1>4. IsSlotOf(rows[id], t)
    BY <1>1, <1>3 DEF IsSlotOf
  <1>5. HasOccurrence(rows[id].gen, t)
    BY <1>1, <1>2, <1>3, <1>4 DEF Accounted
  <1> QED
    BY <1>1, <1>5 DEF HasOccurrence

\* Every step keeps every slot up to the cursor accounted for.
LEMMA SkippedStep ==
    TypeOK /\ Ledger /\ PassConsistent /\ ClaimHeld /\ Claims /\ NoSlotSkipped /\ [Next]_vars
        => NoSlotSkipped'
  <1> SUFFICES ASSUME TypeOK, Ledger, PassConsistent, ClaimHeld, Claims, NoSlotSkipped,
                      [Next]_vars, NEW id \in Ids
               PROVE  Accounted(id)'
    BY DEF NoSlotSkipped, Accounted
  <1>0. Accounted(id) /\ occurrences \subseteq occurrences'
    BY ClaimsStep DEF NoSlotSkipped, Accounted
  <1>1. ASSUME NEW i \in Ids, NEW p \in Payloads, NEW w \in Whens, Create(i, p, w)
        PROVE  Accounted(id)'
    <2>1. /\ progress' = progress /\ etags \subseteq etags'
          /\ rows' = [rows EXCEPT ![i] = [gen |-> gens + 1, rev |-> FirstRevision(i),
                       payload |-> p, when |-> w, state |-> "pending", created |-> now]]
      BY <1>1 DEF Create, Publish
    <2>2. CASE i = id
      <3>1. rows'[id].gen = gens + 1
        BY <2>1, <2>2 DEF TypeOK
      <3>2. progress[id] # NoRow => progress[id].gen # gens + 1
        BY DEF TypeOK, Ledger, Minted
      <3>3. Cursor(id, rows[id])' = NoCursor
        BY <2>1, <3>1, <3>2 DEF Cursor
      <3> QED
        BY <3>3 DEF Accounted
    <2>3. CASE i # id
      <3>1. rows'[id] = rows[id]
        BY <2>1, <2>3
      <3> QED
        BY <2>1, <3>1, <1>0, AccountedKept
    <2> QED
      BY <2>2, <2>3
  <1>2. ASSUME NEW i \in Ids, NEW p \in Payloads, NEW w \in Whens, NEW s \in States, Edit(i, p, w, s)
        PROVE  Accounted(id)'
    <2>1. PICK row : row = [rows[i] EXCEPT !.payload = p, !.when = w, !.state = s, !.rev = @ + 1]
      OBVIOUS
    <2>2. /\ progress' = progress /\ etags \subseteq etags' /\ rows[i] # NoRow /\ rows[i] \in Row
          /\ rows' = [rows EXCEPT ![i] = row]
      BY <1>2, <2>1 DEF Edit, Publish, TypeOK
    <2>3. row.gen = rows[i].gen /\ row.created = rows[i].created
      <3>1. row = [gen |-> rows[i].gen, rev |-> rows[i].rev + 1, payload |-> p,
                   when |-> w, state |-> s, created |-> rows[i].created]
        BY <2>1, <2>2, EditedRow
      <3> QED
        BY <3>1
    <2>4. rows'[id] # NoRow =>
              /\ rows[id] # NoRow
              /\ rows'[id].gen = rows[id].gen /\ rows'[id].created = rows[id].created
      BY <2>2, <2>3 DEF TypeOK
    <2> QED
      BY <2>2, <2>4, <1>0, AccountedKept
  <1>3. ASSUME NEW i \in Ids, Reaffirm(i)
        PROVE  Accounted(id)'
    <2>1. /\ progress' = progress /\ etags \subseteq etags' /\ rows[i] # NoRow /\ rows[i] \in Row
          /\ rows' = [rows EXCEPT ![i] = [rows[i] EXCEPT !.rev = @ + 1]]
      BY <1>3 DEF Reaffirm, Publish, TypeOK
    <2>2. rows'[id] # NoRow =>
              /\ rows[id] # NoRow
              /\ rows'[id].gen = rows[id].gen /\ rows'[id].created = rows[id].created
      BY <2>1 DEF TypeOK, Row
    <2> QED
      BY <2>1, <2>2, <1>0, AccountedKept
  <1>4. CASE DeleteRow
    <2>1. /\ progress' = progress /\ etags' = etags /\ rows' = [rows EXCEPT ![writer] = NoRow]
      BY <1>4 DEF DeleteRow
    <2>2. rows'[id] # NoRow => rows'[id] = rows[id]
      BY <2>1 DEF TypeOK
    <2> QED
      BY <2>1, <2>2, <1>0, AccountedKept
  <1>5. CASE AdvanceProgress /\ runner.entry.id = id
    <2> DEFINE e == runner.entry
               row == e.row
    <2>1. /\ runner.pc = "claimed" /\ UNCHANGED <<rows, occurrences, etags>>
          /\ e \in EntryType /\ rows[id] = row /\ row \in Row /\ row # NoRow
          /\ e.slot.at \in Nat /\ row.gen \in Nat /\ row.created \in Nat
          /\ HasOccurrence(row.gen, e.slot.at)
      BY <1>5, NoRowAssumption
         DEF AdvanceProgress, ClaimHeld, PassConsistent, Holding, EntryType, Row, Slot
    <2>2. FirstOwed(e)
      BY <2>1 DEF PassConsistent, Uncounted
    <2>3. CASE progress' = progress
      BY <2>1, <2>3, <1>0, AccountedKept
    <2>4. CASE progress' = [progress EXCEPT ![id] = [gen |-> row.gen, last_slot |-> e.slot.at]]
      <3>1. progress'[id] = [gen |-> row.gen, last_slot |-> e.slot.at]
        BY <2>4 DEF TypeOK
      <3>2. /\ Cursor(id, rows[id])' \in {NoCursor, e.slot.at}
            /\ Cursor(id, row) \in Nat \cup {NoCursor}
        BY <2>1, <3>1 DEF Cursor, TypeOK
      <3> SUFFICES ASSUME row.when.kind = "recurring",
                          \A f \in etags : f.row.gen = row.gen => f.row.when = row.when,
                          NEW t \in row.created .. e.slot.at, IsSlotOf(row, t)
                   PROVE  HasOccurrence(row.gen, t)
        BY <2>1, <3>2 DEF Accounted, HasOccurrence
      <3>3. CASE t = e.slot.at
        BY <3>3, <2>1
      <3>4. CASE t # e.slot.at
        <4>1. t \in 0 .. e.slot.at - 1 /\ t \in Nat
          BY <3>4, <2>1
        <4>2. t <= Cursor(id, row)
          BY <4>1, <2>2, <1>5 DEF FirstOwed
        <4>3. Cursor(id, row) # NoCursor /\ t \in row.created .. Cursor(id, row)
          BY <4>1, <4>2, <3>2, <2>1 DEF NoCursor
        <4> QED
          BY <4>3, <2>1, <1>0 DEF Accounted
      <3> QED
        BY <3>3, <3>4
    <2> QED
      BY <1>5, <2>1, <2>3, <2>4 DEF AdvanceProgress
  <1>6. CASE AdvanceProgress /\ runner.entry.id # id
    <2>1. /\ UNCHANGED <<rows, etags>> /\ runner.entry.id \in Ids
      BY <1>6 DEF AdvanceProgress, PassConsistent, Holding, EntryType
    <2>2. progress'[id] = progress[id]
      BY <1>6, <2>1 DEF AdvanceProgress, TypeOK
    <2> QED
      BY <2>1, <2>2, <1>0, AccountedKept
  <1>7. CASE UNCHANGED <<rows, progress, etags>>
    BY <1>7, <1>0, AccountedKept
  <1>8. ASSUME \/ \E i \in Ids : DeleteRetire(i)
               \/ Scan \/ EndPass \/ (\E e \in runner.pending : Resolve(e))
               \/ RecheckEnd \/ ResolveError \/ ClaimConflict \/ ClaimOccurrence \/ PushUpcoming
               \/ Tick \/ ClockBack \/ Crash \/ UNCHANGED vars
        PROVE  UNCHANGED <<rows, progress, etags>>
    BY <1>8 DEF DeleteRetire, Scan, EndPass, Resolve, RecheckEnd, ResolveError, ClaimConflict,
                ClaimOccurrence, PushUpcoming, Tick, ClockBack, Crash, vars
  <1>9. RunnerStep => Accounted(id)'
    BY <1>5, <1>6, <1>7, <1>8 DEF RunnerStep
  <1> QED
    BY <1>1, <1>2, <1>3, <1>4, <1>7, <1>8, <1>9 DEF Next

----------------------------------------------------------------------------
(* The theorems.                                                           *)

\* Empty stores.
LEMMA InitInductive == Init => Inductive
  <1> SUFFICES ASSUME Init
               PROVE  Inductive
    OBVIOUS
  <1>1. TypeOK
    BY IdleType DEF Init, TypeOK
  <1>2. ~Holding /\ Uncounted = {} /\ runner.pending = {} /\ runner.pc = "idle"
    BY IdleType DEF Init, Holding, Uncounted
  <1>3. PassConsistent /\ ClaimHeld
    BY <1>2 DEF PassConsistent, ClaimHeld
  <1>4. Ledger /\ Claims /\ NoSlotSkipped
    BY DEF Init, Ledger, Minted, RevisionsCovered, ETagNeverRecycled, Claims, OneOccurrencePerSlot,
           OccurrenceMatchesItsDefinition, CursorNamesClaimedSlot, NoSlotSkipped
  <1> QED
    BY <1>1, <1>3, <1>4 DEF Inductive, Ledger, Claims

\* The definitions, cursors and occurrences of the schedule authority stay
\* consistent whatever the operators write, the runner claims, the clock does
\* and wherever the process dies, for any schedules, calendar and bounds.
THEOREM StoreInductive == Spec => []Inductive
  <1>1. Inductive /\ [Next]_vars => Inductive'
    BY TypeStep, LedgerStep, PassStep, ClaimsStep, SkippedStep DEF Inductive, Ledger, Claims
  <1> QED
    BY InitInductive, <1>1, PTL DEF Spec

\* Every file of the store keeps its shape (schedules.py, TypeOK).
THEOREM StoreTypes == Spec => []TypeOK
  BY StoreInductive, PTL DEF Inductive

\* A strong ETag names one content for ever: create starts above the floor that
\* delete writes before it removes the row (schedules.py create, delete).
THEOREM ETagsNeverRecycled == Spec => []ETagNeverRecycled
  BY StoreInductive, PTL DEF Inductive

\* A slot is claimed once, although the occurrence and the cursor are two
\* writes that a crash may separate (schedules.py claim_occurrence).
THEOREM SlotsClaimedOnce == Spec => []OneOccurrencePerSlot
  BY StoreInductive, PTL DEF Inductive

\* An occurrence is bound to one definition, with a slot of its calendar, however
\* the definition was edited between the scan and the claim.
THEOREM OccurrencesMatch == Spec => []OccurrenceMatchesItsDefinition
  BY StoreInductive, PTL DEF Inductive

\* The cursor follows the occurrences, never the other way round.
THEOREM CursorsFollowClaims == Spec => []CursorNamesClaimedSlot
  BY StoreInductive, PTL DEF Inductive

\* No recurring slot between the creation and the cursor lacks its occurrence:
\* next_fire finds the first slot that the cursor has not passed, and nothing
\* moves the cursor between that and the claim.
THEOREM NoSlotIsSkipped == Spec => []NoSlotSkipped
  BY StoreInductive, PTL DEF Inductive
=============================================================================
