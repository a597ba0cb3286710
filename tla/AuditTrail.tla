----------------------------- MODULE AuditTrail -----------------------------
(***************************************************************************)
(* The audit trail (audit.py): a file of lines that several processes      *)
(* append to under a lock, that each of them prunes now and then by        *)
(* writing a new file in its place, and that the Console reads page by     *)
(* page, without the lock, through an index kept in its memory.            *)
(*                                                                         *)
(* Offsets are line positions, the bytes of a line its id.  A write may be *)
(* cut short: the disk is full, or the writer dies before the newline.  A  *)
(* file that was replaced gives its inode back to the file system.         *)
(***************************************************************************)
EXTENDS Integers, Sequences, FiniteSets, SequencesExt

CONSTANTS
    Writers,        \* processes; the first one serves the Console
    Console,        \* the one that serves the Console
    PruneEvery,     \* PRUNE_EVERY
    MaxEvents,      \* AUDIT_MAX_EVENTS
    KeptFor,        \* AUDIT_RETENTION_DAYS
    IndexMax,       \* INDEX_MAX_ENTRIES
    HeadLines,      \* _INDEX_HEAD, in lines
    PageLimit,      \* events on a page
    Inodes,         \* inodes the file may get
    TrailPlans      \* outside events: a set of budgets

ASSUME TrailAssumption ==
    /\ Console \in Writers /\ IsFiniteSet(Writers)
    /\ PruneEvery \in Nat \ {0} /\ MaxEvents \in Nat \ {0} /\ KeptFor \in Nat
    /\ HeadLines \in Nat /\ PageLimit \in Nat \ {0}

VARIABLES
    trail,      \* the file: inode, lines, whether the last one lacks its newline
    index,      \* every process's index of it
    appends,    \* every process's appends since it pruned
    clock,
    listing,    \* the pages the Console has read: what it should get, what it got
    said,       \* history
    aleft       \* outside events left

trailVars == <<trail, index, appends, clock, listing, said, aleft>>

NoIndex == [ino |-> 0, used |-> 0, head |-> <<>>, ents |-> <<>>, junk |-> 0, off |-> FALSE]
NoCursor == [ino |-> 0, pos |-> 0, id |-> 0]
NoListing == [open |-> FALSE, cursor |-> NoCursor, want |-> <<>>, got |-> <<>>]

TrailInit ==
    /\ trail = [ino |-> CHOOSE i \in Inodes : TRUE, lines |-> <<>>, cut |-> FALSE]
    /\ index = [p \in Writers |-> NoIndex] /\ appends = [p \in Writers |-> 0]
    /\ clock = KeptFor
    /\ listing = NoListing
    /\ said = [ids |-> 0, acked |-> {}, aged |-> {}, recycled |-> FALSE, restarted |-> FALSE]
    /\ aleft \in TrailPlans

TrailEvent(e) == aleft[e] > 0
TrailSpend(e) == aleft' = [aleft EXCEPT ![e] = @ - 1]

----------------------------------------------------------------------------
(* The index: one entry per complete, readable line.                        *)

CompleteLines(f) == IF f.cut THEN Len(f.lines) - 1 ELSE Len(f.lines)
Entry(f, i) == [pos |-> i, id |-> f.lines[i].id, ts |-> f.lines[i].ts, good |-> f.lines[i].good]
Readable(f, from, to) ==
    SelectSeq([n \in 1..to + 1 - from |-> Entry(f, from - 1 + n)], LAMBDA e : e.good)
LineIds(f, n) == [i \in 1..n |-> f.lines[i].id]
Shorter(a, b) == IF a < b THEN a ELSE b

\* Whether the file is a strict extension of what was indexed.
Extends(x, f) ==
    /\ Len(f.lines) >= x.used
    /\ Len(f.lines) >= Len(x.head) /\ LineIds(f, Len(x.head)) = x.head

\* Mutant: the inode is not compared.
SameFile_Path(x, f) == x.ino # 0
SameFile(x, f) == x.ino = f.ino

Grown(x, f) ==
    [x EXCEPT !.used = CompleteLines(f), !.ents = @ \o Readable(f, x.used + 1, CompleteLines(f)),
              !.junk = @ + Cardinality({i \in x.used + 1..CompleteLines(f) : ~f.lines[i].good}),
              !.head = IF x.used = 0 THEN LineIds(f, Shorter(HeadLines, Len(f.lines))) ELSE @]

Indexed(x, f) ==
    LET base == IF SameFile(x, f) /\ Extends(x, f) THEN x ELSE [NoIndex EXCEPT !.ino = f.ino]
        grown == IF Len(f.lines) > base.used THEN Grown(base, f) ELSE base
    IN IF SameFile(x, f) /\ x.off THEN x
       ELSE IF Len(grown.ents) > IndexMax THEN [grown EXCEPT !.off = TRUE, !.ents = <<>>, !.junk = 0]
       ELSE grown

\* The scan that every result is defined by.
Streamed(f) == Readable(f, 1, CompleteLines(f))
EntriesBy(x, f) == IF x.off THEN Streamed(f) ELSE x.ents

\* histogram: an entry's bucket among n between two times.
Histogram(ents, since, until, n) ==
    [b \in 0..n - 1 |->
        Cardinality({i \in DOMAIN ents : ents[i].ts >= since /\ ents[i].ts < until
                                         /\ ((ents[i].ts - since) * n) \div (until - since) = b})]

----------------------------------------------------------------------------
(* Pruning, by the writer that holds the lock.                              *)

Cutoff == clock - KeptFor
\* Nothing to do, as the index has it.
\* Mutant: only the ages are looked at.
NothingToPrune_Young(x, f) == \A i \in DOMAIN x.ents : x.ents[i].ts >= Cutoff
NothingToPrune(x, f) ==
    /\ ~x.off /\ x.junk = 0 /\ Len(f.lines) = x.used
    /\ Len(x.ents) <= MaxEvents /\ \A i \in DOMAIN x.ents : x.ents[i].ts >= Cutoff

\* What is kept: the readable lines young enough, the newest ones by position.
\* Mutant: the oldest ones.
KeptLines_Oldest(f) ==
    LET young == SelectSeq(f.lines, LAMBDA l : l.good /\ l.ts >= Cutoff)
    IN SubSeq(young, 1, Shorter(MaxEvents, Len(young)))
KeptLines(f) ==
    LET young == SelectSeq(f.lines, LAMBDA l : l.good /\ l.ts >= Cutoff)
    IN SubSeq(young, Len(young) - Shorter(MaxEvents, Len(young)) + 1, Len(young))

\* History: the events that are too old, or have enough younger ones behind them.
Ageing(f) ==
    {f.lines[i].id : i \in {j \in DOMAIN f.lines :
        \/ f.lines[j].ts < Cutoff
        \/ Cardinality({k \in j + 1..Len(f.lines) : f.lines[k].good /\ f.lines[k].ts >= Cutoff})
               >= MaxEvents}}

\* The file after a prune that sees it as x does; ino is the new file's.
Pruned(x, f, ino) ==
    IF NothingToPrune(x, f) \/ Len(KeptLines(f)) = Len(f.lines) THEN f
    ELSE [ino |-> ino, lines |-> KeptLines(f), cut |-> FALSE]

\* An index that was taken from another file than the one with its inode and head.
Recycles(f) == \E p \in Writers : /\ f.ino # trail.ino /\ SameFile(index[p], f)
                                  /\ index[p].used > 0 /\ Extends(index[p], f)

----------------------------------------------------------------------------
(* The writers.                                                             *)

\* An unfinished line gets its newline first.
\* Mutant: the event is written behind it.
Healed_Joined(f, l) ==
    IF f.cut THEN [f EXCEPT !.lines = [@ EXCEPT ![Len(@)].good = FALSE], !.cut = FALSE]
    ELSE [f EXCEPT !.lines = Append(@, l)]
Healed(f, l) == [f EXCEPT !.lines = Append(@, l), !.cut = FALSE]

AppendEvent(p, how, ino) ==
    LET id == said.ids + 1
        written == [Healed(trail, [id |-> id, ts |-> clock, good |-> how # "fragment"])
                      EXCEPT !.cut = (how # "ok")]
        prunes == how = "ok" /\ appends[p] + 1 >= PruneEvery
        x == Indexed(index[p], written)
        after == IF prunes THEN Pruned(x, written, ino) ELSE written
    IN
    /\ TrailEvent("append") /\ ino \in Inodes \ {trail.ino}
    /\ IF how = "ok" THEN TrailSpend("append")
       ELSE /\ TrailEvent("torn")
            /\ aleft' = [aleft EXCEPT !["append"] = @ - 1, !["torn"] = @ - 1]
    /\ trail' = after
    \* A whole line without its newline is what a writer leaves that dies.
    /\ index' = [index EXCEPT ![p] = IF how = "whole" THEN NoIndex ELSE IF prunes THEN x ELSE @]
    /\ appends' = [appends EXCEPT ![p] = IF prunes \/ how = "whole" THEN 0
                                         ELSE IF how = "ok" THEN @ + 1 ELSE @]
    /\ said' = [said EXCEPT !.ids = id,
                  !.acked = IF how = "ok" THEN @ \cup {id} ELSE @,
                  !.aged = IF prunes THEN @ \cup Ageing(written) ELSE @,
                  !.recycled = @ \/ Recycles(after),
                  !.restarted = @ \/ how = "whole"]
    /\ UNCHANGED <<clock, listing>>

Restart(p) ==
    /\ TrailEvent("restart") /\ TrailSpend("restart")
    /\ index' = [index EXCEPT ![p] = NoIndex] /\ appends' = [appends EXCEPT ![p] = 0]
    /\ listing' = IF p = Console THEN NoListing ELSE listing
    /\ said' = [said EXCEPT !.restarted = TRUE]
    /\ UNCHANGED <<trail, clock>>

\* The clock goes on, or is set back.
Tick(back) ==
    /\ TrailEvent(IF back THEN "back" ELSE "time") /\ TrailSpend(IF back THEN "back" ELSE "time")
    /\ clock' = IF back THEN clock - 1 ELSE clock + 1
    /\ UNCHANGED <<trail, index, appends, listing, said>>

----------------------------------------------------------------------------
(* The reader: newest first, page after page.                               *)

\* Where a cursor's page goes on: its line must be there, in the same file.
\* Mutant: the position is trusted.
Anchored_Position(c, ents, i) == ents[i].pos = c.pos
Anchored(c, ents, i) ==
    /\ c.ino = trail.ino /\ ents[i].pos = c.pos
    /\ trail.lines[c.pos].id = c.id
Stop(c, ents) == {i \in DOMAIN ents : Anchored(c, ents, i)}

\* The events below stop, read from the file where the index points.
PageBelow(ents, stop) ==
    [n \in 1..Shorter(PageLimit, stop - 1) |-> trail.lines[ents[stop - n].pos].id]

ReadPage(next) ==
    LET x == Indexed(index[Console], trail)
        ents == EntriesBy(x, trail)
        stops == IF next THEN Stop(listing.cursor, ents) ELSE {Len(ents) + 1}
        stop == CHOOSE i \in stops : TRUE
        page == PageBelow(ents, stop)
        last == stop - Len(page)
    IN
    /\ TrailEvent("page") /\ TrailSpend("page") /\ (next => listing.open)
    /\ index' = [index EXCEPT ![Console] = x]
    /\ listing' =
         IF stops = {} THEN NoListing     \* CursorExpired
         ELSE [open |-> last > 1,
               cursor |-> IF last > 1
                          THEN [ino |-> trail.ino, pos |-> ents[last].pos,
                                id |-> trail.lines[ents[last].pos].id] ELSE NoCursor,
               want |-> IF next THEN listing.want
                        ELSE LET all == Streamed(trail)
                             IN [n \in 1..Len(all) |-> all[Len(all) + 1 - n].id],
               got |-> (IF next THEN listing.got ELSE <<>>) \o page]
    /\ UNCHANGED <<trail, appends, clock, said>>

TrailNext ==
    \/ \E p \in Writers, how \in {"ok", "fragment", "whole"}, ino \in Inodes :
          AppendEvent(p, how, ino)
    \/ \E p \in Writers : Restart(p)
    \/ \E b \in BOOLEAN : Tick(b) \/ ReadPage(b)

----------------------------------------------------------------------------
(* What the trail promises.                                                 *)

\* An event whose append returned is in the trail until it is too old or enough
\* newer ones follow it: a line cut short before it does not swallow it, and a prune
\* beside other writers does not lose it (append_event, _prune_locked).
NoEventSwallowed ==
    \A id \in said.acked \ said.aged :
        \E i \in DOMAIN trail.lines : trail.lines[i].id = id /\ trail.lines[i].good

\* What a process would read through its index is what the scan of the file finds,
\* whoever pruned it since; unless the file system gave a later file the inode and
\* the first lines of the one the index was taken from (_indexed).
IndexIsFaithful ==
    ~said.recycled => \A p \in Writers :
        LET ents == EntriesBy(Indexed(index[p], trail), trail) IN
        /\ ents = Streamed(trail)
        /\ \A n \in 1..2 : LET bars == Histogram(ents, 0, KeptFor + 2, n)
              IN bars[0] + (IF n = 2 THEN bars[1] ELSE 0)
                   = Cardinality({i \in DOMAIN ents : ents[i].ts \in 0..KeptFor + 1})

\* The pages of a listing, one after the other, neither skip nor repeat an event,
\* while events are added and pruned between them (read_page, CursorExpired).
PagesMeet ==
    ~said.recycled =>
        /\ IsPrefix(listing.got, listing.want)
        /\ ~listing.open => listing.got = listing.want

\* The trail stays bounded: every writer prunes by a count of its own, so between
\* prunes the cap is exceeded by what each of them may add.
TrailIsBounded ==
    ~said.restarted => Len(Streamed(trail))
                         <= MaxEvents + Cardinality(Writers) * (PruneEvery - 1)

TrailSafe == NoEventSwallowed /\ IndexIsFaithful /\ PagesMeet /\ TrailIsBounded
=============================================================================
