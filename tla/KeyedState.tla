----------------------------- MODULE KeyedState -----------------------------
(***************************************************************************)
(* The per-device state files (keyed_state.py): one document for the whole *)
(* fleet became a directory of shards.  Several processes, each with its   *)
(* own instance, read and write the store while the first of them to touch *)
(* it moves the old document's rows into the shards; they share only the   *)
(* files and the file locks.                                               *)
(*                                                                         *)
(* A row's value counts the changes made to it, 0 when it is absent.  A    *)
(* shard is written under its lock, to a temporary file that replaces it;  *)
(* reads take no lock.  A shard or the document may have been damaged.     *)
(***************************************************************************)
EXTENDS Integers, Sequences, FiniteSets

CONSTANTS
    StateKeys,      \* keys of the store
    Buckets,        \* SHARD_COUNT buckets
    BucketOf,       \* crc32 of a key, modulo their number
    Users,          \* processes
    StorePlans      \* what the document holds, what each process does, outside events

StoreOps == {"update", "delete", "many", "sweep", "snapshot", "cached", "all", "strict"}

ASSUME KeyedAssumption ==
    /\ BucketOf \in [StateKeys -> Buckets] /\ "document" \notin Buckets /\ 0 \notin Users
    /\ StorePlans \subseteq [doc : [StateKeys -> Nat],
                             ops : [Users -> Seq([op : StoreOps, key : StateKeys])],
                             crash : Nat, damage : Nat]

VARIABLES
    document,   \* the old document: [st, rows], st "doc", "gone" or "guard"
    marker,     \* whether <name>.migrated exists
    shard,      \* rows of every bucket
    version,    \* of a shard's file: what its signature tells apart
    damaged,    \* buckets whose file is unreadable, and "document"
    holder,     \* who holds the lock of a bucket, or of the document
    user,       \* the processes
    tally,      \* history: the changes made to each row
    held,       \* history: the values a row had while a read was under way
    kleft       \* what is left to do

keyedVars == <<document, marker, shard, version, damaged, holder, user, tally, held, kleft>>

NoRows == [k \in StateKeys |-> 0]
In(b) == {k \in StateKeys : BucketOf[k] = b}
HasShard(b) == \E k \in In(b) : shard[b][k] # 0
Uncached == [sig |-> 0, rows |-> NoRows]
SomeKey == CHOOSE k \in StateKeys : TRUE
SomeBucket == CHOOSE b \in Buckets : TRUE
AtRest(cache) ==
    [pc |-> "idle", op |-> "none", key |-> SomeKey, migrated |-> FALSE,
     todo |-> {}, at |-> SomeBucket, rows |-> NoRows, sig |-> 0,
     marked |-> FALSE, out |-> NoRows, failed |-> FALSE, cache |-> cache]
NoCache == [b \in Buckets |-> Uncached]

KeyedInit ==
    /\ kleft \in StorePlans
    /\ document = IF kleft.doc = NoRows THEN [st |-> "gone", rows |-> NoRows]
                  ELSE [st |-> "doc", rows |-> kleft.doc]
    /\ marker = FALSE
    /\ shard = [b \in Buckets |-> NoRows] /\ version = [b \in Buckets |-> 1]
    /\ damaged = {}
    /\ holder = [b \in Buckets \cup {"document"} |-> 0]
    /\ user = [p \in Users |-> AtRest(NoCache)]
    /\ tally = kleft.doc
    /\ held = [p \in Users |-> [k \in StateKeys |-> {}]]

Here(p, pc) == user[p].pc = pc
Does(p, ops) == user[p].op \in ops
MovesTo(p, pc) == user' = [user EXCEPT ![p].pc = pc]
\* The lock of a bucket can be taken.
Free(b) == holder[b] = 0
Take(b, p) == holder' = [holder EXCEPT ![b] = p]
Release(b) == holder' = [holder EXCEPT ![b] = 0]
Fails(p) == user' = [user EXCEPT ![p] = [AtRest(user[p].cache) EXCEPT !.migrated = user[p].migrated]]

\* What the store holds: a shard's row, or the document's until it is retired.
Visible(k) == LET row == shard[BucketOf[k]][k] IN
              IF row # 0 THEN row
              ELSE IF document.st = "doc" THEN document.rows[k] ELSE 0
\* A read starts, and sees what is written meanwhile.
Watching(p, now) == [k \in StateKeys |-> {now[k]}]
Watched(now) == [p \in Users |-> [k \in StateKeys |-> IF user[p].pc = "idle" THEN {}
                                                       ELSE held[p][k] \cup {now[k]}]]

----------------------------------------------------------------------------
(* Every operation of an instance starts by making sure of the migration;  *)
(* the free-standing readers do not.                                       *)

BeginOp(p) ==
    LET op == kleft.ops[p][1].op IN
    /\ Here(p, "idle") /\ kleft.ops[p] # <<>>
    /\ kleft' = [kleft EXCEPT !.ops[p] = Tail(@)]
    /\ user' = [user EXCEPT ![p].op = op, ![p].key = kleft.ops[p][1].key,
           ![p].pc = IF op \in {"all", "strict"} THEN "marker"
                     ELSE IF user[p].migrated THEN "plan" ELSE "ensure"]
    /\ held' = [held EXCEPT ![p] = Watching(p, [j \in StateKeys |-> Visible(j)])]
    /\ UNCHANGED <<document, marker, shard, version, damaged, holder, tally>>

\* The checks before the lock: one file, then the other.
EnsureMarker(p) ==
    /\ Here(p, "ensure")
    /\ user' = [user EXCEPT ![p].migrated = marker, ![p].pc = IF marker THEN "plan" ELSE "legacy"]
    /\ UNCHANGED <<document, marker, shard, version, damaged, holder, tally, held, kleft>>

EnsureLegacy(p) ==
    /\ Here(p, "legacy")
    /\ IF document.st = "gone" THEN user' = [user EXCEPT ![p].migrated = TRUE, ![p].pc = "plan"]
       ELSE MovesTo(p, "lock")
    /\ UNCHANGED <<document, marker, shard, version, damaged, holder, tally, held, kleft>>

\* And again under it.
StillLegacy == ~marker /\ document.st # "gone"
MigrateLock(p) ==
    /\ Here(p, "lock") /\ Free("document")
    /\ IF ~StillLegacy
       THEN /\ user' = [user EXCEPT ![p].migrated = TRUE, ![p].pc = "plan"]
            /\ UNCHANGED holder
       ELSE IF document.st = "guard" \/ "document" \in damaged
       THEN Fails(p) /\ UNCHANGED holder
       ELSE /\ Take("document", p)
            /\ user' = [user EXCEPT ![p].pc = "move",
                   ![p].todo = {BucketOf[k] : k \in {j \in StateKeys : document.rows[j] # 0}}]
    /\ UNCHANGED <<document, marker, shard, version, damaged, tally, held, kleft>>

\* A row the shard has already wins over the document's.
Merged(b) == [k \in StateKeys |-> IF BucketOf[k] = b /\ shard[b][k] = 0
                                  THEN document.rows[k] ELSE shard[b][k]]

Rewrites(b, rows) ==
    /\ shard' = [shard EXCEPT ![b] = rows]
    /\ version' = [version EXCEPT ![b] = @ + 1]

MigrateBucket(p, b) ==
    /\ Here(p, "move") /\ b \in user[p].todo /\ Free(b)
    /\ IF b \in damaged
       THEN Fails(p) /\ Release("document") /\ UNCHANGED <<shard, version>>
       ELSE /\ Rewrites(b, Merged(b)) /\ UNCHANGED holder
            /\ user' = [user EXCEPT ![p].todo = @ \ {b}]
    /\ UNCHANGED <<document, marker, damaged, tally, held, kleft>>

\* The document is renamed when every row has its place; then something unreadable
\* is left where it was.
\* Mutant: it is renamed first.
RenameReady_First(p) == TRUE
RenameReady(p) == user[p].todo = {}
MigrateRename(p) ==
    /\ Here(p, "move") /\ RenameReady(p)
    /\ document' = [document EXCEPT !.st = "gone"] /\ marker' = TRUE
    /\ MovesTo(p, "guard")
    /\ UNCHANGED <<shard, version, damaged, holder, tally, held, kleft>>

LeaveRollbackGuard(p, ok) ==
    /\ Here(p, "guard")
    /\ document' = IF ok THEN [document EXCEPT !.st = "guard"] ELSE document
    /\ Release("document")
    /\ user' = [user EXCEPT ![p].migrated = TRUE, ![p].pc = "plan"]
    /\ UNCHANGED <<marker, shard, version, damaged, tally, held, kleft>>

----------------------------------------------------------------------------
(* Writes: one bucket after the other, each read and written under its lock. *)

\* What an operation makes of a row.
NewRow(p, k, old) ==
    CASE Does(p, {"update"}) -> IF k = user[p].key THEN old + 1 ELSE old
      [] Does(p, {"delete"}) -> IF k = user[p].key THEN 0 ELSE old
      [] Does(p, {"many"}) -> old + 1
      [] Does(p, {"sweep"}) -> IF old # 0 THEN old + 1 ELSE old

PlanWrite(p) ==
    /\ Here(p, "plan") /\ Does(p, {"update", "delete", "many", "sweep"})
    /\ user' = [user EXCEPT ![p].pc = "bucket",
           ![p].todo = CASE Does(p, {"update", "delete"}) -> {BucketOf[user[p].key]}
                         [] Does(p, {"many"}) -> Buckets
                         [] Does(p, {"sweep"}) -> {b \in Buckets : HasShard(b)}]
    /\ UNCHANGED <<document, marker, shard, version, damaged, holder, tally, held, kleft>>

\* A shard that is there and cannot be read stops the operation.
\* Mutant: it is taken as empty.
Refuses_Not(b) == FALSE
Refuses(b) == b \in damaged
Loaded(b) == IF b \in damaged THEN NoRows ELSE shard[b]

\* Mutant: the shard is read before the lock is taken.
MayTake_Reading(b) == TRUE
MayTake(b) == Free(b)
ReadBucket(p, b) ==
    /\ Here(p, "bucket") /\ b \in user[p].todo /\ MayTake(b)
    /\ IF Refuses(b) THEN Fails(p) /\ UNCHANGED holder
       ELSE /\ Take(b, p)
            /\ user' = [user EXCEPT ![p].pc = "write", ![p].at = b, ![p].rows = Loaded(b),
                                    ![p].todo = @ \ {b}]
    /\ UNCHANGED <<document, marker, shard, version, damaged, tally, held, kleft>>

WriteBucket(p) ==
    LET b == user[p].at
        old == user[p].rows
        new == [k \in StateKeys |-> IF BucketOf[k] = b THEN NewRow(p, k, old[k]) ELSE old[k]]
        counted == [k \in StateKeys |-> IF BucketOf[k] = b THEN NewRow(p, k, tally[k]) ELSE tally[k]]
    IN
    /\ Here(p, "write")
    /\ IF new = old THEN UNCHANGED <<shard, version>> ELSE Rewrites(b, new)
    /\ Release(b)
    /\ tally' = counted
    /\ held' = Watched(counted)
    /\ MovesTo(p, "bucket")
    /\ UNCHANGED <<document, marker, damaged, kleft>>

WriteEnds(p) ==
    /\ Here(p, "bucket") /\ user[p].todo = {}
    /\ MovesTo(p, "done")
    /\ UNCHANGED <<document, marker, shard, version, damaged, holder, tally, held, kleft>>

----------------------------------------------------------------------------
(* Reads of the whole store, without locks: the files that exist are listed, *)
(* then read one after the other.                                           *)

List(p, from) ==
    user' = [user EXCEPT ![p].pc = "scan", ![p].todo = {b \in Buckets : HasShard(b)},
                         ![p].out = from]

PlanRead(p) ==
    /\ Here(p, "plan") /\ Does(p, {"snapshot", "cached"})
    /\ user' = [user EXCEPT ![p].pc = "scan", ![p].todo = {b \in Buckets : HasShard(b)},
                  ![p].cache = [b \in Buckets |-> IF HasShard(b) THEN @[b] ELSE Uncached]]
    /\ UNCHANGED <<document, marker, shard, version, damaged, holder, tally, held, kleft>>

\* read_all: the document before the shards, since rows move that way.
\* The strict form notes the marker first and refuses what cannot be parsed.
ReadMarker(p) ==
    /\ Here(p, "marker")
    /\ user' = [user EXCEPT ![p].marked = marker, ![p].pc = "document"]
    /\ UNCHANGED <<document, marker, shard, version, damaged, holder, tally, held, kleft>>

\* Mutant: the shards are listed first.
DocumentRows_Late(p) == NoRows
DocumentRows(p) == IF document.st = "doc" /\ "document" \notin damaged
                      /\ ~(Does(p, {"strict"}) /\ user[p].marked)
                   THEN document.rows ELSE NoRows
ReadDocument(p) ==
    /\ Here(p, "document")
    /\ IF /\ Does(p, {"strict"}) /\ ~user[p].marked
          /\ document.st = "guard" \/ (document.st = "doc" /\ "document" \in damaged)
       THEN Fails(p)
       ELSE user' = [user EXCEPT ![p].pc = "list", ![p].out = DocumentRows(p)]
    /\ UNCHANGED <<document, marker, shard, version, damaged, holder, tally, held, kleft>>

ListShards(p) ==
    /\ Here(p, "list") /\ List(p, user[p].out)
    /\ UNCHANGED <<document, marker, shard, version, damaged, holder, tally, held, kleft>>

Overlaid(out, b, rows) == [k \in StateKeys |-> IF BucketOf[k] = b /\ rows[k] # 0
                                               THEN rows[k] ELSE out[k]]

\* A file that was removed since it was listed reads as no rows; the strict reader
\* and read_all fail or go on.
ReadShard(p, b) ==
    /\ Here(p, "scan") /\ b \in user[p].todo /\ ~Does(p, {"cached"})
    /\ IF b \in damaged /\ ~Does(p, {"all"}) THEN Fails(p)
       ELSE IF ~HasShard(b) /\ Does(p, {"strict"}) THEN Fails(p)
       ELSE user' = [user EXCEPT ![p].todo = @ \ {b}, ![p].failed = @ \/ b \in damaged,
               ![p].out = IF b \in damaged THEN @ ELSE Overlaid(@, b, shard[b])]
    /\ UNCHANGED <<document, marker, shard, version, damaged, holder, tally, held, kleft>>

\* The cached form: the signature, the rows, the signature again.
Signature(b) == IF HasShard(b) THEN version[b] ELSE 0
CacheLook(p, b) ==
    LET hit == Signature(b) # 0 /\ user[p].cache[b].sig = Signature(b) IN
    /\ Here(p, "scan") /\ b \in user[p].todo /\ Does(p, {"cached"})
    /\ user' = [user EXCEPT ![p].todo = @ \ {b},
           ![p].pc = IF hit THEN "scan" ELSE "fill", ![p].at = b, ![p].sig = Signature(b),
           ![p].out = IF hit THEN Overlaid(@, b, user[p].cache[b].rows) ELSE @,
           ![p].cache[b] = IF hit THEN @ ELSE Uncached]
    /\ UNCHANGED <<document, marker, shard, version, damaged, holder, tally, held, kleft>>

CacheRead(p) ==
    LET b == user[p].at IN
    /\ Here(p, "fill")
    /\ IF b \in damaged THEN Fails(p)
       ELSE user' = [user EXCEPT ![p].pc = "keep", ![p].rows = shard[b]]
    /\ UNCHANGED <<document, marker, shard, version, damaged, holder, tally, held, kleft>>

\* Mutant: what was read is kept under the later signature.
Steady_Later(p) == TRUE
Steady(p) == user[p].sig = Signature(user[p].at)
CacheKeep(p) ==
    LET b == user[p].at IN
    /\ Here(p, "keep")
    /\ user' = [user EXCEPT ![p].pc = "scan", ![p].out = Overlaid(@, b, user[p].rows),
           ![p].cache[b] = IF Signature(b) # 0 /\ Steady(p)
                           THEN [sig |-> Signature(b), rows |-> user[p].rows] ELSE @]
    /\ UNCHANGED <<document, marker, shard, version, damaged, holder, tally, held, kleft>>

\* The strict reader refuses a store that was migrated meanwhile.
ReadEnds(p) ==
    /\ Here(p, "scan") /\ user[p].todo = {}
    /\ IF Does(p, {"strict"}) /\ marker # user[p].marked THEN Fails(p) ELSE MovesTo(p, "done")
    /\ UNCHANGED <<document, marker, shard, version, damaged, holder, tally, held, kleft>>

Return(p) ==
    /\ Here(p, "done") /\ Fails(p)
    /\ held' = [held EXCEPT ![p] = [k \in StateKeys |-> {}]]
    /\ UNCHANGED <<document, marker, shard, version, damaged, holder, tally, kleft>>

----------------------------------------------------------------------------
(* A process dies: the kernel drops its locks.  A file is damaged.          *)

UserDies(p) ==
    /\ kleft.crash > 0 /\ ~Here(p, "idle")
    /\ kleft' = [kleft EXCEPT !.crash = @ - 1]
    /\ user' = [user EXCEPT ![p] = AtRest(NoCache)]
    /\ holder' = [b \in DOMAIN holder |-> IF holder[b] = p THEN 0 ELSE holder[b]]
    /\ held' = [held EXCEPT ![p] = [k \in StateKeys |-> {}]]
    /\ UNCHANGED <<document, marker, shard, version, damaged, tally>>

DamageFile(what) ==
    /\ kleft.damage > 0 /\ what \notin damaged
    /\ Free(what) /\ IF what = "document" THEN document.st = "doc" ELSE HasShard(what)
    /\ kleft' = [kleft EXCEPT !.damage = @ - 1]
    /\ damaged' = damaged \cup {what}
    /\ version' = [b \in Buckets |-> IF b = what THEN version[b] + 1 ELSE version[b]]
    /\ UNCHANGED <<document, marker, shard, holder, user, tally, held>>

UserStep(p) ==
    \/ EnsureMarker(p) \/ EnsureLegacy(p) \/ MigrateLock(p) \/ MigrateRename(p)
    \/ \E ok \in BOOLEAN : LeaveRollbackGuard(p, ok)
    \/ PlanWrite(p) \/ WriteBucket(p) \/ WriteEnds(p)
    \/ PlanRead(p) \/ ReadMarker(p) \/ ReadDocument(p) \/ ListShards(p)
    \/ CacheRead(p) \/ CacheKeep(p) \/ ReadEnds(p) \/ Return(p)
    \/ \E b \in Buckets : MigrateBucket(p, b) \/ ReadBucket(p, b) \/ ReadShard(p, b)
                          \/ CacheLook(p, b)

KeyedNext ==
    \/ \E p \in Users : BeginOp(p) \/ UserStep(p) \/ UserDies(p)
    \/ \E what \in Buckets \cup {"document"} : DamageFile(what)

----------------------------------------------------------------------------
(* What the store promises.                                                *)

\* Every change made to a row is in the store, and nothing else: none is overwritten
\* by a process that read before it (update, update_many, sweep), lost or undone by a
\* migration that runs beside it or is repeated after a crash (_ensure_migrated).
NoChangeLost == \A k \in StateKeys : Visible(k) = tally[k]

\* A read of the whole store returns for every key a value it had while the read ran,
\* while rows move from the document to the shards and shards come and go
\* (snapshot, read_all).  A shard read_all had to skip is not vouched for.
ReadsAreHonest ==
    \A p \in Users : (Here(p, "done") /\ Does(p, {"snapshot", "cached", "all", "strict"})
                      /\ ~user[p].failed /\ "document" \notin damaged)
        => \A k \in StateKeys : user[p].out[k] \in held[p][k]

\* Rows kept under the signature a shard's file has now are its rows
\* (_snapshot_shard).
CacheIsCurrent ==
    \A p \in Users, b \in Buckets :
        (user[p].cache[b].sig # 0 /\ user[p].cache[b].sig = Signature(b) /\ b \notin damaged)
            => user[p].cache[b].rows = shard[b]

\* A file that cannot be read is never written over, and the document it may be is
\* not retired (fail closed).
DamagedIsKept ==
    /\ \A b \in Buckets : b \in damaged => shard'[b] = shard[b]
    /\ "document" \in damaged /\ document.st = "doc" => document' = document

\* Every operation ends.
StoreRests == \A p \in Users : Here(p, "idle")

KeyedSafe == NoChangeLost /\ ReadsAreHonest /\ CacheIsCurrent
=============================================================================
