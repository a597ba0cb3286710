----------------------------- MODULE FleetRoles -----------------------------
(***************************************************************************)
(* Roles of devices (role_management.py): an operator declares a device's  *)
(* role in the inventory (gui_fleet.py), and the peer policy               *)
(* (peer_policy.py) enforces it: two stores, changed one after the other   *)
(* under a lock of the host, the policy first when the change relaxes      *)
(* access and the inventory first otherwise.  Requests of the API and      *)
(* commands run side by side; the inventory is also edited without that    *)
(* lock, under a guard of its own.  A store may fail and a process may     *)
(* die between any two steps.                                              *)
(***************************************************************************)
EXTENDS Integers, FiniteSets, Sequences, TLC

CONSTANTS
    Boxes,          \* devices
    RoleNames,
    AclPeers,       \* whom the one explicit ACL permits: devices, "origin"
    Editors,        \* requests and commands under way
    SettleAttempts, \* tries of a snapshot before it settles for what it has
    RolePlans       \* what is there, what is asked for and what goes wrong

VARIABLES
    row,        \* the inventory: [there, role, net, reg, bad] of a device
    fleetRev,   \* its revision
    doc,        \* the policy: [rev, defs, of, acl, quar]
    planned,    \* the roles that targets of schedules name
    roleLock, fleetLock,    \* who holds the lock and the guard, 0: nobody
    work,       \* what each request is doing
    shown,      \* per requester: the confirmation token of its last preview
    rpast,      \* history: what went wrong; the tokens shown; registrations given;
                \* devices in the policy ahead of the inventory; changes of rows, and
                \* those each revision counts
    rleft       \* requests and events left

roleVars == <<row, fleetRev, doc, planned, roleLock, fleetLock, work, shown, rpast, rleft>>

NoRow == [there |-> FALSE, role |-> "none", net |-> "none", reg |-> 0, bad |-> FALSE]
NoRole == [known |-> FALSE, restricted |-> FALSE, origin |-> TRUE, peers |-> {}]
NoWork == [op |-> "none", todo |-> <<>>]
Nowhere == [b \in {} |-> "none"]

RolesInit ==
    /\ rleft \in RolePlans
    /\ row = rleft.row /\ doc = rleft.doc
    /\ fleetRev = 0 /\ planned = {} /\ roleLock = 0 /\ fleetLock = 0
    /\ work = [p \in Editors |-> NoWork] /\ shown = [p \in Editors |-> <<>>]
    /\ rpast = [wrong |-> {}, tokens |-> {}, gen |-> [b \in Boxes |-> rleft.row[b].reg],
                ahead |-> {}, wrote |-> 0, counted |-> <<0>>]

----------------------------------------------------------------------------
(* Who may reach whom.  "none" is the role of a device without one; "default"  *)
(* stands for it among the roles.                                              *)

KnownRoles(d) == {r \in RoleNames : d.defs[r].known}
Restricts(d, r) == r \in RoleNames /\ d.defs[r].restricted
RoleName(r) == IF r = "none" THEN "default" ELSE r
PairPermitted(d, l, r) ==
    /\ Restricts(d, l) => r \in d.defs[l].peers
    /\ Restricts(d, r) => l \in d.defs[r].peers

\* What role r lets device b reach, among the given devices in their roles.
Signature(d, r, of, among, b) ==
    {c \in among \ {b} : PairPermitted(d, RoleName(r), RoleName(of[c]))}
      \cup IF Restricts(d, r) /\ ~d.defs[r].origin THEN {} ELSE {"origin"}

\* Mutant: entering a restricted role cannot be compared.
ChangeDirection_Strict(d, old, new, quarantined, was, now) ==
    IF old = new \/ quarantined THEN "neutral"
    ELSE IF now = was THEN "neutral"
    ELSE IF now \subseteq was THEN "tighten"
    ELSE "relax"
ChangeDirection(d, old, new, quarantined, was, now) ==
    IF old = new \/ quarantined \/ (now = was /\ Restricts(d, old) = Restricts(d, new)) THEN "neutral"
    ELSE IF now = was THEN IF Restricts(d, new) THEN "tighten" ELSE "relax"
    ELSE IF now \subseteq was THEN "tighten"
    ELSE IF was \subseteq now THEN "relax"
    ELSE IF old = "none" /\ Restricts(d, new) THEN "tighten"
    ELSE IF new = "none" /\ Restricts(d, old) THEN "relax"
    ELSE "incomparable"

With(of, map) == [b \in Boxes |-> IF b \in DOMAIN map THEN map[b] ELSE of[b]]
Population(map) == {b \in Boxes : row[b].there \/ doc.of[b] # "none" \/ b \in DOMAIN map}
DirectionOf(b, map) ==
    ChangeDirection(doc, doc.of[b], map[b], b \in doc.quar,
                    Signature(doc, doc.of[b], doc.of, Population(map), b),
                    Signature(doc, map[b], With(doc.of, map), Population(map), b))
\* A change is all tightening or all relaxing.
Direction(map) ==
    LET ways == {DirectionOf(b, map) : b \in DOMAIN map} \ {"neutral"} IN
    IF ways = {} THEN "neutral"
    ELSE IF ways = {"tighten"} THEN "tighten"
    ELSE IF ways = {"relax"} THEN "relax" ELSE "refused"

\* The policy's own verdict, and what a change of the policy takes away: it then
\* needs the token of a preview of this very change.
RoleAllows(d, r, subject) ==
    IF ~Restricts(d, r) THEN TRUE
    ELSE IF subject = "origin" THEN d.defs[r].origin
    ELSE d.of[subject] \in d.defs[r].peers
Allows(d, owner, subject) ==
    IF owner \in d.quar THEN FALSE
    ELSE IF d.acl[owner] # "none" THEN subject \in AclPeers
    ELSE RoleAllows(d, d.of[owner], subject)
Reaches(d, b, among) ==
    \/ Allows(d, b, "origin")
    \/ \E c \in among \ {b} : Allows(d, b, c) /\ Allows(d, c, b)
Governed(d) == {b \in Boxes : d.of[b] # "none" \/ d.acl[b] # "none" \/ b \in d.quar}
RoleEdges(d) ==
    {e \in (KnownRoles(d) \cup {"default"}) \X (KnownRoles(d) \cup {"default"}) :
       e[1] # e[2] /\ PairPermitted(d, e[1], e[2])}
NeedsConfirmation(prior, next) ==
    LET among == Governed(prior) \cup Governed(next) IN
    \/ prior.of # next.of
    \/ \E b \in among : Allows(prior, b, "origin") /\ ~Allows(next, b, "origin")
    \/ \E b \in among : Reaches(prior, b, among) /\ ~Reaches(next, b, among)
    \/ ~(RoleEdges(prior) \subseteq RoleEdges(next))
Token(rev, next) == <<rev, [next EXCEPT !.rev = 0]>>
TokenConfirms(prior, next, token) == NeedsConfirmation(prior, next) => token = Token(prior.rev, next)

----------------------------------------------------------------------------
(* Changes of the policy.                                                      *)

ValidRoles(d) ==
    \A r \in KnownRoles(d) :
      /\ r \in d.defs[r].peers /\ d.defs[r].peers \subseteq KnownRoles(d)
      /\ d.defs[r].restricted =>
           \A s \in d.defs[r].peers : d.defs[s].restricted => r \in d.defs[s].peers
ValidDocument(d) ==
    ValidRoles(d) /\ \A b \in Boxes : d.of[b] \in KnownRoles(d) \cup {"none"}

SetRoles(d, map) == [d EXCEPT !.of = With(@, map)]
SetQuarantine(d, b, on) == [d EXCEPT !.quar = IF on THEN @ \cup {b} ELSE @ \ {b}]
Unassign(d, b) == [d EXCEPT !.of[b] = "none", !.acl[b] = "none", !.quar = @ \ {b}]
PutRole(d, r, def) ==
    [d EXCEPT !.defs = [s \in RoleNames |->
        IF s = r THEN def
        ELSE IF ~d.defs[s].known THEN NoRole
        ELSE [d.defs[s] EXCEPT !.peers = IF s \in def.peers THEN @ \cup {r} ELSE @ \ {r}]]]
\* Mutant: the inventory is not asked.
UsesRole_Policy(r) == r \in planned \/ \E b \in Boxes : doc.of[b] = r
UsesRole(r) == r \in planned \/ \E b \in Boxes : doc.of[b] = r \/ row[b].role = r
MayDelete(d, r) ==
    /\ r \in KnownRoles(d) /\ ~UsesRole(r)
    /\ \A s \in KnownRoles(d) \ {r} : r \notin d.defs[s].peers
MayReplace(defs) == \A r \in RoleNames : UsesRole(r) => defs[r].known
DeleteRole(d, r) == [d EXCEPT !.defs[r] = NoRole]
ReplaceDefinitions(d, defs) == [d EXCEPT !.defs = defs]
\* Releases the explicit ACL of devices that are in their role by now.
Released(d, boxes) == [d EXCEPT !.acl = [b \in Boxes |-> IF b \in boxes THEN "none" ELSE @[b]]]

----------------------------------------------------------------------------
(* Requests.  An editor asks for one thing after the other; its work is the    *)
(* steps it still has to take.                                                  *)

Wish(p) == Head(rleft.asks[p])
Asked(p, op) == work[p].op = "none" /\ rleft.asks[p] # <<>> /\ Wish(p).op = op
Take(p) == rleft' = [rleft EXCEPT !.asks[p] = Tail(@)]
Went(w) == rpast' = [rpast EXCEPT !.wrong = @ \cup w]

\* The request is answered without a change.
Replied(p) == Take(p) /\ UNCHANGED <<work, roleLock>>
\* The request goes on to its steps, under the lock.
Proceeds(p, steps, rows, map, change, guarded) ==
    /\ Take(p) /\ roleLock' = p
    /\ work' = [work EXCEPT ![p] =
         [op |-> Wish(p).op, rq |-> Wish(p), todo |-> steps, rows |-> rows, map |-> map,
          change |-> change, prior |-> doc, rev |-> doc.rev, tok |-> shown[p], guarded |-> guarded]]
\* Mutant: the lock stays with a request that failed.
Ends_Locked(p) ==
    /\ work' = [work EXCEPT ![p] = NoWork]
    /\ fleetLock' = IF fleetLock = p THEN 0 ELSE fleetLock
    /\ roleLock' = IF roleLock = p /\ Len(work[p].todo) <= 1 THEN 0 ELSE roleLock
Ends(p) ==
    /\ work' = [work EXCEPT ![p] = NoWork]
    /\ roleLock' = IF roleLock = p THEN 0 ELSE roleLock
    /\ fleetLock' = IF fleetLock = p THEN 0 ELSE fleetLock
\* The work goes on as o, or is done.
Continues(p, o) ==
    IF o.todo = <<>> THEN Ends(p)
    ELSE work' = [work EXCEPT ![p] = o] /\ UNCHANGED <<roleLock, fleetLock>>

Only(map, boxes) == [b \in DOMAIN map \cap boxes |-> map[b]]
Changes(map) == Only(map, {b \in DOMAIN map : map[b] # doc.of[b]})
NextDoc(d) == [d EXCEPT !.rev = doc.rev + 1]

\* The devices of a mapping that are in the inventory; a mapping that names an
\* unknown role, or a device with an explicit ACL, is refused.
Mappable(map) ==
    /\ \A b \in DOMAIN map : map[b] \in KnownRoles(doc) \cup {"none"}
    /\ \A b \in DOMAIN map : doc.acl[b] = "none"
Present(map) == Only(map, {b \in Boxes : row[b].there})

\* Mutant: the policy always comes first.
EditOrder_Policy(way, change) ==
    IF DOMAIN change = {} THEN <<"write", "bump">> ELSE <<"policy", "write", "bump">>
EditOrder(way, change) ==
    IF DOMAIN change = {} THEN <<"write", "bump">>
    ELSE IF way = "relax" THEN <<"policy", "write", "bump">>
    ELSE <<"write", "bump", "policy">>

\* A preview shows what a change would do, with the token that confirms it.
Preview(p, prior, next) ==
    LET token == IF NeedsConfirmation(prior, next) THEN Token(prior.rev, next) ELSE <<>> IN
    /\ Replied(p)
    /\ shown' = [shown EXCEPT ![p] = token]
    /\ rpast' = [rpast EXCEPT !.tokens = @ \cup ({token} \ {<<>>})]
NoPreview == UNCHANGED <<shown, rpast>>

SetRolesBegin(p) ==
    /\ Asked(p, "roles") /\ roleLock = 0
    /\ LET q == Wish(p)
           map == Present(q.to)
           change == Changes(map)
           way == Direction(change)
           next == SetRoles(doc, change) IN
       IF ~Mappable(map) \/ DOMAIN map = {} \/ way = "refused" THEN Replied(p) /\ NoPreview
       ELSE IF q.dry THEN Preview(p, doc, next)
       ELSE IF q.conf /\ ~TokenConfirms(doc, next, shown[p]) THEN Replied(p) /\ NoPreview
       ELSE Proceeds(p, EditOrder(way, change), DOMAIN map, map, change, q.conf) /\ NoPreview
    /\ UNCHANGED <<row, fleetRev, doc, planned, fleetLock>>

\* Whether the rows and networks a request gives fit the inventory.
OwnNetworks(rows, net) ==
    \A b \in DOMAIN net, c \in Boxes :
       b # c /\ net[b] # "none" =>
         net[b] # IF c \in DOMAIN net THEN net[c] ELSE row[c].net
Stored(b) == ~row[b].bad
Fits(q, rows) == (\A b \in rows : Stored(b)) /\ OwnNetworks(rows, q.net)
ValidRecord(q) == q.valid

\* An edit of one device is looked at before the lock is asked for; without a role
\* it needs no lock.
EditBegin(p) ==
    /\ Asked(p, "edit") /\ fleetLock = 0
    /\ LET q == Wish(p) IN
       IF ~ValidRecord(q) \/ ~Fits(q, {q.who}) THEN Replied(p)
       ELSE /\ Take(p) /\ UNCHANGED roleLock
            /\ work' = [work EXCEPT ![p] =
                 [op |-> "edit", rq |-> q, rows |-> {q.who}, map |-> q.to, change |-> Nowhere,
                  todo |-> IF DOMAIN q.to = {} THEN <<"check", "write", "bump">> ELSE <<"enter">>,
                  prior |-> doc, rev |-> doc.rev, tok |-> <<>>, guarded |-> FALSE]]
    /\ UNCHANGED <<row, fleetRev, doc, planned, fleetLock, shown, rpast>>
CheckedFirst(steps) ==
    IF steps[1] = "policy" THEN <<"policy", "check", "write", "bump">> ELSE <<"check">> \o steps
EnterStep(p) ==
    /\ work[p].op = "edit" /\ work[p].todo[1] = "enter" /\ roleLock = 0
    /\ LET o == work[p]
           change == Changes(o.map)
           way == Direction(change) IN
       IF ~Mappable(o.map) \/ way = "refused" THEN Ends(p)
       ELSE /\ roleLock' = p /\ UNCHANGED fleetLock
            /\ work' = [work EXCEPT ![p] =
                 [o EXCEPT !.change = change, !.prior = doc, !.rev = doc.rev,
                           !.todo = CheckedFirst(EditOrder(way, change))]]
    /\ UNCHANGED <<row, fleetRev, doc, planned, shown, rpast, rleft>>

\* A file of rows: one that is not valid, or names a device twice, is refused as a
\* whole; a row without a role keeps the declared one.
ParsesCsv(q) ==
    ValidRecord(q) /\ \A i, j \in 1..Len(q.file) : i # j => q.file[i][1] # q.file[j][1]
FileRoles(q) ==
    [b \in {q.file[i][1] : i \in 1..Len(q.file)} |->
       q.file[CHOOSE i \in 1..Len(q.file) : q.file[i][1] = b][2]]
\* Mutant: a row without a role clears it.
ImportedRole_Blank(b, role) == role
ImportedRole(b, role) == IF role = "none" THEN row[b].role ELSE role
ImportBegin(p) ==
    /\ Asked(p, "csv") /\ roleLock = 0
    /\ LET q == Wish(p)
           map == [b \in DOMAIN FileRoles(q) |-> ImportedRole(b, FileRoles(q)[b])]
           desired == Only(map, {b \in DOMAIN map : map[b] # "none"})
           change == Changes(desired)
           way == Direction(change) IN
       IF ~ParsesCsv(q) \/ ~Fits(q, DOMAIN map) \/ ~Mappable(desired) \/ way = "refused" THEN Replied(p)
       ELSE Proceeds(p, CheckedFirst(EditOrder(way, change)), DOMAIN map, map, change, FALSE)
    /\ NoPreview /\ UNCHANGED <<row, fleetRev, doc, planned, fleetLock>>

\* The devices of the explicit ACL move into a role: declared, then enforced, then
\* released from the ACL.
\* Mutant: released before the role is enforced.
MigrationSteps_Early == <<"write", "bump", "release", "policy">>
MigrationSteps == <<"write", "bump", "policy", "release">>
MigrateBegin(p) ==
    /\ Asked(p, "migrate") /\ roleLock = 0
    /\ LET q == Wish(p)
           map == Present([b \in {c \in Boxes : doc.acl[c] # "none"} |-> q.role])
           next == Released(SetRoles(doc, map), DOMAIN map)
           needs == NeedsConfirmation(doc, next) IN
       IF q.role \notin KnownRoles(doc) \/ DOMAIN map = {} THEN Replied(p) /\ NoPreview
       ELSE IF q.dry THEN Preview(p, doc, next)
       ELSE IF ~TokenConfirms(doc, next, shown[p]) THEN Replied(p) /\ NoPreview
       ELSE Proceeds(p, MigrationSteps, DOMAIN map, map, map, needs) /\ NoPreview
    /\ UNCHANGED <<row, fleetRev, doc, planned, fleetLock>>

\* Requests that change the policy alone.
MayChange(q) ==
    CASE q.op = "quarantine" -> row[q.who].there
      [] q.op = "revoke" -> doc.acl[q.who] # "none"
      [] q.op = "define" -> ValidDocument(PutRole(doc, q.role, q.def))
      [] q.op = "delete" -> MayDelete(doc, q.role)
      [] q.op = "replace" -> MayReplace(q.def) /\ ValidDocument(ReplaceDefinitions(doc, q.def))
PolicyOps == {"quarantine", "revoke", "define", "delete", "replace"}
Changed(q) ==
    CASE q.op = "quarantine" -> SetQuarantine(doc, q.who, q.on)
      [] q.op = "revoke" -> [doc EXCEPT !.acl[q.who] = "none"]
      [] q.op = "define" -> PutRole(doc, q.role, q.def)
      [] q.op = "delete" -> DeleteRole(doc, q.role)
      [] q.op = "replace" -> ReplaceDefinitions(doc, q.def)
PolicyBegin(p) ==
    /\ \E op \in PolicyOps : Asked(p, op)
    /\ roleLock = 0
    /\ LET q == Wish(p) IN
       IF ~MayChange(q) THEN Replied(p) /\ NoPreview
       ELSE IF q.dry THEN Preview(p, doc, Changed(q))
       ELSE Proceeds(p, <<"policy">>, {}, Nowhere, Nowhere, q.conf) /\ NoPreview
    /\ UNCHANGED <<row, fleetRev, doc, planned, fleetLock>>

\* A retirement holds the guard from the policy's cleanup to the row's end.
\* Mutant: the row goes first.
RetireSteps_Row == <<"guard", "drop", "bump", "policy">>
RetireSteps == <<"guard", "policy", "drop", "bump">>
RetireBegin(p) ==
    /\ Asked(p, "retire") /\ roleLock = 0
    /\ Proceeds(p, RetireSteps, {Wish(p).who}, Nowhere, Nowhere, FALSE)
    /\ NoPreview /\ UNCHANGED <<row, fleetRev, doc, planned, fleetLock>>

\* A schedule names a role only while it is known, under the lock and the guard.
\* Mutant: without the lock.
PlanSchedule_Unlocked(p) ==
    /\ Asked(p, "plan") /\ fleetLock = 0
    /\ planned' = IF Wish(p).role \in KnownRoles(doc) THEN planned \cup {Wish(p).role} ELSE planned
    /\ Take(p) /\ UNCHANGED <<row, fleetRev, doc, roleLock, fleetLock, work, shown, rpast>>
PlanSchedule(p) ==
    /\ Asked(p, "plan") /\ roleLock = 0 /\ fleetLock = 0
    /\ planned' = IF Wish(p).role \in KnownRoles(doc) THEN planned \cup {Wish(p).role} ELSE planned
    /\ Take(p) /\ UNCHANGED <<row, fleetRev, doc, roleLock, fleetLock, work, shown, rpast>>
DropSchedule(p) ==
    /\ Asked(p, "unplan") /\ roleLock = 0
    /\ planned' = planned \ {Wish(p).role}
    /\ Take(p) /\ UNCHANGED <<row, fleetRev, doc, roleLock, fleetLock, work, shown, rpast>>

\* What a device said of itself, and an identity for a row of an older release: under
\* the guard alone.
Notes(p) ==
    /\ Take(p)
    /\ work' = [work EXCEPT ![p] =
         [op |-> Wish(p).op, rq |-> Wish(p), todo |-> <<"write", "bump">>, rows |-> {Wish(p).who},
          map |-> Nowhere, change |-> Nowhere, prior |-> doc, rev |-> 0, tok |-> <<>>, guarded |-> FALSE]]
    /\ UNCHANGED <<row, fleetRev, doc, planned, roleLock, fleetLock, shown, rpast>>
ObserveBegin(p) == Asked(p, "observe") /\ Notes(p)
IdentifyBegin(p) == Asked(p, "identify") /\ Notes(p)

----------------------------------------------------------------------------
(* EditOrder.                                                                      *)

At(p, step) == work[p].op # "none" /\ work[p].todo[1] = step
Rest(o) == [o EXCEPT !.todo = Tail(@)]
Fault == rleft.fault > 0 /\ rleft' = [rleft EXCEPT !.fault = @ - 1]

\* What a commit would put in the policy's place, and whether the token confirms it
\* as it is now.
Candidate(o) ==
    CASE o.op \in {"roles", "edit", "csv"} -> SetRoles(doc, o.change)
      [] o.op = "migrate" ->
           IF o.todo[1] = "policy" THEN SetRoles(doc, o.change) ELSE Released(doc, DOMAIN o.change)
      [] o.op = "retire" -> Unassign(doc, o.rq.who)
      [] OTHER -> Changed(o.rq)
\* Mutant: what was confirmed before is not looked at again.
Guarded_Before(o, next) == TRUE
Guarded(o, next) ==
    o.guarded =>
      IF o.op = "migrate" THEN TokenConfirms(o.prior, Released(next, DOMAIN o.map), o.tok)
      ELSE TokenConfirms(doc, next, o.tok)
Commits(o) ==
    LET next == Candidate(o) IN
    /\ o.op # "retire" => o.rev = doc.rev
    /\ ValidDocument(next) /\ Guarded(o, next)
\* One commit, under the policy's own lock.  A failure ends the request, but for a
\* retirement.
PolicyStep(p) ==
    /\ At(p, "policy") \/ At(p, "release")
    /\ LET o == work[p]
           late == {b \in DOMAIN o.change : ~row[b].there} IN
       IF Commits(o)
       THEN /\ doc' = [Candidate(o) EXCEPT !.rev = doc.rev + 1]
            /\ rpast' = [rpast EXCEPT !.ahead = @ \cup late]
            /\ Continues(p, [Rest(o) EXCEPT !.rev = doc.rev + 1])
       ELSE Ends(p) /\ Went({"refused"}) /\ UNCHANGED doc
    /\ UNCHANGED <<row, fleetRev, planned, shown, rleft>>
PolicyFails(p) ==
    /\ At(p, "policy") \/ At(p, "release")
    /\ Fault
    /\ IF work[p].op = "retire" THEN Went({"kept"}) /\ Continues(p, Rest(work[p]))
       ELSE Went({"fault"}) /\ Ends(p)
    /\ UNCHANGED <<row, fleetRev, doc, planned, shown>>

\* The guard is taken and the networks are looked at again.
\* Mutant: the guard is not kept.
CheckStep_Loose(p) ==
    /\ At(p, "check") /\ fleetLock = 0
    /\ IF Fits(work[p].rq, work[p].rows)
       THEN work' = [work EXCEPT ![p] = Rest(@)] /\ UNCHANGED <<roleLock, fleetLock, rpast>>
       ELSE Ends(p) /\ Went({"refused"})
    /\ UNCHANGED <<row, fleetRev, doc, planned, shown, rleft>>
CheckStep(p) ==
    /\ At(p, "check") /\ fleetLock = 0
    /\ IF Fits(work[p].rq, work[p].rows)
       THEN work' = [work EXCEPT ![p] = Rest(@)] /\ fleetLock' = p /\ UNCHANGED <<roleLock, rpast>>
       ELSE Ends(p) /\ Went({"refused"})
    /\ UNCHANGED <<row, fleetRev, doc, planned, shown, rleft>>
GuardStep(p) ==
    /\ At(p, "guard") /\ fleetLock = 0
    /\ fleetLock' = p /\ work' = [work EXCEPT ![p] = Rest(@)]
    /\ UNCHANGED <<row, fleetRev, doc, planned, roleLock, shown, rpast, rleft>>

\* Rows that can be merged: an edit and a file also bring new ones.
Mergeable(o) ==
    {b \in o.rows : Stored(b) /\ (row[b].there \/ o.op \in {"edit", "csv"})
                      /\ (o.op = "identify" => row[b].reg = 0)}
\* Mutant: every write is a registration.
MergedRow_New(o, b) ==
    [there |-> TRUE, bad |-> FALSE, reg |-> rpast.gen[b] + 1,
     role |-> IF b \in DOMAIN o.map THEN o.map[b] ELSE row[b].role,
     net |-> IF b \in DOMAIN o.rq.net THEN o.rq.net[b] ELSE row[b].net]
MergedRow(o, b) ==
    [there |-> TRUE, bad |-> FALSE,
     reg |-> IF row[b].reg = 0 THEN rpast.gen[b] + 1 ELSE row[b].reg,
     role |-> IF b \in DOMAIN o.map THEN o.map[b] ELSE row[b].role,
     net |-> IF b \in DOMAIN o.rq.net THEN o.rq.net[b] ELSE row[b].net]
WriteRows(o, rows) ==
    /\ row' = [b \in Boxes |-> IF b \in rows THEN MergedRow(o, b) ELSE row[b]]
    /\ rpast' = [rpast EXCEPT !.gen = [b \in Boxes |-> IF b \in rows THEN MergedRow(o, b).reg ELSE @[b]],
                              !.wrote = IF rows = {} THEN @ ELSE @ + 1,
                              !.wrong = IF o.op \in {"roles", "migrate"} /\ rows # o.rows
                                        THEN @ \cup {"partial"} ELSE @]
\* Rows that were written go on to the revision, and then to the policy; with none
\* written the request ends.
Written(o, rows) ==
    [Rest(o) EXCEPT !.change = Only(@, rows),
                    !.todo = IF rows = {} THEN <<>>
                             ELSE IF DOMAIN Only(o.change, rows) = {} THEN <<"bump">> ELSE @]
WriteStep(p) ==
    /\ At(p, "write") /\ fleetLock \in {0, p}
    /\ LET o == work[p]
           rows == Mergeable(o) IN
       /\ WriteRows(o, rows)
       /\ IF Written(o, rows).todo = <<>> THEN Ends(p)
          ELSE fleetLock' = p /\ work' = [work EXCEPT ![p] = Written(o, rows)] /\ UNCHANGED roleLock
    /\ UNCHANGED <<fleetRev, doc, planned, shown, rleft>>
\* The store fails with some of the rows written: the revision counts those, and
\* the request ends.
WriteFails(p, rows) ==
    /\ At(p, "write") /\ fleetLock \in {0, p}
    /\ rows \subseteq Mergeable(work[p])
    /\ work[p].op \in {"roles", "migrate", "csv"} \/ rows = {}
    /\ Fault
    /\ row' = [b \in Boxes |-> IF b \in rows THEN MergedRow(work[p], b) ELSE row[b]]
    /\ rpast' = [rpast EXCEPT !.wrong = @ \cup {"fault"},
                              !.gen = [b \in Boxes |-> IF b \in rows THEN MergedRow(work[p], b).reg ELSE @[b]],
                              !.wrote = IF rows = {} THEN @ ELSE @ + 1]
    /\ IF rows = {} THEN Ends(p)
       ELSE fleetLock' = p /\ work' = [work EXCEPT ![p].todo = <<"bump">>] /\ UNCHANGED roleLock
    /\ UNCHANGED <<fleetRev, doc, planned, shown>>

DropStep(p) ==
    /\ At(p, "drop")
    /\ LET b == work[p].rq.who IN
       IF row[b].there
       THEN /\ row' = [row EXCEPT ![b] = NoRow]
            /\ rpast' = [rpast EXCEPT !.wrote = @ + 1]
            /\ work' = [work EXCEPT ![p] = Rest(@)] /\ UNCHANGED <<roleLock, fleetLock>>
       ELSE Ends(p) /\ UNCHANGED <<row, rpast>>
    /\ UNCHANGED <<fleetRev, doc, planned, shown, rleft>>
DropFails(p) ==
    /\ At(p, "drop") /\ Fault
    /\ Ends(p) /\ Went({"fault"})
    /\ UNCHANGED <<row, fleetRev, doc, planned, shown>>

\* The revision counts every change before it; the guard is given back.
BumpStep(p) ==
    /\ At(p, "bump")
    /\ fleetRev' = fleetRev + 1
    /\ rpast' = [rpast EXCEPT !.counted = Append(@, rpast.wrote)]
    /\ IF Len(work[p].todo) = 1 THEN Ends(p)
       ELSE work' = [work EXCEPT ![p] = Rest(@)] /\ fleetLock' = 0 /\ UNCHANGED roleLock
    /\ UNCHANGED <<row, doc, planned, shown, rleft>>
BumpFails(p) ==
    /\ At(p, "bump") /\ Fault
    /\ Ends(p) /\ Went({"fault"})
    /\ UNCHANGED <<row, fleetRev, doc, planned, shown>>

----------------------------------------------------------------------------
(* A snapshot reads the revision, the rows and the revision again.             *)

ReadBegin(p) ==
    /\ Asked(p, "read") /\ Take(p)
    /\ work' = [work EXCEPT ![p] =
         [op |-> "read", todo |-> IF SettleAttempts = 1 THEN <<"last">> ELSE <<"rows">>,
          rev |-> fleetRev, seen |-> 0, tries |-> 1, settled |-> FALSE]]
    /\ UNCHANGED <<row, fleetRev, doc, planned, roleLock, fleetLock, shown, rpast>>
\* Mutant: the revision is not looked at again.
Settles_Once(o) == TRUE
Settles(o) == o.rev = fleetRev
ReadStep(p) ==
    /\ work[p].op = "read"
    /\ LET o == work[p]
           step == o.todo[1] IN
       IF step = "rows"
       THEN work' = [work EXCEPT ![p].seen = rpast.wrote, ![p].todo = <<"again">>]
       ELSE IF step = "again" /\ Settles(o)
       THEN work' = [work EXCEPT ![p].settled = TRUE, ![p].todo = <<"shows">>]
       ELSE IF step = "again" /\ o.tries < SettleAttempts - 1
       THEN work' = [work EXCEPT ![p].rev = fleetRev, ![p].tries = @ + 1, ![p].todo = <<"rows">>]
       ELSE IF step = "again" THEN work' = [work EXCEPT ![p].todo = <<"last">>]
       ELSE IF step = "last" THEN work' = [work EXCEPT ![p].seen = rpast.wrote, ![p].todo = <<"stamp">>]
       ELSE IF step = "stamp" THEN work' = [work EXCEPT ![p].rev = fleetRev, ![p].todo = <<"shows">>]
       ELSE work' = [work EXCEPT ![p] = NoWork]
    /\ UNCHANGED <<row, fleetRev, doc, planned, roleLock, fleetLock, shown, rpast, rleft>>

\* External: the process dies, and its locks go with it.
EditorDies(p) ==
    /\ rleft.crash > 0 /\ work[p].op \notin {"none", "read"}
    /\ rleft' = [rleft EXCEPT !.crash = @ - 1]
    /\ Ends(p) /\ Went({"crash"})
    /\ UNCHANGED <<row, fleetRev, doc, planned, shown>>

EditorStep(p) ==
    \/ EnterStep(p) \/ PolicyStep(p) \/ CheckStep(p) \/ GuardStep(p)
    \/ WriteStep(p) \/ DropStep(p) \/ BumpStep(p) \/ ReadStep(p)
RolesNext == \E p \in Editors :
    \/ SetRolesBegin(p) \/ EditBegin(p) \/ ImportBegin(p) \/ MigrateBegin(p)
    \/ PolicyBegin(p) \/ RetireBegin(p) \/ PlanSchedule(p) \/ DropSchedule(p)
    \/ ObserveBegin(p) \/ IdentifyBegin(p) \/ ReadBegin(p)
    \/ EditorStep(p)
    \/ PolicyFails(p) \/ DropFails(p) \/ BumpFails(p) \/ EditorDies(p)
    \/ \E rows \in SUBSET Boxes : WriteFails(p, rows)

----------------------------------------------------------------------------
(* Properties.                                                                 *)

\* With nobody at work and nothing gone wrong, what the inventory declares is what
\* the policy enforces, and a device that is not in the inventory is not in the
\* policy (drift_report).
DriftOnlyFromFailure ==
    roleLock = 0 /\ rpast.wrong = {} => \A b \in Boxes : row[b].role = doc.of[b]

\* Every role that a row, the policy or a schedule names is defined, whatever fails
\* in between (delete_role, replace_definitions, create_schedule).
RolesAreKnown ==
    /\ \A b \in Boxes : {row[b].role, doc.of[b]} \subseteq KnownRoles(doc) \cup {"none"}
    /\ planned \subseteq KnownRoles(doc)

\* A device that is not in the inventory has no role, ACL or quarantine, unless the
\* policy failed in its retirement or came first in its registration (retire_device).
AbsentIsUngoverned ==
    roleLock = 0 /\ "kept" \notin rpast.wrong =>
      \A b \in Governed(doc) : row[b].there \/ b \in rpast.ahead

\* No two devices are given one network (_validate_network_replacements under the
\* guard).
NetworksDisjoint ==
    \A b, c \in Boxes : b # c /\ row[b].net # "none" => row[b].net # row[c].net

\* A snapshot's rows are those its revision counts, or with them the one change that
\* is about to be counted; when it did not settle they may be older (FleetStore.snapshot).
SnapshotsAgree ==
    \A p \in Editors :
      LET o == work[p] IN
      o.op = "read" /\ o.todo = <<"shows">> =>
        /\ o.settled => o.seen >= rpast.counted[o.rev + 1]
        /\ o.rev < fleetRev => o.seen <= rpast.counted[o.rev + 2]

RolesSafe ==
    /\ DriftOnlyFromFailure /\ RolesAreKnown /\ AbsentIsUngoverned
    /\ NetworksDisjoint /\ SnapshotsAgree

\* The first request that stops halfway leaves its devices declared no more open than
\* they are enforced: what is left to do restricts them (_change_direction: the safe
\* residue).
SafeResidue ==
    \A p \in Editors :
      rpast.wrong \subseteq {"partial"} /\ work[p].op \in {"roles", "edit", "csv"} /\ work'[p].op = "none" =>
        \A b \in DOMAIN work[p].map :
          row'[b].there /\ row'[b].role # doc'.of[b] =>
            DirectionOf(b, b :> row[b].role)' \in {"tighten", "neutral"}

\* A commit for a request that needs a confirmation, and takes something away, was
\* shown to someone as exactly this change of exactly this policy
\* (confirm_blast_radius).
ConfirmedOnly ==
    doc' # doc /\ roleLock # 0 /\ work[roleLock].guarded /\ work[roleLock].op # "migrate"
      /\ NeedsConfirmation(doc, doc') => Token(doc.rev, doc') \in rpast.tokens

\* A migration takes the explicit ACL from a device only when its role is in force
\* (migrate_assignment).
EnforcementContinues ==
    \A b \in Boxes :
      doc.acl[b] # "none" /\ doc'.acl[b] = "none" /\ work[roleLock].op = "migrate" =>
        doc.of[b] = work[roleLock].rq.role /\ row[b].role = doc.of[b]

\* A row keeps its registration as long as it is there (_registration_id).
RegistrationIsKept ==
    \A b \in Boxes : row[b].reg # 0 /\ row'[b].there => row'[b].reg = row[b].reg

RolesSteps == SafeResidue /\ ConfirmedOnly /\ EnforcementContinues /\ RegistrationIsKept

\* The lock and the guard come back (retirement, imports and edits wait for one
\* another in one order).
LocksReturn == roleLock = 0 /\ fleetLock = 0
=============================================================================
