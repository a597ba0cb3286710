---------------------------- MODULE PeerDirectory ---------------------------
(***************************************************************************)
(* The tracker's announce path for one torrent: who is told about whom.    *)
(*                                                                         *)
(* A request authenticates against a cached view of the credential file    *)
(* (credential_cache.py, auth.py), takes a cached view of the peer policy  *)
(* (tracker.PolicySnapshot), enters its row in the registry                *)
(* (peer_registry.py), selects permitted peers and, for a device, records  *)
(* every address in a durable handout row before it discloses any of them  *)
(* (peer_handouts.py).  Requests run in threads of their own; the tracker  *)
(* may die between any two of their steps, and only the files survive.     *)
(*                                                                         *)
(* A principal stands for its address too; the legacy client announces     *)
(* from the address of the device LegacyAt.                                *)
(***************************************************************************)
EXTENDS Integers, FiniteSets

CONSTANTS
    Members,        \* devices that announce with their own credential
    LegacyAt,       \* the device whose address a legacy client uses
    DirBudgets,     \* who announces and what may happen from outside
    Nothing         \* a missing row, baseline or index

VARIABLES
    creds,      \* the credential file: its identity and the revoked devices
    credView,   \* the resolver's snapshot of it
    rules,      \* the policy file: identity, fail-closed, denied, restricted
    ruleView,   \* the snapshot of the policy
    swarm,      \* the registry's rows
    base,       \* transfer counter baselines by principal
    roleIdx,    \* the registry's role index
    client,     \* the clients: session, counter, and bytes really sent
    credited,   \* bytes the deltas added up to, by principal
    ends,       \* devices with a durable endpoint
    admit,      \* the handout admissions file
    hand,       \* the handout rows
    ask,        \* the requests under way
    told,       \* what was disclosed: to whom, which address, asked when
    dirNow,     \* the time
    dirLeft     \* what is left of the outside events

fileVars == <<creds, rules, ends, admit, hand>>
memVars  == <<credView, ruleView, swarm, base, roleIdx>>
dirVars  == <<fileVars, memVars, client, credited, ask, told, dirNow, dirLeft>>

Origin == "origin"
Legacy == "legacy"
Principals == Members \cup {Origin, Legacy}

DirEvents == {"revoke", "deny", "group", "close", "send", "renew", "stop", "disk",
              "blind", "crash", "time"}
DirSpend(e) == dirLeft[e] > 0 /\ dirLeft' = [dirLeft EXCEPT ![e] = @ - 1]

\* INTERVAL, the handout lifetime and the answer's size, in the model's units;
\* MAX_RECIPIENTS.
Interval == 1
HandoutTtl == 3
NumWant == 2
MaxRecipients == Cardinality(Members)

AddressOf(p) == IF p = Legacy THEN LegacyAt ELSE p

NoAsk == [at |-> "off", key |-> 0, revoked |-> {}, rules |-> Nothing, since |-> 0,
          peers |-> {}, then |-> [creds |-> 0, rules |-> 0]]

DirInit ==
    /\ creds = [id |-> 1, revoked |-> {}]
    /\ credView = Nothing
    /\ rules = [id |-> 1, closed |-> FALSE, denied |-> {}, group |-> {}]
    /\ ruleView = Nothing
    /\ swarm = {} /\ base = [p \in Principals |-> Nothing] /\ roleIdx = Nothing
    /\ client = [p \in Principals |-> [pid |-> 1, up |-> 0, sent |-> 0, leave |-> FALSE]]
    /\ credited = [p \in Principals |-> 0]
    /\ ends = {}
    /\ admit = [d \in Members |-> "none"] /\ hand = [d \in Members |-> Nothing]
    /\ ask = [p \in Principals |-> NoAsk]
    /\ told = {}
    /\ dirNow = 0
    /\ dirLeft \in DirBudgets

To(p, step) == ask' = [ask EXCEPT ![p].at = step]

----------------------------------------------------------------------------
(* A request's views of the files.                                         *)

\* do_GET: the file's identity is taken before anything is read.
Begin(p) ==
    /\ ask[p].at = "off" /\ p \in dirLeft.who
    /\ ask' = [ask EXCEPT ![p] = [NoAsk EXCEPT !.at = "load", !.key = creds.id,
                  !.since = dirNow, !.then = [creds |-> creds.id, rules |-> rules.id]]]
    /\ UNCHANGED <<fileVars, memVars, client, credited, told, dirNow, dirLeft>>

\* CredentialResolver.snapshot: the cached view while the identity is the one it
\* was read under, else the file as it is now, kept under the identity taken first.
\* Mutant: the identity is not compared.
Snapshot_Any(p) ==
    IF credView # Nothing THEN credView ELSE [id |-> ask[p].key, revoked |-> creds.revoked]

Snapshot(p) ==
    IF credView # Nothing /\ credView.id = ask[p].key THEN credView
    ELSE [id |-> ask[p].key, revoked |-> creds.revoked]

\* resolve_announce_bearer: a revoked device is refused.
Authenticate(p) ==
    /\ ask[p].at = "load"
    /\ credView' = Snapshot(p)
    /\ IF p \in credView'.revoked
       THEN ask' = [ask EXCEPT ![p] = NoAsk]
       ELSE ask' = [ask EXCEPT ![p].at = "policy", ![p].revoked = credView'.revoked,
                               ![p].key = 0]
    /\ UNCHANGED <<fileVars, ruleView, swarm, base, roleIdx, client, credited, told,
                   dirNow, dirLeft>>

\* PolicySnapshot.load, one thread at a time: the cached view while the file has
\* the identity it was read under; else the file is read between two looks at its
\* identity, and again when they differ.
LookAtPolicy(p) ==
    /\ ask[p].at = "policy" /\ \A q \in Principals : ask[q].at \notin {"read", "confirm"}
    /\ IF ruleView # Nothing /\ ruleView.id = rules.id
       THEN ask' = [ask EXCEPT ![p].at = "enter", ![p].rules = ruleView]
       ELSE ask' = [ask EXCEPT ![p].at = "read", ![p].key = rules.id]
    /\ UNCHANGED <<fileVars, memVars, client, credited, told, dirNow, dirLeft>>

ReadPolicy(p) ==
    /\ ask[p].at = "read"
    /\ ask' = [ask EXCEPT ![p].at = "confirm", ![p].rules = [rules EXCEPT !.id = ask[p].key]]
    /\ UNCHANGED <<fileVars, memVars, client, credited, told, dirNow, dirLeft>>

\* Mutant: what was read is kept under the identity the file has afterwards.
PublishedRules_Late(p) == [ask[p].rules EXCEPT !.id = rules.id]

PublishedRules(p) == IF ask[p].rules.id = rules.id THEN ask[p].rules ELSE Nothing

ConfirmPolicy(p) ==
    /\ ask[p].at = "confirm"
    /\ IF PublishedRules(p) # Nothing
       THEN /\ ask' = [ask EXCEPT ![p].at = "enter", ![p].key = 0, ![p].rules = PublishedRules(p)]
            /\ ruleView' = PublishedRules(p)
       ELSE /\ ask' = [ask EXCEPT ![p].at = "read", ![p].key = rules.id, ![p].rules = Nothing]
            /\ UNCHANGED ruleView
    /\ UNCHANGED <<fileVars, credView, swarm, base, roleIdx, client, credited, told,
                   dirNow, dirLeft>>

----------------------------------------------------------------------------
(* The registry.                                                           *)

Row(p) == [who |-> p, pid |-> client[p].pid, seen |-> ask[p].since]
Others(rows, p) == {r \in rows : r.who # p \/ r.pid # client[p].pid}

\* _prune: rows that were silent for two intervals.
Stale(r, t) == r.seen < t - 2 * Interval
Kept(rows, t) == {r \in rows : ~Stale(r, t)}

\* _remove_record: a removed row takes the baseline of its session along.
BaseWithout(gone) ==
    [p \in Principals |->
        IF base[p] # Nothing /\ \E r \in gone : r.who = p /\ r.pid = base[p].pid
        THEN Nothing ELSE base[p]]

\* _counter_delta: growth within one session; a new session, or a counter that
\* went back, starts a new baseline and adds nothing.
\* Mutant: the first report of a baseline counts in full.
Delta_First(p) ==
    IF base[p] = Nothing \/ base[p].pid # client[p].pid THEN client[p].up
    ELSE IF client[p].up < base[p].up THEN 0 ELSE client[p].up - base[p].up

Delta(p) ==
    IF base[p] = Nothing \/ base[p].pid # client[p].pid THEN 0
    ELSE IF client[p].up < base[p].up THEN 0 ELSE client[p].up - base[p].up

\* The role index has every row of a device that has a role in the policy the
\* index was built from.
RoleKeys(rows, doc) == {[who |-> r.who, pid |-> r.pid] : r \in {s \in rows : s.who \in doc.group}}

\* _role_index_add, _role_index_remove: kept in step with the rows.
\* Mutant: a row that joins is not entered.
IndexWith_Old(rows) ==
    IF roleIdx = Nothing \/ rows = {} THEN Nothing
    ELSE [roleIdx EXCEPT !.keys = @ \cap RoleKeys(rows, roleIdx.doc)]

IndexWith(rows) ==
    IF roleIdx = Nothing \/ rows = {} THEN Nothing
    ELSE [roleIdx EXCEPT !.keys = RoleKeys(rows, roleIdx.doc)]

\* announce, with the endpoint that _persist_endpoint writes for a device: the
\* row of this session is entered, renewed, or removed when the client stops.
Enter(p) ==
    /\ ask[p].at = "enter"
    /\ IF client[p].leave
       THEN LET gone == swarm \ Others(swarm, p) IN
            /\ swarm' = Others(swarm, p)
            /\ base' = BaseWithout(gone)
            /\ UNCHANGED credited
       ELSE /\ swarm' = Others(swarm, p) \cup {Row(p)}
            /\ credited' = [credited EXCEPT ![p] = @ + Delta(p)]
            /\ base' = [base EXCEPT ![p] = [pid |-> client[p].pid, up |-> client[p].up]]
    /\ roleIdx' = IndexWith(swarm')
    /\ \/ ends' = ends \cup ({p} \cap Members) /\ UNCHANGED dirLeft
       \/ p \in Members /\ DirSpend("disk") /\ UNCHANGED ends
    /\ To(p, "select")
    /\ UNCHANGED <<creds, rules, admit, hand, credView, ruleView, client, told, dirNow>>

\* The pruner, and the reads that prune when they are due.
Prune ==
    /\ \E r \in swarm : Stale(r, dirNow)
    /\ swarm' = Kept(swarm, dirNow)
    /\ base' = BaseWithout(swarm \ swarm')
    /\ roleIdx' = IndexWith(swarm')
    /\ UNCHANGED <<fileVars, credView, ruleView, client, credited, ask, told, dirNow, dirLeft>>

----------------------------------------------------------------------------
(* The selection.                                                          *)

\* legacy_attributions: a legacy client stands for the devices whose durable
\* endpoint is its address, or for itself.
Attributed(p) ==
    IF p # Legacy THEN {p}
    ELSE IF LegacyAt \in ends THEN {LegacyAt} ELSE {Legacy}

\* mutual_permit: neither side denies the other; a restricted role admits its
\* members and the origin.
SideAdmits(doc, x, y) == x \notin doc.denied /\ (x \in doc.group => y \in doc.group \cup {Origin})
Permits(doc, x, y) ==
    /\ ~doc.closed
    /\ x \notin doc.denied /\ y \notin doc.denied
    /\ SideAdmits(doc, x, y) /\ SideAdmits(doc, y, x)

\* _legacy_restricted and the predicate of _select, with the revocations of the
\* request's own view.
Permitted(p, q) ==
    \A x \in Attributed(p) : \A y \in Attributed(q) :
        /\ (p = Legacy \/ q = Legacy) => ({x, y} \cap ask[p].revoked = {})
        /\ p = Legacy => x \notin ask[p].rules.denied \cup ask[p].rules.group
        /\ Permits(ask[p].rules, x, y)

\* _restricted_candidates: a restricted device is offered its role's rows, the
\* origin and legacy clients, through the indexes.
Candidates(p, idx) ==
    IF p \in ask[p].rules.group
    THEN {r \in swarm : [who |-> r.who, pid |-> r.pid] \in idx.keys
                        \/ r.who \in {Origin, Legacy}}
    ELSE swarm

\* _role_index: built anew for another compiled policy.
\* Mutant: the index of an older policy is used.
Compiled_Old(p) ==
    IF p \notin ask[p].rules.group \/ roleIdx # Nothing THEN roleIdx
    ELSE [doc |-> ask[p].rules, keys |-> RoleKeys(swarm, ask[p].rules)]

Compiled(p) ==
    IF p \notin ask[p].rules.group \/ (roleIdx # Nothing /\ roleIdx.doc = ask[p].rules)
    THEN roleIdx
    ELSE [doc |-> ask[p].rules, keys |-> RoleKeys(swarm, ask[p].rules)]

Offered(p, idx) ==
    {r \in Candidates(p, idx) : (r.who # p \/ r.pid # client[p].pid) /\ Permitted(p, r.who)}

\* _select: nobody under a closed policy; else permitted rows up to the size asked
\* for.  An unreadable endpoint store withholds everything that is legacy.
Select(p) ==
    /\ ask[p].at = "select"
    /\ roleIdx' = IF ask[p].rules.closed THEN roleIdx ELSE Compiled(p)
    /\ \E blind \in BOOLEAN : \E chosen \in SUBSET swarm :
         LET may == IF ask[p].rules.closed \/ (blind /\ p = Legacy) THEN {}
                    ELSE {r \in Offered(p, roleIdx') : ~(blind /\ r.who = Legacy)}
         IN /\ IF blind THEN DirSpend("blind") ELSE UNCHANGED dirLeft
            /\ chosen \subseteq may
            /\ Cardinality(chosen) = IF Cardinality(may) < NumWant THEN Cardinality(may)
                                     ELSE NumWant
            /\ ask' = [ask EXCEPT ![p] = [NoAsk EXCEPT
                  !.at = IF p \in Members /\ chosen # {} THEN "admit" ELSE "answer",
                  !.since = ask[p].since, !.peers = {AddressOf(r.who) : r \in chosen}]]
    /\ UNCHANGED <<fileVars, credView, ruleView, swarm, base, client, credited, told, dirNow>>

----------------------------------------------------------------------------
(* The handout ledger.                                                     *)

\* _record_selected: any failure of the ledger withholds the peers.
\* Mutant: the peers are answered all the same.
Withheld_Not(p) == [ask EXCEPT ![p].at = "answer"]

Withheld(p) == [ask EXCEPT ![p].at = "answer", ![p].peers = {}]

LedgerFails(p) ==
    /\ ask[p].at \in {"admit", "ensure", "activate", "record"} /\ DirSpend("disk")
    /\ ask' = Withheld(p)
    /\ UNCHANGED <<fileVars, memVars, client, credited, told, dirNow>>

\* _admit: the device is admitted as pending, its row exists, it becomes active.
\* Mutant: it is admitted as active at once.
FirstState_Active == "active"

FirstState == "pending"

Admit(p) ==
    /\ ask[p].at = "admit"
    /\ IF admit[p] = "none" /\ (hand[p] # Nothing
             \/ Cardinality({d \in Members : admit[d] # "none"}) >= MaxRecipients)
       THEN ask' = Withheld(p) /\ UNCHANGED admit
       ELSE /\ admit' = [admit EXCEPT ![p] = IF @ = "none" THEN FirstState ELSE @]
            /\ To(p, "ensure")
    /\ UNCHANGED <<creds, rules, ends, hand, memVars, client, credited, told, dirNow, dirLeft>>

EnsureRow(p) ==
    /\ ask[p].at = "ensure"
    /\ IF hand[p] = Nothing /\ admit[p] = "active"
       THEN ask' = Withheld(p) /\ UNCHANGED hand
       ELSE /\ hand' = [hand EXCEPT ![p] = IF @ = Nothing THEN {} ELSE @]
            /\ To(p, "activate")
    /\ UNCHANGED <<creds, rules, ends, admit, memVars, client, credited, told, dirNow, dirLeft>>

Activate(p) ==
    /\ ask[p].at = "activate"
    /\ IF admit[p] = "none"
       THEN ask' = Withheld(p) /\ UNCHANGED admit
       ELSE admit' = [admit EXCEPT ![p] = "active"] /\ To(p, "record")
    /\ UNCHANGED <<creds, rules, ends, hand, memVars, client, credited, told, dirNow, dirLeft>>

Renewal == IF HandoutTtl \div 3 < 1 THEN 1 ELSE HandoutTtl \div 3

\* record's update: expired addresses go, new ones get a full lifetime, and one
\* that is close to its end is renewed.
\* Mutant: an address that is there already keeps its end.
Recorded_NoRenewal(row, addrs, t) ==
    LET held == {x \in row : t < x.till} IN
    {x \in held : TRUE}
        \cup {[ip |-> a, till |-> t + HandoutTtl] : a \in {b \in addrs : \A x \in held : x.ip # b}}

Recorded(row, addrs, t) ==
    LET held == {x \in row : t < x.till}
        long == {x \in held : x.ip \notin addrs \/ x.till - t > Renewal}
    IN long \cup {[ip |-> a, till |-> t + HandoutTtl] :
                      a \in {b \in addrs : \A x \in long : x.ip # b}}

RecordRow(p) ==
    /\ ask[p].at = "record"
    /\ hand' = [hand EXCEPT ![p] = Recorded(@, ask[p].peers, ask[p].since)]
    /\ To(p, "answer")
    /\ UNCHANGED <<creds, rules, ends, admit, memVars, client, credited, told, dirNow, dirLeft>>

\* The response leaves: a device now knows these addresses.
Answer(p) ==
    /\ ask[p].at = "answer"
    /\ told' = {x \in told : dirNow <= x.at + Renewal}
               \cup {[to |-> p, ip |-> a, at |-> ask[p].since] :
                         a \in IF p \in Members THEN ask[p].peers ELSE {}}
    /\ ask' = [ask EXCEPT ![p] = NoAsk]
    /\ UNCHANGED <<fileVars, memVars, client, credited, dirNow, dirLeft>>

----------------------------------------------------------------------------
(* Outside the request.                                                    *)

\* iris-revoke replaces the credential file.
Revoke(d) ==
    /\ d \notin creds.revoked /\ DirSpend("revoke")
    /\ creds' = [id |-> creds.id + 1, revoked |-> creds.revoked \cup {d}]
    /\ UNCHANGED <<rules, ends, admit, hand, memVars, client, credited, ask, told, dirNow>>

\* A policy mutation is committed, or the policy becomes unreadable.
Govern(e, d) ==
    /\ DirSpend(e)
    /\ rules' = [rules EXCEPT !.id = @ + 1,
                              !.denied = IF e = "deny" THEN @ \cup {d} ELSE @,
                              !.group = IF e = "group" THEN @ \cup {d} ELSE @,
                              !.closed = e = "close"]
    /\ UNCHANGED <<creds, ends, admit, hand, memVars, client, credited, ask, told, dirNow>>

\* A client sends bytes; starts a new session; or says that it stops.
ClientSends(p) ==
    /\ ask[p].at = "off" /\ p \in dirLeft.who /\ DirSpend("send")
    /\ client' = [client EXCEPT ![p].up = @ + 1, ![p].sent = @ + 1, ![p].leave = FALSE]
    /\ UNCHANGED <<fileVars, memVars, credited, ask, told, dirNow>>

ClientRenews(p) ==
    /\ ask[p].at = "off" /\ p \in dirLeft.who /\ DirSpend("renew")
    /\ client' = [client EXCEPT ![p].pid = @ + 1, ![p].up = 0, ![p].leave = FALSE]
    /\ UNCHANGED <<fileVars, memVars, credited, ask, told, dirNow>>

ClientStops(p) ==
    /\ ask[p].at = "off" /\ p \in dirLeft.who /\ DirSpend("stop")
    /\ client' = [client EXCEPT ![p].leave = TRUE]
    /\ UNCHANGED <<fileVars, memVars, credited, ask, told, dirNow>>

DirTick ==
    /\ DirSpend("time")
    /\ dirNow' = dirNow + 1
    /\ UNCHANGED <<fileVars, memVars, client, credited, ask, told>>

\* The tracker dies: registry, views and requests are gone.
DirectoryDies ==
    /\ DirSpend("crash")
    /\ credView' = Nothing /\ ruleView' = Nothing /\ swarm' = {}
    /\ base' = [p \in Principals |-> Nothing] /\ roleIdx' = Nothing
    /\ ask' = [p \in Principals |-> NoAsk]
    /\ UNCHANGED <<fileVars, client, credited, told, dirNow>>

RequestStep(p) ==
    \/ Begin(p) \/ Authenticate(p) \/ LookAtPolicy(p) \/ ReadPolicy(p) \/ ConfirmPolicy(p) \/ Enter(p)
    \/ Select(p) \/ Answer(p)
LedgerStep(p) == Admit(p) \/ EnsureRow(p) \/ Activate(p) \/ RecordRow(p)

DirNext ==
    \/ \E p \in Principals :
          RequestStep(p) \/ ClientSends(p) \/ ClientRenews(p) \/ ClientStops(p)
    \/ \E d \in Members :
          \/ LedgerStep(d) \/ LedgerFails(d) \/ Revoke(d)
          \/ \E e \in {"deny", "group", "close"} : Govern(e, d)
    \/ Prune \/ DirTick \/ DirectoryDies

----------------------------------------------------------------------------
(* Properties.                                                             *)

\* Whatever fails and whenever the tracker dies, each address a device was told
\* is in its durable row at least until the renewal time after the request
\* (record, _record_selected).
DisclosedIsRecorded ==
    \A x \in told : dirNow <= x.at + Renewal =>
        /\ admit[x.to] = "active" /\ hand[x.to] # Nothing
        /\ \E h \in hand[x.to] : h.ip = x.ip /\ x.at + Renewal < h.till

\* The two files can always be opened again: no row without admission, no active
\* admission without row (initialize).
LedgerReopens ==
    \A d \in Members :
        /\ hand[d] # Nothing => admit[d] # "none"
        /\ admit[d] = "active" => hand[d] # Nothing

\* A request that begins after a revocation or a policy commit never works on an
\* older view (CredentialResolver.snapshot, PolicySnapshot.load).
ViewsAreFresh ==
    \A p \in Principals :
        /\ ask[p].at \in {"policy", "read", "confirm", "enter", "select"}
              /\ ask[p].then.creds = creds.id => ask[p].revoked = creds.revoked
        /\ ask[p].at \in {"enter", "select"} =>
              /\ ask[p].rules.id >= ask[p].then.rules
              /\ ask[p].rules.id = rules.id => ask[p].rules = rules

\* The role index has exactly the rows of its policy's members, so that a
\* restricted device is offered what a full scan would permit (_index_add,
\* _index_remove, _role_index).
IndexIsExact == roleIdx # Nothing => roleIdx.keys = RoleKeys(swarm, roleIdx.doc)

\* Restarts of clients and tracker, stops and stale rows never make the deltas
\* add up to more than was sent (_counter_delta, _remove_record).
NeverOvercounted == \A p \in Principals : credited[p] <= client[p].sent

DirSafe ==
    /\ DisclosedIsRecorded /\ LedgerReopens /\ ViewsAreFresh /\ IndexIsExact
    /\ NeverOvercounted

\* A restricted device is offered all that the policy permits it, whichever index
\* answers; and nobody is told of a device that the request's policy denies
\* (_select, _restricted_candidates).
OffersFollowPolicy ==
    \A p \in Principals :
        ask[p].at = "select" /\ ask'[p].at \in {"admit", "answer"} =>
            /\ ask'[p].peers \cap ask[p].rules.denied = {}
            /\ dirLeft'["blind"] = dirLeft["blind"] =>
                  (ask'[p].peers = {}) =
                      (ask[p].rules.closed \/ {r \in swarm : (r.who # p \/ r.pid # client[p].pid)
                                                             /\ Permitted(p, r.who)} = {})
=============================================================================
