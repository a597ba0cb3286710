---------------------------- MODULE PeerBlocking ----------------------------
(***************************************************************************)
(* Origin-side blocking of peers: the sharing policy and its files         *)
(* (server/peer_policy.py), the addresses devices announce from            *)
(* (server/peer_endpoints.py), the operator's reviewed origin restrictions *)
(* (server/origin_enforcement.py) and the tracker's reconciler, the only   *)
(* writer of aria2's block list (server/tracker.py,                        *)
(* server/blocklist_reconciler.py, server/origin_qos.py).                  *)
(*                                                                         *)
(* One reconciler pass is a sequence of steps, so that announcements,      *)
(* policy commits, an aria2 restart and a crash of the tracker fall        *)
(* between them.  The control lock excludes only the operator's approval.  *)
(***************************************************************************)
EXTENDS Integers, FiniteSets, FiniteSetsExt, TLC

CONSTANTS
    Devices,        \* device principals
    Ips,            \* addresses
    OriginIp,       \* IRIS_HOST_IP, the protected address of the seeder
    EndpointCap,    \* ENDPOINT_CAP: addresses kept of one principal
    Gids,           \* aria2 downloads that can be active
    None,           \* no value
    OutCap,         \* OUTBOX_CAP
    RingSize,       \* LKG_RING_SIZE
    MaxRev,         \* bound: policy revisions
    MaxSession,     \* bound: aria2 sessions
    NewIpBudget,    \* max_new_ips of the operator's requests
    BlockScenarios  \* bound: initial policies and how often each outside event happens

ASSUME BlockAssumption ==
    /\ OriginIp \in Ips /\ EndpointCap \in Nat \ {0} /\ None \notin Ips \cup Devices
    /\ OutCap \in Nat \ {0} /\ RingSize \in Nat \ {0} /\ MaxRev \in Nat /\ MaxSession \in Nat \ {0}
    /\ Gids # {} /\ "seeder" \notin Devices
    /\ \A list \in SUBSET Ips : list # None
    /\ None \notin [rev : Nat, list : SUBSET Ips, sess : Nat,
                    bind : SUBSET [ip : Ips, devs : SUBSET (Devices \cup {"seeder"})]]
    /\ None \notin {"application_state_unavailable", "policy_changed"}

VARIABLES
    pf,        \* the policy files: authoritative, last known good, ring, watermark
    eps,       \* the durable endpoint map: principal -> address -> age
    pend,      \* endpoints whose durable write failed
    live,      \* addresses in the tracker's registry that are not a service's
    creds,     \* revoked devices, and whether the secrets file reads
    ctl,       \* origin-enforcement.json
    app,       \* origin-enforcement.application.json
    proof,     \* origin-enforcement.status.json
    review,    \* the preview the operator holds
    stat,      \* peer-enforcement.json
    qstat,     \* origin-qos.json
    aria,      \* aria2: session, block list, options
    trk,       \* the tracker's memory and the pass it is in
    ops,       \* the last operation's number and the exported ones
    outside    \* how often each outside event may still happen

blockVars == <<pf, eps, pend, live, creds, ctl, app, proof, review, stat, qstat, aria, trk,
               ops, outside>>

Seeder == "seeder"
Principals == Devices \cup {Seeder}
Once(e) == outside[e] > 0 /\ outside' = [outside EXCEPT ![e] = @ - 1]

----------------------------------------------------------------------------
(* The policy document and its files *)

\* A scenario starts from a policy with an empty outbox.
ASSUME ScenarioAssumption ==
    \A s \in BlockScenarios :
        /\ s.doc \in [rev : Nat, say : [Devices -> {"open", "deny", "noorigin"}], qos : {0, 1},
                      roles : BOOLEAN, rolesPresent : BOOLEAN, out : {{}}, epoch : Nat]
        /\ s.eps \in [Devices \cup {"seeder"} -> [Ips -> {"none", "fresh", "old"}]]
        /\ s.revoked \subseteq Devices
        /\ \A p \in DOMAIN s.eps : Cardinality({ip \in Ips : s.eps[p][ip] # "none"}) <= EndpointCap

\* What a document says of a device: nothing, denied (quarantined), or a
\* restricted role whose ACL does not admit the origin.
Verdicts == {"open", "deny", "noorigin"}

base_document == [rev |-> 0, say |-> [d \in Devices |-> "open"], qos |-> 0, roles |-> FALSE,
                  rolesPresent |-> FALSE, out |-> {}, epoch |-> 0]

\* Files without a document in them.
Bad == [none |-> "bad"]
Absent == [none |-> "absent"]
IsDoc(x) == x \notin {Bad, Absent}

\* load_policy: authoritative, else last known good, else nobody may peer.  A
\* document without roles where there were roles once is degraded.
load_policy(f) ==
    CASE IsDoc(f.auth) ->
           [doc |-> f.auth, closed |-> FALSE,
            degraded |-> (f.watermark \/ f.auth.rolesPresent) /\ ~f.auth.roles]
      [] ~IsDoc(f.auth) /\ IsDoc(f.lkg) -> [doc |-> f.lkg, closed |-> FALSE, degraded |-> TRUE]
      [] OTHER -> [doc |-> base_document, closed |-> TRUE, degraded |-> TRUE]

InitializeIfAbsent(f) ==
    IF f.auth = Absent /\ f.lkg = Absent
    THEN [f EXCEPT !.auth = base_document, !.lkg = base_document] ELSE f

\* Mutant: an acknowledgement is believed whatever document it was made for.
effective_acked_Unbound(doc, ack) == IF ack.rev > doc.rev THEN 0 ELSE ack.rev
\* The acknowledgement lives in another file: it counts only for the document
\* it names, or one whose outbox still holds the operation it names.
effective_acked(doc, ack) ==
    IF /\ ack.rev <= doc.rev
       /\ \/ ack.epoch = doc.epoch
          \/ \E e \in doc.out : e.rev = ack.rev /\ e.id = ack.epoch
    THEN ack.rev ELSE 0

Unacked(doc, ack) == {e \in doc.out : e.rev > effective_acked(doc, ack)}

Newest(docs, n) == {d \in docs : Cardinality({x \in docs : x.rev > d.rev}) < n}

\* Mutant: the check counts the outbox before the new operation, off by one.
HasRoom_Full(out) == Cardinality(out) <= OutCap
\* An operation is refused rather than an unexported one dropped.
HasRoom(out) == Cardinality(out) < OutCap

\* commit_mutation under the umbrella lock: a valid authoritative document, room
\* in the outbox; watermark, last known good and ring before the document itself.
Commit(content) ==
    LET f == InitializeIfAbsent(pf)
        prior == f.auth
        out == Unacked(prior, stat.ack)
        present == content.roles \/ prior.rolesPresent
        new == [rev |-> prior.rev + 1, say |-> content.say, qos |-> content.qos,
                roles |-> content.roles, rolesPresent |-> present,
                out |-> out \cup {[rev |-> prior.rev + 1, id |-> ops.last + 1]},
                epoch |-> ops.last + 1]
        ring == {d \in f.ring : d.rev # prior.rev} \cup (IF prior.rev = 0 THEN {} ELSE {prior})
    IN  /\ IsDoc(prior) /\ prior.rev < MaxRev /\ HasRoom(out)
        /\ pf' = [auth |-> new, lkg |-> prior, watermark |-> f.watermark \/ present,
                  ring |-> Newest(ring, RingSize)]
        /\ ops' = [ops EXCEPT !.last = @ + 1]

SetVerdict(d, s) ==
    /\ Once("edit") /\ IsDoc(pf.auth) /\ pf.auth.say[d] # s
    /\ Commit([say |-> [pf.auth.say EXCEPT ![d] = s], qos |-> pf.auth.qos,
               roles |-> pf.auth.roles \/ s = "noorigin"])
    /\ UNCHANGED <<eps, pend, live, creds, ctl, app, proof, review, stat, qstat, aria, trk>>

SetQos ==
    /\ Once("qos") /\ IsDoc(pf.auth)
    /\ Commit([say |-> pf.auth.say, qos |-> 1 - pf.auth.qos, roles |-> TRUE])
    /\ UNCHANGED <<eps, pend, live, creds, ctl, app, proof, review, stat, qstat, aria, trk>>

\* restore_lkg_revision keeps the live revision and outbox.
RestoreRevision ==
    /\ Once("restore") /\ IsDoc(pf.auth)
    /\ \E old \in pf.ring : Commit([say |-> old.say, qos |-> old.qos, roles |-> old.roles])
    /\ UNCHANGED <<eps, pend, live, creds, ctl, app, proof, review, stat, qstat, aria, trk>>

\* Outside the program: the file is damaged, lost, or put back from a copy.
DamagePolicy ==
    /\ Once("damage")
    /\ \/ pf' = [pf EXCEPT !.auth = Bad]
       \/ \E x \in {Bad, Absent} : pf' = [pf EXCEPT !.auth = x, !.lkg = x]
       \/ \E old \in pf.ring : pf' = [pf EXCEPT !.auth = old]
       \/ IsDoc(pf.lkg) /\ pf' = [pf EXCEPT !.auth = pf.lkg]
    /\ UNCHANGED <<eps, pend, live, creds, ctl, app, proof, review, stat, qstat, aria, trk, ops>>

----------------------------------------------------------------------------
(* Endpoints *)

\* record_endpoint: a principal keeps its ENDPOINT_CAP newest addresses.  The
\* order of the announces is not kept: any other address may be the oldest.
Evictable(row, ip) ==
    LET kept == {x \in Ips \ {ip} : row[x] # "none"}
    IN  IF Cardinality(kept) < EndpointCap THEN {None} ELSE kept
record_endpoint(row, ip, gone) ==
    [x \in Ips |-> IF x = ip THEN "fresh" ELSE IF x = gone THEN "none" ELSE row[x]]

\* _handle_announce: the registry, then _persist_endpoint: the durable write, or
\* the queue when it fails.
Announce(p, ip) ==
    /\ Once("announce")
    /\ live' = IF p = Seeder THEN live ELSE live \cup {ip}
    /\ \/ /\ \E gone \in Evictable(eps[p], ip) :
                eps' = [eps EXCEPT ![p] = record_endpoint(eps[p], ip, gone)]
          /\ UNCHANGED pend
       \/ outside.io > 0 /\ pend' = [pend EXCEPT ![p] = ip] /\ UNCHANGED eps
    /\ UNCHANGED <<pf, creds, ctl, app, proof, review, stat, qstat, aria, trk, ops>>

\* The registry alone knows a legacy client; its rows end with a stopped event or
\* an announce interval that was missed.
RegistryRow(ip) ==
    /\ \/ Once("legacy") /\ live' = live \cup {ip}
       \/ ip \in live /\ Once("leave") /\ live' = live \ {ip}
    /\ UNCHANGED <<pf, eps, pend, creds, ctl, app, proof, review, stat, qstat, aria, trk, ops>>

\* The principal stops announcing: its row passes ENDPOINT_TTL.
Expire(p, ip) ==
    /\ Once("expire") /\ eps[p][ip] = "fresh"
    /\ eps' = [eps EXCEPT ![p][ip] = "old"]
    /\ UNCHANGED <<pf, pend, live, creds, ctl, app, proof, review, stat, qstat, aria, trk, ops>>

Denied(res, rev, d) == d \in rev \/ (~res.closed /\ res.doc.say[d] = "deny")

\* denied_retention, _bounded_legacy_retention: the rows of a revoked or denied
\* device outlive their TTL (no legacy seeder token is outstanding).
Retained(res, rev, p) == p # Seeder /\ Denied(res, rev, p)

fresh_endpoints(e, res, rev) ==
    [p \in Principals |-> {ip \in Ips : \/ e[p][ip] = "fresh"
                                        \/ e[p][ip] = "old" /\ Retained(res, rev, p)}]

Pruned(e, res, rev) ==
    [p \in Principals |-> [ip \in Ips |->
        IF ip \in fresh_endpoints(e, res, rev)[p] THEN e[p][ip] ELSE "none"]]

----------------------------------------------------------------------------
(* The derived block list *)

At(dur, pnd, ip) == {p \in Principals : ip \in dur[p] \/ pnd[p] = ip}

\* The origin and the device must admit each other.
mutual_permit(res, d) == res.doc.say[d] = "open"

\* Mutant: an address shared with a permitted principal is blocked too.
ResolvedSet_Shared(dur, pnd, denied) ==
    [block |-> {ip \in Ips \ {OriginIp} : At(dur, pnd, ip) \cap denied # {}}, shared |-> {}]
\* _resolved_set: an address some permitted principal also uses is a conflict.
ResolvedSet(dur, pnd, denied) ==
    LET hit == {ip \in Ips \ {OriginIp} : At(dur, pnd, ip) \cap denied # {}}
        mixed == {ip \in hit : ~ At(dur, pnd, ip) \subseteq denied}
    IN  [block |-> hit \ mixed, shared |-> mixed]

DeniedSet(res, rev) == {d \in Devices : Denied(res, rev, d)}
OriginDenied(res, rev) == DeniedSet(res, rev) \cup {d \in Devices : ~ mutual_permit(res, d)}

\* derive_denied_set: the emergency list has every address of a device and every
\* one the registry shows (active), whoever is there.
derive_denied_set(res, dur, pnd, active, rev) ==
    IF res.closed
    THEN [block |-> {ip \in Ips \ {OriginIp} :
                        At(dur, pnd, ip) \cap Devices # {} \/ ip \in active},
          shared |-> {}, closed |-> TRUE]
    ELSE LET set == ResolvedSet(dur, pnd, DeniedSet(res, rev))
         IN  [block |-> set.block, shared |-> set.shared, closed |-> FALSE]

----------------------------------------------------------------------------
(* The operator's reviewed restrictions *)

default_control == [rev |-> 0, mode |-> "preflight", appr |-> None]
NewApplication == [last |-> None, intent |-> None, sharedRev |-> 0, shared |-> {}]
policy_hash(res) == IF res.closed THEN "closed" ELSE <<res.doc.rev, res.doc.epoch>>

approved_bindings(c) == IF c.appr = None THEN {} ELSE c.appr.bind
AddressesOf(bind) == {b.ip : b \in bind}

\* load_control: an absent file is a fresh start only without its companions.
ControlUsable == ctl # Absent \/ (app = Absent /\ proof = None)
load_control == IF ctl = Absent THEN default_control ELSE ctl

\* load_application_for: present once opted in, never newer than its control.
ApplicationUsable(c) ==
    /\ app = Absent => c.rev = 0
    /\ app # Absent =>
         /\ app.sharedRev <= c.rev
         /\ \A row \in {app.last, app.intent} \ {None} : row.rev <= c.rev
load_application == IF app = Absent THEN NewApplication ELSE app

\* observe: what the evidence supports; bindings only when nothing is missing.
Observe(res, dur, pnd, rev, c) ==
    LET merged == [p \in Principals |->
                     dur[p] \cup {b.ip : b \in {x \in approved_bindings(c) : p \in x.devs}}]
        seen == dur[Seeder] \cup ({pnd[Seeder]} \ {None})
        protected == {OriginIp} \cup seen
        base == derive_denied_set(res, merged, pnd, {}, rev)
        wide == IF res.closed THEN [block |-> {}, shared |-> {}]
                ELSE ResolvedSet(merged, pnd, OriginDenied(res, rev))
        missing == IF res.closed \/ res.degraded THEN "policy_unavailable"
                   ELSE IF seen = {} THEN "origin_unobserved"
                   ELSE IF OriginIp \notin seen THEN "origin_mismatch" ELSE None
        guarded == {ip \in protected : At(merged, pnd, ip) \cap OriginDenied(res, rev) # {}}
        extra == (wide.block \ base.block) \ (protected \cup wide.shared)
        bind == IF missing # None THEN {}
                ELSE {[ip |-> ip, devs |-> At(merged, pnd, ip) \cap OriginDenied(res, rev)] :
                         ip \in extra}
    IN  [hash |-> policy_hash(res), base |-> base.block, bind |-> bind, missing |-> missing,
         shared |-> wide.shared, protected |-> protected, guarded |-> guarded,
         growth |-> Cardinality(AddressesOf(bind) \ AddressesOf(approved_bindings(c)))]

\* preview: the first blocker of a change to the mode.
PreviewBlocker(o, mode) ==
    IF o.missing = "policy_unavailable" THEN o.missing
    ELSE IF mode = "preflight" THEN None
    ELSE IF o.missing # None THEN o.missing
    ELSE IF o.shared # {} THEN "shared_address"
    ELSE IF o.guarded # {} THEN "protected_address"
    ELSE IF o.growth > NewIpBudget THEN "ip_budget_exceeded" ELSE None

Token(c, o, mode) == [ctl |-> c, hash |-> o.hash, bind |-> o.bind, base |-> o.base, mode |-> mode]

\* Store.snapshot, with no pending queue: that is the tracker's memory.
StoreView(c) ==
    LET res == load_policy(pf)
    IN  Observe(res, fresh_endpoints(eps, res, creds.revoked), [p \in Principals |-> None],
                creds.revoked, c)

CanChange == ControlUsable /\ ApplicationUsable(load_control) /\ creds.readable

Preview(mode) ==
    /\ Once("review") /\ CanChange
    /\ pf' = InitializeIfAbsent(pf)
    /\ LET o == StoreView(load_control)
       IN  /\ PreviewBlocker(o, mode) = None
           /\ review' = Token(load_control, o, mode)
    /\ UNCHANGED <<eps, pend, live, creds, ctl, app, proof, stat, qstat, aria, trk, ops>>

\* Mutant: the confirmation names the request, not what was reviewed.
TokenMatches_Request(t, c, o) == t.mode \in {"preflight", "enforce"} /\ t.ctl = c
TokenMatches(t, c, o) == t = Token(c, o, t.mode)

\* Store.change, confirmed, under the umbrella and the control lock (so not
\* within a pass).  The first approval lays down control and journal before it.
Approve ==
    /\ review # None /\ trk.at = "idle" /\ CanChange
    /\ LET c == load_control
           o == StoreView(c)
           new == [rev |-> c.rev + 1, mode |-> review.mode,
                   appr |-> IF review.mode = "enforce" THEN [hash |-> o.hash, bind |-> o.bind]
                                                       ELSE None]
       IN  /\ PreviewBlocker(o, review.mode) = None /\ TokenMatches(review, c, o)
           /\ \/ /\ ctl' = new
                 /\ app' = IF c.rev = 0 THEN NewApplication ELSE app
                 /\ UNCHANGED outside
              \/ \* the process dies between the writes of a first approval
                 /\ c.rev = 0 /\ Once("crash") /\ ctl' = c
                 /\ app' \in {app, NewApplication}
    /\ review' = None
    /\ UNCHANGED <<pf, eps, pend, live, creds, proof, stat, qstat, aria, trk, ops>>

----------------------------------------------------------------------------
(* Runtime.prepare: the list this pass wants *)

\* The blocker public_view names first for the control that is in force.
ViewReason(c, o) ==
    IF PreviewBlocker(o, c.mode) # None THEN PreviewBlocker(o, c.mode)
    ELSE IF c.appr = None THEN None
    ELSE IF c.appr.hash # o.hash THEN "policy_changed"
    ELSE IF c.appr.bind # o.bind /\ o.missing = None THEN "endpoint_set_changed" ELSE None

Frozen == {"origin_unobserved", "origin_mismatch", "policy_unavailable", "policy_changed"}

Unavailable(reason) == [on |-> TRUE, reason |-> reason, list |-> None, bind |-> {},
                        hash |-> None, app |-> load_application]

\* Mutant: after an attempt that may have reached aria2 the last list is put back.
Undecided_Ignore(a) == FALSE
\* An attempted list whose outcome is unknown.
Undecided(a) == a.intent # None

Prepare(res, dur, pnd, rev, baseline) ==
    LET c == load_control
        a == load_application
        o == Observe(res, dur, pnd, rev, c)
        reason == ViewReason(c, o)
        keep == reason \in Frozen
        bind == IF keep THEN a.last.bind ELSE approved_bindings(c)
        want == IF keep /\ reason # "policy_changed" THEN a.last.list
                ELSE o.base \cup AddressesOf(bind)
        retained == ((IF a.sharedRev = c.rev THEN a.shared ELSE {}) \cup o.shared)
                       \cap AddressesOf(approved_bindings(c))
        shared == retained \cup o.shared
        list == want \ (shared \cup o.protected)
    IN  IF ~ ControlUsable THEN Unavailable("control_state_unavailable")
        ELSE IF ~ ApplicationUsable(c) \/ (c.rev # 0 /\ keep /\ Undecided(a))
        THEN Unavailable("application_state_unavailable")
        ELSE IF c.rev = 0
        THEN [on |-> FALSE, reason |-> None, list |-> baseline, bind |-> {},
              hash |-> o.hash, app |-> a]
        ELSE IF keep /\ a.last = None THEN Unavailable(reason)
        ELSE [on |-> TRUE, list |-> list, hash |-> o.hash,
              reason |-> IF reason = None /\ shared # {} /\ c.mode = "enforce"
                         THEN "shared_address" ELSE reason,
              bind |-> {b \in bind : b.ip \in list},
              app |-> [last |-> a.last, intent |-> a.intent, sharedRev |-> c.rev,
                       shared |-> retained]]

----------------------------------------------------------------------------
(* One pass of the reconciler *)

Session == IF aria.up THEN aria.sess ELSE None
NoRead == [none |-> TRUE]

\* _make_revoked_view: an unreadable store leaves the last set that was read.
RevokedView == IF creds.readable THEN creds.revoked ELSE trk.known

\* The queue, the endpoints and the list of a pass that read policy res and
\* revocations rev; the queue was written again, old endpoints pruned, or not.
PassReads(res, rev, wrote, gone, prune) ==
    LET e1 == IF wrote
              THEN [p \in Principals |-> IF pend[p] = None THEN eps[p]
                                         ELSE record_endpoint(eps[p], pend[p], gone[p])]
              ELSE eps
        e2 == IF prune THEN Pruned(e1, res, rev) ELSE e1
        left == IF wrote THEN [p \in Principals |-> None] ELSE pend
        dur == fresh_endpoints(e2, res, rev)
        base == derive_denied_set(res, dur, pend, live, rev)
    IN  \E org \in {Prepare(res, dur, pend, rev, base.block)} :
        LET list == IF org.list = None THEN base.block ELSE org.list
        IN
        /\ eps' = e2 /\ pend' = left
        /\ trk' = [trk EXCEPT !.at = "qos", !.known = rev,
             !.p = [blind |-> FALSE, res |-> res, rows |-> e2, queue |-> pend, live |-> live,
                    waiting |-> \E p \in Principals : left[p] # None,
                    closed |-> base.closed, mixed |-> base.shared # {}, org |-> org,
                    list |-> list, sess |-> Session, out |-> "none",
                    force |-> \/ trk.lastH = None \/ Session # trk.lastS \/ ~trk.ok
                              \/ list # trk.lastH
                              \/ /\ org.on
                                 /\ IF org.app.last = None THEN TRUE
                                    ELSE org.app.last.rev # load_control.rev,
                    qos |-> None, qout |-> "none"]]

\* _run_once up to the first RPC: the pending queue is read, then written again;
\* policy, revocations and endpoints are read once for the whole pass.
PassBegin ==
    /\ trk.at = "idle"
    /\ pf' = InitializeIfAbsent(pf)
    /\ \E wrote \in BOOLEAN, prune \in BOOLEAN :
         LET queued == IF wrote THEN {p \in Principals : pend[p] # None} ELSE {}
         IN  \E gone \in [queued -> Ips \cup {None}] :
               /\ wrote \/ outside.io > 0
               /\ \A p \in queued : gone[p] \in Evictable(eps[p], pend[p])
               /\ PassReads(load_policy(InitializeIfAbsent(pf)), RevokedView, wrote, gone, prune)
    /\ UNCHANGED <<live, creds, ctl, app, proof, review, stat, qstat, aria, ops, outside>>

\* The endpoint store cannot be read: only the rate limits are looked after.
PassStoreUnreadable ==
    /\ trk.at = "idle" /\ Once("io")
    /\ pf' = InitializeIfAbsent(pf)
    /\ trk' = [trk EXCEPT !.at = "qos", !.known = RevokedView,
                 !.p = [blind |-> TRUE, res |-> load_policy(pf'), sess |-> Session, qos |-> None, qout |-> "none"]]
    /\ UNCHANGED <<eps, pend, live, creds, ctl, app, proof, review, stat, qstat, aria, ops>>

\* _prepare_origin_qos, apply_desired: the origin's rate limits, option by option.
PassQos ==
    /\ trk.at = "qos"
    /\ LET p == trk.p
           want == IF aria.up THEN [val |-> p.res.doc.qos, gids |-> aria.gids] ELSE None
           force == trk.qH = None \/ p.sess # trk.qS \/ ~trk.qOk \/ want # trk.qH
       IN  \/ /\ want = None \/ p.res.closed
              /\ trk' = [trk EXCEPT !.at = "apply", !.qOk = FALSE, !.p.qos = want, !.p.qout = "refused"]
              /\ UNCHANGED <<aria, outside>>
           \/ /\ want # None /\ ~p.res.closed /\ ~force
              /\ trk' = [trk EXCEPT !.at = "apply", !.p.qos = want]
              /\ UNCHANGED <<aria, outside>>
           \/ /\ want # None /\ ~p.res.closed /\ force
              /\ \E done \in SUBSET want.gids :
                    /\ IF done = want.gids /\ p.sess # None THEN UNCHANGED outside ELSE Once("rpc")
                    /\ aria' = IF p.sess = None THEN aria
                               ELSE [aria EXCEPT !.opt = [g \in Gids |->
                                        IF g \in done THEN want.val ELSE @[g]]]
                    /\ trk' = [trk EXCEPT !.at = "apply", !.p.qos = want,
                                 !.p.qout = IF done = want.gids /\ p.sess # None THEN "ok" ELSE "fail"]
    /\ UNCHANGED <<pf, eps, pend, live, creds, ctl, app, proof, review, stat, qstat, ops>>

\* before_apply: the attempt is on disk before the call.
JournalsFirst(p) == p.org.on

Row(p) == [rev |-> load_control.rev, list |-> p.list, bind |-> p.org.bind, sess |-> p.sess]

\* The journal cannot be written, or there is nothing exact to apply.
PassNoApply ==
    /\ trk.at = "apply" /\ ~trk.p.blind
    /\ LET p == trk.p
       IN  \/ /\ ~p.force \/ p.org.list = None \/ (p.org.on /\ p.sess = None)
              /\ trk' = [trk EXCEPT !.at = "finish"] /\ UNCHANGED outside
           \/ /\ p.force /\ p.org.list # None /\ p.org.on /\ p.sess # None /\ Once("io")
              /\ trk' = [trk EXCEPT !.at = "finish",
                           !.p.org.reason = "application_state_unavailable"]
           \/ /\ p.force /\ p.org.list # None /\ ~p.org.on /\ p.closed /\ p.list = {}
              /\ trk' = [trk EXCEPT !.at = "finish", !.p.out = "skipped"] /\ UNCHANGED outside
    /\ UNCHANGED <<pf, eps, pend, live, creds, ctl, app, proof, review, stat, qstat, aria, ops>>

PassJournal ==
    /\ trk.at = "apply" /\ ~trk.p.blind /\ trk.p.force /\ trk.p.org.list # None
    /\ IF trk.p.org.on THEN trk.p.sess # None ELSE ~(trk.p.closed /\ trk.p.list = {})
    /\ app' = IF JournalsFirst(trk.p) THEN [trk.p.org.app EXCEPT !.intent = Row(trk.p)] ELSE app
    /\ trk' = [trk EXCEPT !.at = "call", !.p.org.app = IF trk.p.org.on THEN app' ELSE @]
    /\ UNCHANGED <<pf, eps, pend, live, creds, ctl, proof, review, stat, qstat, aria, ops, outside>>

\* setBtPeerBlocklist: taken; refused; or taken and the answer lost.
PassCall ==
    /\ trk.at = "call"
    /\ \/ /\ aria.up /\ aria' = [aria EXCEPT !.block = trk.p.list]
          /\ trk' = [trk EXCEPT !.at = "finish", !.p.out = "ok"] /\ UNCHANGED outside
       \/ /\ ~aria.up /\ UNCHANGED <<aria, outside>>
          /\ trk' = [trk EXCEPT !.at = "finish", !.p.out = "failed"]
       \/ /\ aria.up /\ Once("rpc")
          /\ aria' \in {aria, [aria EXCEPT !.block = trk.p.list]}
          /\ trk' = [trk EXCEPT !.at = "finish", !.p.out = "failed"]
    /\ UNCHANGED <<pf, eps, pend, live, creds, ctl, app, proof, review, stat, qstat, ops>>

\* Mutant: the answer counts whatever session it was given in.
SessionStable_Any(p) == TRUE
SessionStable(p) == p.sess # None /\ Session = p.sess

\* _finish_origin_qos
QosStatus(p, stable) ==
    LET sound == /\ stable /\ p.qout # "refused"
                 /\ p.qout = "ok" \/ (p.qout = "none" /\ trk.qOk /\ p.qos = trk.qH)
    IN  [state |-> IF sound THEN "enforced" ELSE IF p.sess = None THEN "rpc_unavailable" ELSE "degraded",
         sess |-> p.sess, want |-> p.qos]

\* The end of a pass without an endpoint store: the block list is left alone.
PassBlind ==
    /\ trk.at = "apply" /\ trk.p.blind
    /\ LET p == trk.p
           q == QosStatus(p, SessionStable(p))
           applied == SessionStable(p) /\ p.qout = "ok"
       IN  /\ qstat' = q
           /\ stat' = [stat EXCEPT !.state = "fail_closed",
                          !.ack = [rev |-> effective_acked(p.res.doc, stat.ack), epoch |-> p.res.doc.epoch]]
           /\ trk' = [trk EXCEPT !.at = "idle", !.p = NoRead, !.qOk = q.state = "enforced",
                        !.qS = IF applied THEN p.sess ELSE @, !.qH = IF applied THEN p.qos ELSE @]
    /\ UNCHANGED <<pf, eps, pend, live, creds, ctl, app, proof, review, aria, ops, outside>>

\* _build_status and the origin's own verdict.
PassState(p, outcome, stable, ok, reason, success) ==
    IF p.org.on /\ (reason # None \/ ~success) THEN "degraded"
    ELSE IF p.closed THEN "fail_closed"
    ELSE IF p.waiting \/ p.res.degraded \/ p.mixed THEN "degraded"
    ELSE IF outcome = "failed" /\ p.sess = None THEN "rpc_unavailable"
    ELSE IF outcome = "ok" \/ (outcome = "none" /\ ok /\ trk.lastS # None) THEN "enforced"
    ELSE "degraded"

\* Mutant: a failed call leaves the earlier success standing.
CallOk_Sticky(outcome, stable, was) == outcome = "ok" \/ was
\* Whether the remembered list may be relied on after this pass.
CallOk(outcome, stable, was) == outcome = "ok" \/ (outcome \notin {"ok", "failed"} /\ stable /\ was)

\* What the operator is told of the reviewed restrictions.
ProofState(reason, sess, sure) ==
    IF sess # None /\ reason \in {"policy_changed", "endpoint_set_changed"} THEN "review_required"
    ELSE IF ~(sure /\ reason = None) THEN "degraded"
    ELSE IF load_control.mode = "enforce" THEN "enforced" ELSE "preflight"

\* The session is asked for again, the policy read again; then the journal and
\* the proof are written.
PassFinish ==
    /\ trk.at = "finish"
    /\ LET p == trk.p
           stable == SessionStable(p)
           outcome == IF p.out = "ok" /\ ~stable THEN "failed" ELSE p.out
           ok == CallOk(outcome, stable, trk.ok)
           reason == IF p.org.on /\ policy_hash(load_policy(pf)) # policy_hash(p.res)
                     THEN "policy_changed" ELSE p.org.reason
           success == /\ p.org.list # None /\ stable /\ (IF stable THEN trk.ok \/ outcome = "ok" ELSE FALSE)
                      /\ ~p.waiting /\ (p.force => outcome = "ok")
           lastS == IF outcome = "ok" THEN p.sess ELSE trk.lastS
           state == PassState(p, outcome, stable, ok, reason, success)
           q == QosStatus(p, stable)
       IN  /\ trk' = [trk EXCEPT !.at = "export", !.ok = ok, !.lastS = lastS,
                        !.lastH = IF outcome = "ok" THEN p.list ELSE @,
                        !.qOk = q.state = "enforced",
                        !.qS = IF stable /\ p.qout = "ok" THEN p.sess ELSE @,
                        !.qH = IF stable /\ p.qout = "ok" THEN p.qos ELSE @,
                        !.p = [res |-> p.res, q |-> q, acked |-> effective_acked(p.res.doc, stat.ack),
                               st |-> [state |-> state, list |-> p.list,
                                       sess |-> IF outcome \in {"ok", "failed"} THEN p.sess
                                                ELSE IF outcome = "none" THEN lastS ELSE None]]]
           /\ IF ~p.org.on THEN UNCHANGED <<app, proof, outside>>
              ELSE \E saved \in BOOLEAN :
                     /\ IF saved THEN UNCHANGED outside ELSE success /\ Once("io")
                     /\ app' = IF success /\ saved
                               THEN [p.org.app EXCEPT !.last = Row(p), !.intent = None] ELSE app
                     /\ proof' = [rev |-> load_control.rev, hash |-> p.org.hash, bind |-> p.org.bind,
                                  state |-> ProofState(reason, p.sess, success /\ saved)]
    /\ UNCHANGED <<pf, eps, pend, live, creds, ctl, review, stat, qstat, aria, ops>>

\* _export_outbox: to the audit trail and the event stream, or not at all.
PassExport ==
    /\ trk.at = "export"
    /\ LET due == {e \in trk.p.res.doc.out : e.rev > trk.p.acked}
       IN  \/ /\ ops' = [ops EXCEPT !.exported = @ \cup {e.id : e \in due}]
              /\ trk' = [trk EXCEPT !.at = "status",
                           !.p.acked = IF due = {} THEN @ ELSE Max({e.rev : e \in due})]
              /\ UNCHANGED outside
           \/ due # {} /\ Once("io") /\ trk' = [trk EXCEPT !.at = "status"] /\ UNCHANGED ops
    /\ UNCHANGED <<pf, eps, pend, live, creds, ctl, app, proof, review, stat, qstat, aria>>

\* The two status files; a failed write is a failed pass, which says so if it can.
PassStatus ==
    /\ trk.at = "status"
    /\ \/ /\ stat' = [state |-> trk.p.st.state, list |-> trk.p.st.list, sess |-> trk.p.st.sess,
                       ack |-> [rev |-> trk.p.acked, epoch |-> trk.p.res.doc.epoch]]
          /\ qstat' = trk.p.q /\ UNCHANGED outside
       \/ /\ Once("io") /\ qstat' = [qstat EXCEPT !.state = "degraded"]
          /\ LET doc == load_policy(pf).doc
             IN  stat' \in {stat, [stat EXCEPT !.state = "degraded",
                     !.ack = [rev |-> effective_acked(doc, stat.ack), epoch |-> doc.epoch]]}
    /\ trk' = [trk EXCEPT !.at = "idle", !.p = NoRead]
    /\ UNCHANGED <<pf, eps, pend, live, creds, ctl, app, proof, review, aria, ops>>

FreshTracker == [at |-> "idle", known |-> {}, lastH |-> None, lastS |-> None, ok |-> FALSE,
                 qH |-> None, qS |-> None, qOk |-> FALSE, p |-> NoRead]

\* The tracker process is restarted wherever it is.
TrackerRestart ==
    /\ Once("crash") /\ trk' = FreshTracker
    /\ pend' = [p \in Principals |-> None] /\ live' = {}
    /\ UNCHANGED <<pf, eps, creds, ctl, app, proof, review, stat, qstat, aria, ops>>

----------------------------------------------------------------------------
(* The world around it *)

Revoke(d) ==
    /\ Once("revoke")
    /\ creds' = [creds EXCEPT !.revoked = IF d \in @ THEN @ \ {d} ELSE @ \cup {d}]
    /\ UNCHANGED <<pf, eps, pend, live, ctl, app, proof, review, stat, qstat, aria, trk, ops>>

SecretsReadable ==
    /\ (creds.readable => Once("secrets")) /\ (~creds.readable => UNCHANGED outside)
    /\ creds' = [creds EXCEPT !.readable = ~@]
    /\ UNCHANGED <<pf, eps, pend, live, ctl, app, proof, review, stat, qstat, aria, trk, ops>>

AriaStop ==
    /\ aria.up /\ aria.sess < MaxSession /\ Once("aria")
    /\ aria' = [aria EXCEPT !.up = FALSE]
    /\ UNCHANGED <<pf, eps, pend, live, creds, ctl, app, proof, review, stat, qstat, trk, ops>>

\* A new session has no block list and default options.
AriaStart ==
    /\ ~aria.up
    /\ aria' = [aria EXCEPT !.up = TRUE, !.sess = @ + 1, !.block = {}, !.opt = [g \in Gids |-> 0]]
    /\ UNCHANGED <<pf, eps, pend, live, creds, ctl, app, proof, review, stat, qstat, trk, ops, outside>>

\* A seed is added again (a credential rotation does this): a new gid, default options.
Reseed(g) ==
    /\ aria.up /\ g \notin aria.gids /\ Once("reseed")
    /\ aria' = [aria EXCEPT !.gids = {g}]
    /\ UNCHANGED <<pf, eps, pend, live, creds, ctl, app, proof, review, stat, qstat, trk, ops>>

PassStep == \/ PassBegin \/ PassQos \/ PassBlind \/ PassNoApply \/ PassJournal \/ PassCall
            \/ PassFinish \/ PassExport \/ PassStatus

BlockNext ==
    \/ PassStep \/ PassStoreUnreadable \/ TrackerRestart \/ AriaStop \/ AriaStart
    \/ SecretsReadable \/ SetQos \/ RestoreRevision \/ DamagePolicy \/ Approve
    \/ \E d \in Devices, s \in Verdicts : SetVerdict(d, s)
    \/ \E p \in Principals, ip \in Ips : Announce(p, ip) \/ Expire(p, ip)
    \/ \E ip \in Ips : RegistryRow(ip)
    \/ \E m \in {"preflight", "enforce"} : Preview(m)
    \/ \E d \in Devices : Revoke(d)
    \/ \E g \in Gids : Reseed(g)

BlockInit ==
    \E s \in BlockScenarios :
        /\ pf = [auth |-> s.doc, lkg |-> base_document, ring |-> {}, watermark |-> s.doc.roles]
        /\ eps = s.eps /\ outside = s.outside
        /\ pend = [p \in Principals |-> None] /\ live = {}
        /\ creds = [revoked |-> s.revoked, readable |-> TRUE]
        /\ ctl = Absent /\ app = Absent /\ proof = None /\ review = None
        /\ stat = [state |-> "pending", list |-> None, sess |-> None, ack |-> [rev |-> 0, epoch |-> 0]]
        /\ qstat = [state |-> "pending", sess |-> None, want |-> None]
        /\ aria = [up |-> TRUE, sess |-> 1, block |-> {}, gids |-> {CHOOSE g \in Gids : TRUE}, opt |-> [g \in Gids |-> 0]]
        /\ trk = FreshTracker
        /\ ops = [last |-> s.doc.epoch, exported |-> {}]

BlockSpec == BlockInit /\ [][BlockNext]_blockVars

\* The reconciler thread runs (its maintenance deadline is at most a minute
\* away; a pass always has a next step, so this is its weak fairness), aria2 is
\* restarted and the secrets file becomes readable again.
BlockFairness ==
    /\ []<><<PassStep>>_blockVars
    /\ WF_blockVars(AriaStart) /\ WF_blockVars(~creds.readable /\ SecretsReadable)

BlockFairSpec == BlockSpec /\ BlockFairness
----------------------------------------------------------------------------
(* Properties *)

PassSteps == {"idle", "qos", "apply", "call", "finish", "export", "status"}
States == {"pending", "enforced", "degraded", "rpc_unavailable", "fail_closed"}

\* Types; a document's outbox never passes its cap and holds only operations of
\* its own revisions.
BlockTypeOK ==
    /\ trk.at \in PassSteps /\ stat.state \in States /\ qstat.state \in States
    /\ eps \in [Principals -> [Ips -> {"none", "fresh", "old"}]]
    /\ pend \in [Principals -> Ips \cup {None}] /\ live \subseteq Ips /\ creds.revoked \subseteq Devices
    /\ aria.block \subseteq Ips \ {OriginIp} /\ aria.sess \in 1..MaxSession
    /\ IsDoc(pf.auth) => /\ Cardinality(pf.auth.out) <= OutCap
                         /\ \A e \in pf.auth.out : e.rev <= pf.auth.rev /\ e.id <= ops.last

\* A pass that sees no change makes no call (_poll_should_run and the forced-apply
\* test of run_once): what it remembers of the session it talks to is then what
\* aria2 really holds, whatever was lost, restarted or half applied before.
MemoryIsTrue ==
    trk.at \in {"idle", "qos", "apply"} =>
        /\ trk.ok /\ trk.lastS = Session => aria.block = trk.lastH
        /\ trk.at # "apply" /\ trk.qOk /\ trk.qS = Session =>
             \A g \in aria.gids \cap trk.qH.gids : aria.opt[g] = trk.qH.val

\* peer-enforcement.json and origin-qos.json never turn "enforced" for the running
\* session while aria2 holds something else, and the proof the operator reads never
\* turns "enforced" while aria2 misses a reviewed address.
EnforcedIsTrue ==
    /\ stat' # stat /\ stat'.state = "enforced" /\ stat'.sess = Session => stat'.list = aria.block
    /\ qstat' # qstat /\ qstat'.state = "enforced" /\ qstat'.sess = Session =>
          \A g \in aria.gids \cap qstat'.want.gids : aria.opt[g] = qstat'.want.val
    /\ (IF proof' \in {proof, None} THEN FALSE ELSE proof'.state = "enforced") =>
          AddressesOf(proof'.bind) \subseteq aria.block

\* Where a pass knows a principal to be: a row it read, an announce that waited to
\* be written, or the reviewed binding of the control in force.
KnownAt(p, ip) ==
    \/ trk.p.rows[p][ip] # "none" \/ trk.p.queue[p] = ip
    \/ \E b \in approved_bindings(load_control) : b.ip = ip /\ p \in b.devs

\* An approval takes effect only as it was reviewed (the confirmation token of
\* Store.change), and an address is newly blocked only for a denied device known at
\* it, for a binding that was approved, because it was on the last list
\* acknowledged, or, with no readable policy, because it is in the registry.
OnlyReviewedBlocked ==
    /\ ctl' # ctl /\ approved_bindings(ctl') # {} => ctl'.appr = [hash |-> review.hash, bind |-> review.bind]
    /\ \A ip \in aria'.block \ aria.block :
       \/ \E d \in Devices : KnownAt(d, ip) /\ (trk.p.closed \/ Denied(trk.p.res, trk.known, d))
       \/ trk.p.closed /\ ip \in trk.p.live
       \/ ip \in AddressesOf(trk.p.org.bind)
       \/ IF trk.p.org.app.last = None THEN FALSE ELSE ip \in trk.p.org.app.last.list

\* Within one aria2 session an address is released only for a reason: not while a
\* denied device is known at it and nobody else is, and not while it is approved,
\* unless a principal that may use the origin is known at it, or was since this
\* control was made (the shared addresses it retains), or the list acknowledged last
\* held it for a denied device and not yet for a binding.
ReleasesAreJustified ==
    aria'.sess = aria.sess =>
      \A ip \in aria.block \ aria'.block :
         LET known == {p \in Principals : KnownAt(p, ip)}
             denied == DeniedSet(trk.p.res, trk.known)
             last == trk.p.org.app.last
             approved == ip \in AddressesOf(approved_bindings(load_control))
         IN  \/ ip \in trk.p.org.app.shared
             \/ /\ known \cap denied # {} => ~ known \subseteq denied
                /\ approved => \/ ~ known \subseteq OriginDenied(trk.p.res, trk.known)
                               \/ IF last = None THEN FALSE
                                  ELSE ip \in last.list \ AddressesOf(last.bind)

\* No committed policy operation is lost from the audit trail: an event leaves the
\* authoritative outbox by a commit only after it was exported.
NoOperationLost ==
    IsDoc(pf.auth) /\ IsDoc(pf'.auth) /\ ops'.last > ops.last =>
       \A e \in pf.auth.out \ pf'.auth.out : e.id \in ops.exported

\* Once the outside events are over, a status that stays "enforced" is about the
\* policy in force: denied devices are blocked at every address only they use, and
\* addresses of devices the policy admits are released.
BlockingConverges ==
    LET res == load_policy(pf)
        users(ip) == {p \in Principals : eps[p][ip] = "fresh"}
    IN  <>[](stat.state = "enforced" /\ aria.up /\ stat.sess = aria.sess =>
                \A ip \in Ips \ {OriginIp} :
                   /\ users(ip) # {} /\ users(ip) \subseteq DeniedSet(res, creds.revoked) => ip \in aria.block
                   /\ (\E p \in users(ip) \ {Seeder} : res.doc.say[p] = "open" /\ ~Denied(res, creds.revoked, p))
                        => ip \notin aria.block)

\* Expected to fail.  Runtime.prepare's comment: "A healthy newer policy still
\* controls ordinary quarantine and revocation": under a healthy policy, a denied
\* device is in the end blocked at an address only it uses.
QuarantineStillControls ==
    LET res == load_policy(pf)
        users(ip) == {p \in Principals : eps[p][ip] = "fresh"}
    IN  <>[](~res.degraded /\ aria.up /\ eps[Seeder][OriginIp] = "fresh" /\ ctl # Absent /\ app # Absent =>
                \A ip \in Ips \ {OriginIp} :
                   users(ip) # {} /\ users(ip) \subseteq DeniedSet(res, creds.revoked) => ip \in aria.block)

\* What holds in every state of the tracker and aria2.
BlockingSafe ==
  /\ BlockTypeOK
  /\ MemoryIsTrue
=============================================================================
