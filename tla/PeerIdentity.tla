---------------------------- MODULE PeerIdentity ----------------------------
(***************************************************************************)
(* The identity a device shows to its peers: the server's ledger of        *)
(* withdrawn certificate identities (server/peer_tls_revocations.py), the  *)
(* issuer that signs for the identity the ledger allows                    *)
(* (peer_tls_issuer.py), the device's enrollment with its key files        *)
(* (device/agent/peer_tls.py), the list of withdrawn identities it keeps   *)
(* under a lease (device/agent/peer_revocations.py), and the origin's      *)
(* supervisor, which follows the peer mode (peer_tls_seed.py).             *)
(*                                                                         *)
(* One device.  Identities and keys are numbers in the order in which the  *)
(* random generators hand them out.  Ledger and issuer work under one file *)
(* lock, so each of their operations is a step; on the device the refresh  *)
(* and the enrollment are steps per durable write, and the agent and the   *)
(* lease watcher take turns under revocations.lock.                        *)
(***************************************************************************)
EXTENDS Integers, FiniteSets

CONSTANTS
    Operators,      \* consoles that review and submit certificate operations
    RequestIds,     \* request ids they pick
    PiBudgets,      \* outside events a behaviour starts with
    NoRecord        \* a missing file, form or record

VARIABLES
    ledger,     \* revocations.json: revision, identity, withdrawals, recoveries
    marker,     \* revocations.initialized.json exists
    archive,    \* the ledger an operator's backup holds
    forms,      \* the operation each console has under review or in flight
    onboarding, \* the onboarding job of the device: ledger revision at its start
    clocks,     \* the server's clock and the device's
    files,      \* key slots, manifest, checkpoint and list of the device
    agentRun,   \* where the agent's enrollment is, with its locals
    lease,      \* the refresh that holds revocations.lock
    fragment,   \* identity and key the transport was last started with
    origin,     \* saved peer mode and the mode the origin's transport runs in
    signed,     \* every certificate ever issued
    handed,     \* identities and keys handed out so far
    piLeft      \* what is left of the outside events

identityVars == <<ledger, marker, archive, forms, onboarding, clocks, files, agentRun,
                  lease, fragment, origin, signed, handed, piLeft>>
serverVars == <<ledger, marker, archive, forms, onboarding>>
deviceVars == <<files, agentRun, lease, fragment>>

PiEvents == {"review", "lost", "onboard", "restore", "lose", "tick", "back", "net", "crash",
             "age", "watch", "mode", "exit", "deployed"}
PiSpend(e) == piLeft[e] > 0 /\ piLeft' = [piLeft EXCEPT ![e] = @ - 1]

\* Bounds of the code in the model's units of time.
SnapshotLifetime == 2
ClockSkew == 0
PollSeconds == 1
MaxRevision == 4

Slots == {"node.key", "recovery.key"}
OtherSlot(s) == IF s = "node.key" THEN "recovery.key" ELSE "node.key"

Withdrawn(l) == {w.id : w \in l.revoked}
Requests(l) == {w.req : w \in l.revoked}
Recovering(l) == {r \in l.recoveries : r.old = l.id}

\* _load: the ledger is written before its marker; once the marker exists a
\* missing ledger is an error and is never written anew.
EmptyLedger == [rev |-> 0, id |-> 1, revoked |-> {}, recoveries |-> {}]
Load == ledger # NoRecord /\ marker
Lost == ledger = NoRecord /\ marker

IdleRun == [at |-> "idle", withdrawn |-> FALSE, key |-> 0, cert |-> NoRecord]
NoLease == [by |-> "none", at |-> "idle", cached |-> FALSE, answer |-> NoRecord]

----------------------------------------------------------------------------
\* The origin runs in the saved mode; the device is deployed or not.
IdentityInit ==
    /\ piLeft \in PiBudgets
    /\ ledger = NoRecord /\ marker = FALSE /\ archive = NoRecord
    /\ forms = [o \in Operators |-> NoRecord]
    /\ onboarding = NoRecord
    /\ clocks = [srv |-> 1, dev |-> 1]
    /\ files = [keys |-> [s \in Slots |-> 0], manifest |-> NoRecord,
                checkpoint |-> NoRecord, list |-> NoRecord]
    /\ agentRun = [IdleRun EXCEPT !.at = IF piLeft["deployed"] > 0 THEN "idle" ELSE "off"]
    /\ lease = NoLease
    /\ fragment = NoRecord
    /\ signed = {}
    /\ handed = [ids |-> 1, keys |-> 0]
    /\ origin = LET m == IF piLeft["mode"] > 0 THEN "disabled" ELSE "required"
                IN [mode |-> m, child |-> m]

----------------------------------------------------------------------------
(* The server's ledger.                                                    *)

\* Mutant: a missing ledger is always made anew.
MayCreate_Always == ledger = NoRecord

MayCreate == ledger = NoRecord /\ ~marker

CreateLedger ==
    /\ MayCreate
    /\ ledger' = EmptyLedger
    /\ UNCHANGED <<marker, archive, forms, onboarding, clocks, deviceVars, origin, signed,
                   handed, piLeft>>

WriteMarker ==
    /\ ledger # NoRecord /\ ~marker
    /\ marker' = TRUE
    /\ UNCHANGED <<ledger, archive, forms, onboarding, clocks, deviceVars, origin, signed,
                   handed, piLeft>>

\* A console shows the status and fills a form with the revision and the
\* identity it shows.
Review(o, op, q) ==
    /\ Load /\ forms[o] = NoRecord /\ PiSpend("review")
    /\ forms' = [forms EXCEPT ![o] =
                    [op |-> op, rev |-> ledger.rev, id |-> ledger.id, req |-> q, n |-> 0]]
    /\ UNCHANGED <<ledger, marker, archive, onboarding, clocks, deviceVars, origin, signed,
                   handed>>

\* revoke: refused, an answer to a repeated request, or applied.
RevokeRefused(l, f) ==
    \/ \E r \in l.recoveries : r.req = f.req
    \/ f.id # l.id
    \/ \E w \in l.revoked : w.req = f.req /\ (w.id # l.id \/ w.exp # f.rev)
    \/ \E w \in l.revoked : w.id = l.id /\ w.req # f.req
    \/ l.id \notin Withdrawn(l) /\ (l.rev # f.rev \/ l.rev = MaxRevision)

\* Mutant: whatever identity is current is withdrawn.
Revoked_Current(l, f) ==
    IF l.id \in Withdrawn(l) THEN l
    ELSE [l EXCEPT !.revoked = @ \cup {[id |-> l.id, req |-> f.req, exp |-> f.rev]},
                   !.rev = @ + 1]

Revoked(l, f) ==
    IF RevokeRefused(l, f) \/ l.id \in Withdrawn(l) THEN l
    ELSE [l EXCEPT !.revoked = @ \cup {[id |-> l.id, req |-> f.req, exp |-> f.rev]},
                   !.rev = @ + 1]

\* check_jobs: no approval while a job of the device is queued or running.
\* Mutant: jobs are not looked at.
NoActiveJob_Unchecked == TRUE

NoActiveJob == onboarding = NoRecord

\* prepare_reenrollment: a withdrawn identity gets an approved successor.
Approved(l, f) ==
    IF \/ \E r \in l.recoveries : r.req = f.req
       \/ f.req \in Requests(l)
       \/ f.id # l.id \/ l.rev # f.rev
       \/ l.id \notin Withdrawn(l) \/ Recovering(l) # {} \/ l.rev = MaxRevision
       \/ ~NoActiveJob
    THEN l
    ELSE [l EXCEPT !.recoveries = @ \cup {[old |-> l.id, req |-> f.req, exp |-> f.rev,
                                           next |-> handed.ids + 1, at |-> clocks.srv,
                                           active |-> FALSE]},
                   !.rev = @ + 1]

\* The POST of a form: revoke or re-enroll under the ledger's lock.  The answer
\* may be lost, and the console repeats the same request.
Submit(o) ==
    /\ Load /\ forms[o] # NoRecord
    /\ ledger' = IF forms[o].op = "revoke" THEN Revoked(ledger, forms[o])
                 ELSE Approved(ledger, forms[o])
    /\ handed' = [handed EXCEPT !.ids =
                    @ + Cardinality(ledger'.recoveries) - Cardinality(ledger.recoveries)]
    /\ \/ forms' = [forms EXCEPT ![o] = NoRecord] /\ UNCHANGED piLeft
       \/ /\ PiSpend("lost")
          /\ forms' = [forms EXCEPT ![o].n = @ + (IF ledger' # ledger THEN 1 ELSE 0)]
    /\ UNCHANGED <<marker, archive, onboarding, clocks, deviceVars, origin, signed>>

\* An onboarding job of the device begins.
StartOnboarding ==
    /\ Load /\ onboarding = NoRecord /\ PiSpend("onboard")
    /\ onboarding' = ledger.rev
    /\ UNCHANGED <<ledger, marker, archive, forms, clocks, deviceVars, origin, signed,
                   handed>>

\* _activate_enrollment: the approved successor becomes the identity.
Activated(l) ==
    [l EXCEPT !.id = (CHOOSE r \in Recovering(l) : TRUE).next,
              !.recoveries = {[r EXCEPT !.active = @ \/ r.old = l.id] : r \in l.recoveries},
              !.rev = @ + 1]

\* The job mints a fresh enrollment token and, after it is durable, activates
\* an approved identity; a clock behind the approval fails the enrollment.
MintEnrollment ==
    /\ Load /\ onboarding # NoRecord
    /\ onboarding' = NoRecord
    /\ IF \E r \in Recovering(ledger) : ~r.active
       THEN IF \/ \E r \in Recovering(ledger) : clocks.srv < r.at
               \/ ledger.rev = MaxRevision
            THEN UNCHANGED ledger
            ELSE ledger' = Activated(ledger)
       ELSE UNCHANGED ledger
    /\ UNCHANGED <<marker, archive, forms, clocks, deviceVars, origin, signed, handed, piLeft>>

\* An operator's backup of the ledger, put back later.
BackUpLedger ==
    /\ Load /\ archive = NoRecord /\ piLeft["restore"] > 0
    /\ archive' = ledger
    /\ UNCHANGED <<ledger, marker, forms, onboarding, clocks, deviceVars, origin, signed,
                   handed, piLeft>>

RestoreLedger ==
    /\ archive # NoRecord /\ PiSpend("restore")
    /\ ledger' = archive
    /\ UNCHANGED <<marker, archive, forms, onboarding, clocks, deviceVars, origin, signed,
                   handed>>

\* The ledger's file is lost from the volume.
LoseLedger ==
    /\ Load /\ PiSpend("lose")
    /\ ledger' = NoRecord
    /\ UNCHANGED <<marker, archive, forms, onboarding, clocks, deviceVars, origin, signed,
                   handed>>

PiTick ==
    /\ PiSpend("tick")
    /\ clocks' = [srv |-> clocks.srv + 1, dev |-> clocks.dev + 1]
    /\ UNCHANGED <<serverVars, deviceVars, origin, signed, handed>>

ClockBack ==
    /\ PiSpend("back")
    /\ \E c \in {"srv", "dev"} : clocks' = [clocks EXCEPT ![c] = @ - 1]
    /\ UNCHANGED <<serverVars, deviceVars, origin, signed, handed>>

----------------------------------------------------------------------------
(* The device's lease: a refresh of the list of withdrawn identities.      *)

\* parse: the snapshot's lease covers the device's clock.
Parsed(s) == ~(s.iss > clocks.dev + ClockSkew) /\ clocks.dev < s.exp

\* _advance: a snapshot may not undo the checkpoint.
\* Mutant: any current snapshot is accepted.
Advances_Any(s, floor) == TRUE

Advances(s, floor) ==
    IF floor = NoRecord THEN TRUE
    ELSE ~(s.rev < floor.rev \/ s.iss < floor.iss \/ (s.rev = floor.rev /\ s.ids # floor.ids))

ClockBehind == files.checkpoint # NoRecord
               /\ clocks.dev + ClockSkew < files.checkpoint.recv

AsSnapshot(floor) == [rev |-> floor.rev, iss |-> floor.iss, exp |-> floor.exp,
                      ids |-> floor.ids]

\* The local list covers a failure of the network.
Cached ==
    /\ files.list # NoRecord /\ files.checkpoint # NoRecord
    /\ Parsed(files.list) /\ AsSnapshot(files.checkpoint) = files.list

\* What the agent does once its refresh returned a list, or raised.
AfterRefresh(by, ok) ==
    CASE by # "agent" -> UNCHANGED <<agentRun, fragment>>
      [] by = "agent" /\ ok /\ agentRun.at = "force" ->
            agentRun' = [agentRun EXCEPT !.at = "check"] /\ UNCHANGED fragment
      [] by = "agent" /\ ok /\ agentRun.at = "final" ->
            /\ agentRun' = IdleRun
            /\ fragment' = files.manifest
      [] OTHER -> agentRun' = IdleRun /\ fragment' = NoRecord

\* refresh takes the lock: it refuses a lost checkpoint or a clock set back, is
\* content with a young list, or asks the server.
StartRefresh(by, forced) ==
    /\ lease = NoLease
    /\ IF ClockBehind \/ (files.checkpoint = NoRecord /\ files.list # NoRecord)
       THEN AfterRefresh(by, FALSE) /\ UNCHANGED lease
       ELSE IF /\ ~forced /\ Cached
               /\ clocks.dev - files.checkpoint.recv \in 0..(PollSeconds - 1)
       THEN AfterRefresh(by, TRUE) /\ UNCHANGED lease
       ELSE /\ lease' = [by |-> by, at |-> "fetch", cached |-> Cached, answer |-> NoRecord]
            /\ UNCHANGED <<agentRun, fragment>>
    /\ UNCHANGED <<serverVars, clocks, files, origin, signed, handed>>

AgentRefresh ==
    /\ agentRun.at \in {"force", "final"}
    /\ StartRefresh("agent", agentRun.at = "force")
    /\ UNCHANGED piLeft

WatchRefresh ==
    /\ files.manifest # NoRecord /\ PiSpend("watch")
    /\ StartRefresh("watch", FALSE)

\* The answer: the server's snapshot for this nonce, or a failure.
Snapshot == [rev |-> ledger.rev, iss |-> clocks.srv, exp |-> clocks.srv + SnapshotLifetime,
             ids |-> Withdrawn(ledger)]

FetchList ==
    /\ lease.at = "fetch"
    /\ \/ Load /\ lease' = [lease EXCEPT !.at = "apply", !.answer = Snapshot] /\ UNCHANGED piLeft
       \/ Lost /\ lease' = [lease EXCEPT !.at = "apply"] /\ UNCHANGED piLeft
       \/ PiSpend("net") /\ lease' = [lease EXCEPT !.at = "apply"]
    /\ UNCHANGED <<serverVars, clocks, files, agentRun, fragment, origin, signed, handed>>

Acceptable == /\ lease.answer # NoRecord /\ ~ClockBehind
              /\ Parsed(lease.answer) /\ Advances(lease.answer, files.checkpoint)

\* The checkpoint is durable before the list is published.
\* Mutant: the list is published first.
SaveCheckpoint_ListFirst ==
    /\ lease.at = "apply" /\ Acceptable
    /\ files' = [files EXCEPT !.list = lease.answer]
    /\ lease' = [lease EXCEPT !.at = "publish"]
    /\ UNCHANGED <<serverVars, clocks, agentRun, fragment, origin, signed, handed, piLeft>>

SaveCheckpoint ==
    /\ lease.at = "apply" /\ Acceptable
    /\ files' = [files EXCEPT !.checkpoint =
            [rev |-> lease.answer.rev, iss |-> lease.answer.iss, exp |-> lease.answer.exp,
             ids |-> lease.answer.ids, recv |-> clocks.dev]]
    /\ lease' = [lease EXCEPT !.at = "publish"]
    /\ UNCHANGED <<serverVars, clocks, agentRun, fragment, origin, signed, handed, piLeft>>

KeepList ==
    /\ lease.at = "apply" /\ ~Acceptable
    /\ lease' = NoLease
    /\ AfterRefresh(lease.by, /\ lease.cached /\ clocks.dev < files.list.exp
                              /\ ~(clocks.dev + ClockSkew < files.checkpoint.recv))
    /\ UNCHANGED <<serverVars, clocks, files, origin, signed, handed, piLeft>>

PublishList ==
    /\ lease.at = "publish"
    /\ files' = [files EXCEPT !.list = lease.answer]
    /\ lease' = NoLease
    /\ AfterRefresh(lease.by, TRUE)
    /\ UNCHANGED <<serverVars, clocks, origin, signed, handed, piLeft>>

----------------------------------------------------------------------------
(* The device's enrollment (ensure).                                       *)

KeyNow == files.keys[files.manifest.slot]
CertUsable == files.manifest # NoRecord /\ files.manifest.life # "expired"
              /\ KeyNow = files.manifest.key
CertFresh == CertUsable /\ files.manifest.life = "good"

\* A device without key and manifest makes its key; one with a manifest first
\* asks whether its identity was withdrawn.
StartAgent ==
    /\ agentRun = IdleRun /\ origin.mode = "required"
    /\ IF files.manifest = NoRecord
       THEN /\ agentRun' = [IdleRun EXCEPT !.at = "enroll"]
            /\ IF files.keys["node.key"] # 0 THEN UNCHANGED <<files, handed>>
               ELSE /\ handed' = [handed EXCEPT !.keys = @ + 1]
                    /\ files' = [files EXCEPT !.keys["node.key"] = handed.keys + 1]
       ELSE /\ agentRun' = [IdleRun EXCEPT !.at = "force"]
            /\ UNCHANGED <<files, handed>>
    /\ UNCHANGED <<serverVars, clocks, lease, fragment, origin, signed, piLeft>>

\* identity_revoked reads the current list; enrollment follows when the identity
\* is withdrawn or the certificate is due.
\* Mutant: only the certificate's age counts.
CheckWithdrawn_DueOnly ==
    /\ agentRun.at = "check"
    /\ agentRun' = [agentRun EXCEPT !.at = IF CertFresh THEN "final" ELSE "enroll"]
    /\ UNCHANGED <<serverVars, clocks, files, lease, fragment, origin, signed, handed, piLeft>>

CheckWithdrawn ==
    /\ agentRun.at = "check"
    /\ IF ~Parsed(files.list)
       THEN agentRun' = IdleRun /\ fragment' = NoRecord
       ELSE /\ agentRun' = [agentRun EXCEPT
                    !.withdrawn = files.manifest.id \in files.list.ids,
                    !.at = IF files.manifest.id \in files.list.ids \/ ~CertFresh
                           THEN "enroll" ELSE "final"]
            /\ UNCHANGED fragment
    /\ UNCHANGED <<serverVars, clocks, files, lease, origin, signed, handed, piLeft>>

\* The key a request is made for: a fresh one when the identity was withdrawn.
\* Mutant: the withdrawn identity's key is enrolled again.
EnrollmentKey_Same ==
    IF files.manifest = NoRecord THEN files.keys["node.key"] ELSE KeyNow

EnrollmentKey ==
    IF files.manifest = NoRecord THEN files.keys["node.key"]
    ELSE IF agentRun.withdrawn THEN handed.keys + 1 ELSE KeyNow

\* A renewal that fails leaves a still valid identity in place.
EnrollFails ==
    IF agentRun.withdrawn \/ ~CertUsable
    THEN agentRun' = IdleRun /\ fragment' = NoRecord
    ELSE agentRun' = [agentRun EXCEPT !.at = "final"] /\ UNCHANGED fragment

\* issue: under the ledger's lock, for the identity the ledger allows.
\* Mutant: the identity is signed whatever the ledger says.
Allowed_Any == Load

Allowed == Load /\ ledger.id \notin Withdrawn(ledger)

Enroll ==
    /\ agentRun.at = "enroll" /\ Allowed
    /\ LET cert == [id |-> ledger.id, key |-> EnrollmentKey]
       IN /\ signed' = signed \cup {cert}
          /\ IF agentRun.withdrawn /\ cert.id \in files.list.ids \cup {files.manifest.id}
             THEN EnrollFails /\ UNCHANGED handed
             ELSE /\ agentRun' = [agentRun EXCEPT !.cert = cert, !.key = cert.key,
                            !.at = IF agentRun.withdrawn THEN "key" ELSE "manifest"]
                  /\ handed' = [handed EXCEPT !.keys = IF cert.key > @ THEN cert.key ELSE @]
                  /\ UNCHANGED fragment
    /\ UNCHANGED <<serverVars, clocks, files, lease, origin, piLeft>>

EnrollRefused ==
    /\ agentRun.at = "enroll"
    /\ \/ (Load \/ Lost) /\ ~Allowed /\ UNCHANGED piLeft
       \/ PiSpend("net")
    /\ EnrollFails
    /\ UNCHANGED <<serverVars, clocks, files, lease, origin, signed, handed>>

\* The fresh key goes to the slot the manifest does not name.
\* Mutant: it overwrites the slot in use.
FreshSlot_InUse(s) == s

FreshSlot(s) == OtherSlot(s)

InstallKey ==
    /\ agentRun.at = "key"
    /\ files' = [files EXCEPT !.keys[FreshSlot(files.manifest.slot)] = agentRun.key]
    /\ agentRun' = [agentRun EXCEPT !.at = "manifest"]
    /\ UNCHANGED <<serverVars, clocks, lease, fragment, origin, signed, handed, piLeft>>

SlotNow == IF files.manifest = NoRecord THEN "node.key" ELSE files.manifest.slot

InstallManifest ==
    /\ agentRun.at = "manifest"
    /\ files' = [files EXCEPT !.manifest =
            [id |-> agentRun.cert.id, key |-> agentRun.cert.key, life |-> "good",
             slot |-> IF agentRun.withdrawn THEN FreshSlot(SlotNow) ELSE SlotNow]]
    /\ agentRun' = [agentRun EXCEPT !.at = IF agentRun.withdrawn THEN "unlink" ELSE "final"]
    /\ UNCHANGED <<serverVars, clocks, lease, fragment, origin, signed, handed, piLeft>>

UnlinkKey ==
    /\ agentRun.at = "unlink"
    /\ files' = [files EXCEPT !.keys[OtherSlot(files.manifest.slot)] = 0]
    /\ agentRun' = [agentRun EXCEPT !.at = "final"]
    /\ UNCHANGED <<serverVars, clocks, lease, fragment, origin, signed, handed, piLeft>>

CertificateAges ==
    /\ files.manifest # NoRecord /\ files.manifest.life # "expired" /\ PiSpend("age")
    /\ files' = [files EXCEPT !.manifest.life = IF @ = "good" THEN "due" ELSE "expired"]
    /\ UNCHANGED <<serverVars, clocks, agentRun, lease, fragment, origin, signed, handed>>

DeviceCrash ==
    /\ PiSpend("crash")
    /\ agentRun.at # "off"
    /\ agentRun' = IdleRun /\ lease' = NoLease /\ fragment' = NoRecord
    /\ UNCHANGED <<serverVars, clocks, files, origin, signed, handed>>

----------------------------------------------------------------------------
(* The peer mode and the origin's supervisor.                              *)

\* can_change: no active device and no job; a required mode has an issuer.
SetMode(m) ==
    /\ m # origin.mode /\ PiSpend("mode")
    /\ onboarding = NoRecord /\ files.manifest = NoRecord /\ agentRun.at = "off"
    /\ m = "required" => Load
    /\ origin' = [origin EXCEPT !.mode = m]
    /\ UNCHANGED <<serverVars, clocks, deviceVars, signed, handed>>

ChildExits ==
    /\ origin.child \notin {NoRecord, "exited"} /\ PiSpend("exit")
    /\ origin' = [origin EXCEPT !.child = "exited"]
    /\ UNCHANGED <<serverVars, clocks, deviceVars, signed, handed>>

\* One turn of the supervisor: the old transport stops before a new identity is
\* asked for, and a failure of any kind stops it.
\* Mutant: the old transport is stopped only when its successor is ready.
Turn_Late(ok) ==
    IF origin.child = "exited" THEN [origin EXCEPT !.child = NoRecord]
    ELSE IF origin.mode = "required" /\ ~ok THEN origin
    ELSE [origin EXCEPT !.child = origin.mode]

Turn(ok) ==
    IF \/ origin.child = "exited"
       \/ origin.mode = "required" /\ ~ok
    THEN [origin EXCEPT !.child = NoRecord]
    ELSE [origin EXCEPT !.child = origin.mode]

OriginTurn ==
    /\ \/ Load /\ origin' = Turn(TRUE) /\ UNCHANGED piLeft
       \/ Lost /\ origin' = Turn(FALSE) /\ UNCHANGED piLeft
       \/ PiSpend("net") /\ origin' = Turn(FALSE)
    /\ UNCHANGED <<serverVars, clocks, deviceVars, signed, handed>>

----------------------------------------------------------------------------
IdentityNext ==
    \/ CreateLedger \/ WriteMarker \/ StartOnboarding \/ MintEnrollment
    \/ \E o \in Operators : Submit(o)
    \/ \E o \in Operators, op \in {"revoke", "reenroll"}, q \in RequestIds : Review(o, op, q)
    \/ BackUpLedger \/ RestoreLedger \/ LoseLedger \/ PiTick \/ ClockBack
    \/ AgentRefresh \/ WatchRefresh \/ FetchList \/ SaveCheckpoint \/ KeepList \/ PublishList
    \/ StartAgent \/ CheckWithdrawn \/ Enroll \/ EnrollRefused
    \/ InstallKey \/ InstallManifest \/ UnlinkKey \/ CertificateAges \/ DeviceCrash
    \/ \E m \in {"disabled", "required"} : SetMode(m)
    \/ ChildExits \/ OriginTurn

AgentSteps ==
    \/ StartAgent \/ CheckWithdrawn \/ Enroll \/ EnrollRefused \/ AgentRefresh
    \/ InstallKey \/ InstallManifest \/ UnlinkKey
LeaseSteps == FetchList \/ SaveCheckpoint \/ KeepList \/ PublishList

----------------------------------------------------------------------------
(* Properties.                                                             *)

\* The ledger never holds what its own validation would refuse: every request
\* id names one operation, every recovery a withdrawn identity, and a pending
\* recovery keeps the identity it replaces (_validate).
LedgerValid ==
    ledger # NoRecord =>
        /\ \A w, v \in ledger.revoked : w.req = v.req \/ w.id = v.id => w = v
        /\ \A r, q \in ledger.recoveries :
               r.req = q.req \/ r.old = q.old \/ r.next = q.next => r = q
        /\ \A r \in ledger.recoveries :
               /\ r.old \in Withdrawn(ledger) /\ r.req \notin Requests(ledger)
               /\ ~r.active => ledger.id = r.old
        /\ ledger.rev >= Cardinality(ledger.revoked)

\* A console that repeats a request whose answer was lost changes the ledger at
\* most once, whatever others did in between (revoke, prepare_reenrollment).
RetryAppliesOnce == \A o \in Operators : forms[o] # NoRecord => forms[o].n <= 1

\* Whatever step a crash cuts, the manifest names a key that is there and a
\* certificate that was issued for this key and this identity (ensure).
ManifestHolds ==
    files.manifest # NoRecord =>
        /\ files.keys[files.manifest.slot] = files.manifest.key
        /\ [id |-> files.manifest.id, key |-> files.manifest.key] \in signed

\* The published list is never ahead of the checkpoint that guards it
\* (_refresh_locked).
ListUnderCheckpoint ==
    files.list # NoRecord =>
        /\ files.checkpoint # NoRecord
        /\ files.list.rev <= files.checkpoint.rev
        /\ files.list.rev = files.checkpoint.rev => files.list.ids = files.checkpoint.ids

IdentitySafe == LedgerValid /\ RetryAppliesOnce /\ ManifestHolds /\ ListUnderCheckpoint

\* A device's checkpoint only rises, also when the server's ledger was restored
\* from an older copy or a clock was set back (_advance).
FloorOnlyRises ==
    files.checkpoint # NoRecord =>
        LET f == files.checkpoint
            g == files'.checkpoint
        IN /\ g # NoRecord /\ g.rev >= f.rev /\ g.iss >= f.iss
           /\ g.rev = f.rev => g.ids = f.ids

\* Unless an operator puts an older ledger back, neither the ledger nor a
\* device's list forgets a withdrawn identity, and an established ledger whose
\* file is lost is not replaced by an empty one (_load).
WithdrawalStands ==
    archive = NoRecord =>
        /\ Lost => ledger' = NoRecord
        /\ ledger # NoRecord /\ ledger' # NoRecord =>
              Withdrawn(ledger) \subseteq Withdrawn(ledger')
        /\ files.list # NoRecord => files.list.ids \subseteq files'.list.ids

\* A device that knows its identity was withdrawn takes no new identity for the
\* withdrawn key, and no certificate is issued for a withdrawn identity.
FreshAfterWithdrawal ==
    /\ \A c \in signed' \ signed : c.id \notin Withdrawn(ledger)
    /\ files.manifest # NoRecord /\ files.list # NoRecord =>
          (files'.manifest.id # files.manifest.id /\ files.manifest.id \in files.list.ids
              => files'.manifest.key # files.manifest.key)

\* An approved identity becomes active only in an onboarding job that began
\* after the approval (check_jobs, fresh_enrollment).
ActivationFollowsApproval ==
    /\ ledger # NoRecord /\ ledger' # NoRecord
    /\ ledger'.id # ledger.id /\ ledger' # archive
    => \A r \in Recovering(ledger) : onboarding > r.exp

\* After a turn of the supervisor the origin runs in the saved mode or not at
\* all: a failed enrollment never leaves the plaintext transport running.
OriginFollowsMode == OriginTurn => origin'.child \in {NoRecord, origin.mode}

IdentitySteps ==
    /\ FloorOnlyRises /\ WithdrawalStands /\ FreshAfterWithdrawal
    /\ ActivationFollowsApproval /\ OriginFollowsMode

\* While clocks and ledger were not turned back, a device whose identity is not
\* withdrawn runs with it again and again: also after withdrawal, approval and
\* fresh onboarding, and after crashes between the durable writes.  Holds again
\* and again.
Active == /\ origin.mode = "required" /\ Load /\ ledger.id \notin Withdrawn(ledger)
          /\ agentRun.at # "off" /\ clocks.srv = clocks.dev /\ archive = NoRecord
IdentityReturns ==
    Active => Load /\ fragment # NoRecord /\ fragment.id = ledger.id
=============================================================================
