---------------------------- MODULE ConsoleCalls ----------------------------
(***************************************************************************)
(* A call that changes something, from the browser to its effect and back: *)
(* the Console's front (gui_server.py) asks the management API to          *)
(* authorize it, then sends the body once; the API (management_api.py)     *)
(* admits it, looks an Idempotency-Key up in a ledger in memory, runs the  *)
(* handler step by step, writes the audit row, completes the ledger entry  *)
(* and answers.  Answers get lost, handlers fail half way, the process     *)
(* restarts, the management credential is rotated, and clients send a call *)
(* again with its key.  A changed certificate is fetched by the front.     *)
(*                                                                         *)
(* A handler is a record: the refusals it makes before it changes          *)
(* anything, its changes in order, each with the ways it can fail, and     *)
(* whether it writes an audit row.                                         *)
(***************************************************************************)
EXTENDS Integers, Sequences, FiniteSets

CONSTANTS
    Attempts,       \* the calls, all of one client and one operation
    CallPlans       \* operation, key and body of each call, outside events

VARIABLES
    calls,      \* the calls, at the front and in the API's threads
    kept,       \* idempotency_cache, of the key
    lost,       \* history: the key's entry was evicted, expired or died
    applied,    \* how often a handler made its last change and said so
    pairs,      \* the credential pairs the API and the front read
    bucket,     \* tokens left in the rate limiter
    site,       \* the certificate stored, the one the front serves, its lock
    cleft       \* the plan, and the outside events left

callVars == <<calls, kept, lost, applied, pairs, bucket, site, cleft>>

----------------------------------------------------------------------------
(* The handlers.                                                           *)

\* An answer: its class, whether the handler writes a row before it, and whether
\* the change it follows may have been made.
Refused == [code |-> "no", row |-> FALSE, late |-> FALSE]
RefusedOnRecord == [Refused EXCEPT !.row = TRUE]
Unconfirmed == [code |-> "error", row |-> FALSE, late |-> TRUE]
UnconfirmedOnRecord == [Unconfirmed EXCEPT !.row = TRUE]
PartlyRefused == [code |-> "no", row |-> TRUE, late |-> TRUE]
Degraded == [code |-> "part", row |-> TRUE, late |-> FALSE]

Handler(first, steps, row) == [first |-> first, steps |-> steps, row |-> row,
                               early |-> FALSE]
Changes(first, fails) == Handler(first, <<fails>>, TRUE)

\* Certificate revocation and fresh enrollment.
DeviceCertificate == Changes({Refused}, {Refused, UnconfirmedOnRecord})
\* The row is written before the publish job is started.
ImageImport == [Changes({Refused, RefusedOnRecord}, {}) EXCEPT !.early = TRUE]
\* Deployment rotation, trust rotation and backups: the worker on the host.
LifecycleRequest == Changes({Refused}, {Refused, Unconfirmed})
\* Service credentials and the browser certificate's rotation.
RotationRequest == Changes({Refused}, {Refused, Unconfirmed})
\* Key maintenance, signer rotation, certificate renewal.
KeyRequest == Changes({Refused}, {Refused, RefusedOnRecord, Unconfirmed})
\* The export job writes its own row when it ends.
ExportRun == Handler({Refused}, <<{}>>, FALSE)
ExportSettings == Changes({Refused}, {Refused, UnconfirmedOnRecord})
CaTrust == Changes({Refused}, {UnconfirmedOnRecord})
\* The refresh job too.
CaRefresh == Handler({Refused}, <<{}>>, FALSE)
TelemetryDestination == Changes({Refused}, {UnconfirmedOnRecord})
PeerTlsMode == Changes({Refused}, {Refused, Unconfirmed})
\* The pair is persisted, then loaded.
GuiCert == Handler({Refused, RefusedOnRecord},
                   <<{UnconfirmedOnRecord}, {UnconfirmedOnRecord}>>, TRUE)
TrustAnchor == Changes({Refused}, {RefusedOnRecord, UnconfirmedOnRecord})
\* The refresh writes its own rows; a run that did not end well is a 502.
Verification == Changes({Refused}, {Refused, UnconfirmedOnRecord})
\* The catalog writes the row.
ReleaseImage == Changes({Refused}, {Refused})
DeviceUpsert == Changes({Refused}, {Refused, PartlyRefused})
BulkCredential == Changes({Refused}, {Refused, Degraded})
\* AssignmentService writes the rows, of failures too.
AssignDevice == Changes({Refused}, {Refused, RefusedOnRecord, UnconfirmedOnRecord})
DeviceField == Changes({Refused}, {Refused})
DeviceRequest == Changes({Refused}, {Refused, RefusedOnRecord})
Adopt == Changes({Refused}, {})
\* prevalidate_device and submit_device, then the queue.
Submit == Changes({Refused, RefusedOnRecord}, {RefusedOnRecord})
CredentialProfile == Changes({Refused}, {Refused})
\* The row of the policy document names the actor; the audit trail has none.
QuarantineDevice == Handler({Refused}, <<{Refused, Unconfirmed}>>, FALSE)
\* The stream is saved, then the publish job is started.
Upload == Handler({Refused, RefusedOnRecord}, <<{Refused, RefusedOnRecord}, {}>>, TRUE)
\* Schedules name their actor themselves.
ScheduleChange == Handler({Refused}, <<{Refused, Unconfirmed}>>, FALSE)
OfflineRefresh == Changes({Refused, RefusedOnRecord}, {Refused, UnconfirmedOnRecord})
OriginEnforcement == Changes({Refused}, {Refused, Unconfirmed})
PolicyChange == Changes({Refused}, {RefusedOnRecord, PartlyRefused, UnconfirmedOnRecord})
\* Settings are disabled first, their secrets cleared afterwards.
ClearSettings == Handler({Refused}, <<{Refused, UnconfirmedOnRecord},
                                      {UnconfirmedOnRecord}>>, TRUE)

\* Mutant: the row of a failed cleanup is forgotten.
DeleteDevice_Silent ==
    Handler({}, <<{UnconfirmedOnRecord}, {[PartlyRefused EXCEPT !.row = FALSE]},
                  {Degraded}, {Degraded}>>, TRUE)

\* Secrets are revoked first; then the role and the fleet row go, the deployment
\* records and the jobs, which are reported as degraded when they fail.
DeleteDevice ==
    Handler({}, <<{UnconfirmedOnRecord}, {PartlyRefused, UnconfirmedOnRecord},
                  {Degraded}, {Degraded}>>, TRUE)

\* Profiles, and images: warnings do not stop the deletion.
DeleteItem == Changes({Refused, RefusedOnRecord}, {Refused})

Operations ==
  [certificate |-> DeviceCertificate, import |-> ImageImport,
   lifecycle |-> LifecycleRequest, rotation |-> RotationRequest, key |-> KeyRequest,
   export |-> ExportRun, exportset |-> ExportSettings, catrust |-> CaTrust,
   carefresh |-> CaRefresh, telemetry |-> TelemetryDestination, tls |-> PeerTlsMode,
   guicert |-> GuiCert, trust |-> TrustAnchor, verify |-> Verification,
   release |-> ReleaseImage, upsert |-> DeviceUpsert, bulk |-> BulkCredential,
   assign |-> AssignDevice, field |-> DeviceField, request |-> DeviceRequest,
   adopt |-> Adopt, submit |-> Submit, profile |-> CredentialProfile,
   quarantine |-> QuarantineDevice, upload |-> Upload, schedule |-> ScheduleChange,
   offline |-> OfflineRefresh, origin |-> OriginEnforcement, policy |-> PolicyChange,
   clear |-> ClearSettings, device |-> DeleteDevice, item |-> DeleteItem]

\* idempotency_supported.
Keyed == {"upsert", "import", "verify", "export", "carefresh", "request", "adopt", "submit"}

handler == Operations[cleft.op]

----------------------------------------------------------------------------
(* The plan of a deployment, what its record owns, and what a teardown      *)
(* asks of the record.                                                     *)

RouterTypes == {"router-routed", "router-nat"}
Resolutions == [type : {"routed", "inband", "xr-host"} \cup RouterTypes,
                plat : {"guestshell", "iox", "router", "xr-appmgr"},
                iox : BOOLEAN, quiet : BOOLEAN, outside : BOOLEAN]

\* _plan: which types and platforms go together.
Planned(r) ==
    /\ r.plat = "router" => r.type \in RouterTypes
    /\ r.type \in RouterTypes => r.plat \in {"router", "iox"}
    /\ r.plat = "xr-appmgr" <=> r.type = "xr-host"

Created(kinds) == {<<k, "iris-created">> : k \in kinds}
Preserved == {"nat-outside-marking", "iox-global", "file-prompt-quiet"}
RouterKinds == {"virtualportgroup", "eem-applets", "agent-files",
    "logging-discriminator", "pki-trustpoint", "http-client-trustpoint",
    "iox-global", "file-prompt-quiet", "guestshell"}
NatKinds == {"nat-acl", "nat-overload", "nat-static", "nat-outside-marking"}

\* Mutant: the NAT marking of the outside interface counts as ours.
OwnedNat_Always(r) == Created(NatKinds)

OwnedNat(r) ==
    Created(NatKinds \ Preserved)
      \cup {<<"nat-outside-marking", IF r.outside THEN "iris-created" ELSE "pre-existing">>}

\* _owned_resources.
OwnedResources(r) ==
    IF r.plat = "iox" /\ r.type \notin RouterTypes THEN Created({"iox-app"})
    ELSE IF r.type = "xr-host"
    THEN Created({"appmgr-application", "appmgr-source", "agent-rpm", "agent-work-dir",
                  "agent-peer-identity"})
    ELSE IF r.type = "routed" THEN Created({"vlan", "svi", "guestshell"})
    ELSE IF r.type = "inband" THEN Created({"guestshell"})
    ELSE LET added(was) == IF was THEN "pre-existing" ELSE "iris-added-preserved"
             kinds == IF r.plat = "iox"
                      THEN (RouterKinds \ {"eem-applets", "agent-files", "guestshell",
                                           "logging-discriminator"}) \cup {"iox-app"}
                      ELSE RouterKinds
         IN  Created(kinds \ Preserved)
               \cup {<<"iox-global", added(r.iox)>>, <<"file-prompt-quiet", added(r.quiet)>>}
               \cup IF r.type = "router-nat" THEN OwnedNat(r) ELSE {}

\* _router_teardown_resolved: a record without proof is refused.
TeardownAccepts(r, owned) ==
    r.plat = "router" =>
      LET required == RouterKinds \cup IF r.type = "router-nat" THEN NatKinds ELSE {}
      IN  /\ \A k \in required : \E o \in owned : o[1] = k
          /\ \A o \in owned : o[1] \in required \ Preserved => o[2] = "iris-created"
          /\ \A o \in owned : o[1] \in {"iox-global", "file-prompt-quiet"}
                                => o[2] \in {"pre-existing", "iris-added-preserved"}

----------------------------------------------------------------------------
(* The calls.                                                              *)

NoCall == [at |-> "new", pair |-> [cur |-> 0, prev |-> 0], tok |-> 0, i |-> 1, made |-> 0,
           rows |-> 0, part |-> FALSE, ans |-> "none", replay |-> FALSE, seen |-> "none",
           got |-> 0]
NoEntry == [by |-> 0, body |-> 0, ans |-> "none"]

CallInit ==
    /\ cleft \in CallPlans
    /\ calls = [t \in Attempts |-> NoCall]
    /\ kept = NoEntry
    /\ lost = FALSE
    /\ applied = 0
    /\ pairs = [api |-> [cur |-> 1, prev |-> 0], front |-> [cur |-> 1, prev |-> 0]]
    /\ bucket = cleft.rate
    /\ site = [stored |-> 0, serving |-> 0, lock |-> 0]

CSpend(e) == cleft[e] > 0 /\ cleft' = [cleft EXCEPT ![e] = @ - 1]

Moves(t, c) == calls' = [calls EXCEPT ![t] = c]
\* An answer that the front makes itself, or passes on as it is.
Ends(t, what) == Moves(t, [calls[t] EXCEPT !.at = "done", !.ans = what, !.seen = what])
\* An answer of the API's handler; the ledger is completed before it is sent.
Replies(t, what, row) ==
    Moves(t, [calls[t] EXCEPT !.at = "finish", !.ans = what,
                              !.rows = IF row THEN @ + 1 ELSE @])

\* tier_auth.authorized.
Accepts(tok) == tok # 0 /\ tok \in {pairs.api.cur, pairs.api.prev}

\* _token_pair: both files; a previous token that is the current one is none.
ReadPair(t) ==
    /\ calls[t].at = "new" /\ t <= cleft.n
    /\ Moves(t, [calls[t] EXCEPT !.at = "ask", !.pair = pairs.front, !.tok = pairs.front.cur])
    /\ UNCHANGED <<kept, lost, applied, pairs, bucket, site, cleft>>

\* Mutant: the previous token is not tried.
Fallback_None(t) == 0

Fallback(t) == IF calls[t].tok = calls[t].pair.cur THEN calls[t].pair.prev ELSE 0

\* The API's part: session, CSRF token and route.
Authorization(t) == Moves(t, [calls[t] EXCEPT !.at = "send"]) \/ Ends(t, "no")

\* _authorize_mutation: the credential, then the previous one.
Ask(t) ==
    /\ calls[t].at = "ask"
    /\ IF Accepts(calls[t].tok) THEN Authorization(t)
       ELSE IF Fallback(t) # 0 THEN Moves(t, [calls[t] EXCEPT !.tok = Fallback(t)])
       ELSE Ends(t, "denied")
    /\ UNCHANGED <<kept, lost, applied, pairs, bucket, site, cleft>>

\* AggregateRateLimiter.admit.
LetThrough == bucket > 0

\* The body goes out once, with the token that was accepted; parse_request checks
\* it again and asks the limiter.
SendBody(t) ==
    /\ calls[t].at = "send"
    /\ IF ~Accepts(calls[t].tok) THEN Ends(t, "denied") /\ UNCHANGED bucket
       ELSE IF ~LetThrough THEN Ends(t, "no") /\ UNCHANGED bucket
       ELSE /\ bucket' = bucket - 1
            /\ Moves(t, [calls[t] EXCEPT !.at = IF cleft.op \in Keyed THEN "reserve"
                                                ELSE "first"])
    /\ UNCHANGED <<kept, lost, applied, pairs, site, cleft>>

\* The client goes away in the middle of the body: no handler takes it.
BodyCut(t) ==
    /\ calls[t].at = "send" /\ CSpend("lose")
    /\ Ends(t, "error")
    /\ UNCHANGED <<kept, lost, applied, pairs, bucket, site>>

\* Mutant: an entry without an answer counts as no entry.
UnderWay_Never == FALSE

UnderWay == kept.by # 0 /\ kept.ans = "none"

\* _prepare_idempotency: the body must be the same; an answer is replayed, one
\* under way is waited for.
Reserve(t) ==
    /\ calls[t].at = "reserve"
    /\ IF kept.by # 0 /\ kept.body # cleft.body[t] THEN Ends(t, "no") /\ UNCHANGED kept
       ELSE IF UnderWay THEN Moves(t, [calls[t] EXCEPT !.at = "wait"]) /\ UNCHANGED kept
       ELSE IF kept.by # 0 /\ kept.ans # "none"
       THEN /\ Moves(t, [calls[t] EXCEPT !.at = "sent", !.ans = kept.ans, !.replay = TRUE])
            /\ UNCHANGED kept
       ELSE /\ kept' = [by |-> t, body |-> cleft.body[t], ans |-> "none"]
            /\ Moves(t, [calls[t] EXCEPT !.at = "first"])
    /\ UNCHANGED <<lost, applied, pairs, bucket, site, cleft>>

\* The event was set, or thirty seconds went by.
WaitForAnswer(t) ==
    /\ calls[t].at = "wait"
    /\ IF kept.by # 0 /\ kept.ans # "none"
       THEN Moves(t, [calls[t] EXCEPT !.at = "sent", !.ans = kept.ans, !.replay = TRUE])
       ELSE Moves(t, [calls[t] EXCEPT !.at = "sent", !.ans = "error"])
    /\ UNCHANGED <<kept, lost, applied, pairs, bucket, site, cleft>>

\* What a handler refuses before it changes anything.
Screen(t) ==
    /\ calls[t].at = "first"
    /\ \/ \E f \in handler.first : Replies(t, "no", f.row)
       \/ Moves(t, [calls[t] EXCEPT !.at = "step", !.rows = IF handler.early THEN 1 ELSE 0])
    /\ UNCHANGED <<kept, lost, applied, pairs, bucket, site, cleft>>

Made(t) == [calls[t] EXCEPT !.made = calls[t].i, !.i = @ + 1,
                            !.at = IF calls[t].i = Len(handler.steps) THEN "row" ELSE "step"]
StoresCert(t) == cleft.op = "guicert" /\ calls[t].i = 1

\* One change.
Change(t) ==
    /\ calls[t].at = "step"
    /\ Moves(t, Made(t))
    /\ applied' = IF calls[t].i = Len(handler.steps) THEN applied + 1 ELSE applied
    /\ site' = IF StoresCert(t) THEN [site EXCEPT !.stored = @ + 1] ELSE site
    /\ UNCHANGED <<kept, lost, pairs, bucket, cleft>>

\* A change that fails, with the answer the handler gives; one that is not
\* confirmed may have been made.
ChangeFails(t) ==
    /\ calls[t].at = "step"
    /\ \E f \in handler.steps[calls[t].i] :
         IF f.code = "part"
         THEN Moves(t, [Made(t) EXCEPT !.made = calls[t].made, !.part = TRUE])
         ELSE \E m \in {calls[t].made} \cup (IF f.late THEN {calls[t].i} ELSE {}) :
                Moves(t, [calls[t] EXCEPT !.at = "finish", !.ans = f.code, !.made = m,
                                          !.rows = IF f.row THEN @ + 1 ELSE @])
    /\ UNCHANGED <<kept, lost, applied, pairs, bucket, site, cleft>>

\* An exception the handler does not catch: handle_one_request answers for a store
\* that cannot be read, and any other one closes the connection.
Raises(t) ==
    /\ calls[t].at = "step" /\ CSpend("fault")
    /\ \/ Replies(t, "error", FALSE)
       \/ Moves(t, [calls[t] EXCEPT !.at = "done", !.ans = "error", !.seen = "error"])
    /\ UNCHANGED <<kept, lost, applied, pairs, bucket, site>>

WriteRow(t) ==
    /\ calls[t].at = "row"
    /\ Replies(t, IF calls[t].part THEN "part" ELSE "ok", handler.row /\ ~handler.early)
    /\ UNCHANGED <<kept, lost, applied, pairs, bucket, site, cleft>>

\* Mutant: a refusal is kept as well.
Keeps_All(t) == TRUE

Keeps(t) == calls[t].ans \in {"ok", "part"}

\* _finish_idempotency, before the answer is sent.
FinishKey(t) ==
    /\ calls[t].at = "finish"
    /\ kept' = IF cleft.op \notin Keyed \/ kept.by = 0 \/ kept.body # cleft.body[t] THEN kept
               ELSE IF Keeps(t) THEN [kept EXCEPT !.ans = calls[t].ans] ELSE NoEntry
    /\ Moves(t, [calls[t] EXCEPT !.at = "sent"])
    /\ UNCHANGED <<lost, applied, pairs, bucket, site, cleft>>

\* The front passes the answer on, unless it has given up.
PassOn(t) == Moves(t, [calls[t] EXCEPT !.at = "done",
                         !.seen = IF calls[t].seen = "none" THEN calls[t].ans ELSE @])

\* The front has the answer; a new certificate is fetched before it goes on.
Deliver(t) ==
    /\ calls[t].at = "sent"
    /\ IF calls[t].seen = "none" /\ cleft.op = "guicert" /\ calls[t].ans = "ok"
       THEN Moves(t, [calls[t] EXCEPT !.at = "fetch"])
       ELSE PassOn(t)
    /\ UNCHANGED <<kept, lost, applied, pairs, bucket, site, cleft>>

\* Mutant: without the lock.
CertificateFree_Always == TRUE

CertificateFree == site.lock = 0

\* fetch_console_certificate under certificate_lock, with the credential pair.
Fetch(t) ==
    /\ calls[t].at = "fetch" /\ CertificateFree
    /\ site' = [site EXCEPT !.lock = t]
    /\ Moves(t, [calls[t] EXCEPT !.at = "reload", !.got = site.stored])
    /\ UNCHANGED <<kept, lost, applied, pairs, bucket, cleft>>

\* reload_tls; the context manager releases the lock.
Reload(t) ==
    /\ calls[t].at = "reload"
    /\ site' = [site EXCEPT !.serving = calls[t].got, !.lock = 0]
    /\ Moves(t, [calls[t] EXCEPT !.at = "done", !.seen = "ok"])
    /\ UNCHANGED <<kept, lost, applied, pairs, bucket, cleft>>

\* Mutant: the lock stays.
Unlocked_Not == site.lock

Unlocked == 0

\* The fetch or the load failed: "saved; restart the Console".
FetchFails(t) ==
    /\ calls[t].at = "reload" /\ CSpend("fault")
    /\ site' = [site EXCEPT !.lock = Unlocked]
    /\ Moves(t, [calls[t] EXCEPT !.at = "done", !.seen = "saved"])
    /\ UNCHANGED <<kept, lost, applied, pairs, bucket>>

InApi == {"reserve", "wait", "first", "step", "row", "finish", "sent"}

\* The front's timeout, or the way back breaks; the handler goes on.
GiveUp(t) ==
    /\ calls[t].at \in InApi /\ calls[t].seen = "none" /\ CSpend("lose")
    /\ Moves(t, [calls[t] EXCEPT !.seen = "error"])
    /\ UNCHANGED <<kept, lost, applied, pairs, bucket, site>>

\* The entry's time is over, answered or not.
Expire ==
    /\ kept.by # 0 /\ CSpend("expire")
    /\ kept' = NoEntry /\ lost' = TRUE
    /\ UNCHANGED <<calls, applied, pairs, bucket, site>>

\* _idempotency_make_room for another key: only entries that have their answer.
Evict ==
    /\ kept.by # 0 /\ kept.ans # "none" /\ CSpend("evict")
    /\ kept' = NoEntry /\ lost' = TRUE
    /\ UNCHANGED <<calls, applied, pairs, bucket, site>>

\* The API restarts: its threads and the ledger are gone.
ApiDies ==
    /\ CSpend("crash")
    /\ kept' = NoEntry /\ lost' = TRUE
    /\ calls' = [t \in Attempts |->
                   IF calls[t].at \notin InApi THEN calls[t]
                   ELSE [calls[t] EXCEPT !.at = "done", !.ans = "error", !.seen = "error"]]
    /\ UNCHANGED <<applied, pairs, bucket, site>>

\* A rotation reaches the API's files and the front's, in either order.
Rotate(side) ==
    /\ cleft.rotate /\ pairs[side].cur = 1
    /\ pairs' = [pairs EXCEPT ![side] = [cur |-> 2, prev |-> 1]]
    /\ UNCHANGED <<calls, kept, lost, applied, bucket, site, cleft>>

\* The previous token is retired once both have the new one.
Retire ==
    /\ \A side \in {"api", "front"} : pairs[side].cur = 2
    /\ pairs.api.prev # 0
    /\ pairs' = [side \in {"api", "front"} |-> [cur |-> 2, prev |-> 0]]
    /\ UNCHANGED <<calls, kept, lost, applied, bucket, site, cleft>>

CallStep(t) ==
    \/ Ask(t) \/ SendBody(t) \/ Reserve(t) \/ WaitForAnswer(t) \/ Screen(t)
    \/ Change(t) \/ ChangeFails(t)
    \/ WriteRow(t) \/ FinishKey(t) \/ Deliver(t) \/ Fetch(t) \/ Reload(t)

CallNext ==
    \/ \E t \in Attempts : CallStep(t) \/ ReadPair(t) \/ BodyCut(t) \/ Raises(t)
                             \/ FetchFails(t) \/ GiveUp(t)
    \/ Expire \/ Evict \/ ApiDies \/ Retire \/ \E side \in {"api", "front"} : Rotate(side)

----------------------------------------------------------------------------
(* Properties.                                                             *)

\* "the ledger prevents the common lost-response retry from creating a second job
\* while this API process is alive" (management_api.py): calls that repeat a key,
\* at once or after a lost answer, complete the change once, unless the entry was
\* evicted, ran out or the process restarted; a call without a key is never sent twice.
AppliedOnce == applied <= 1 \/ lost \/ (cleft.op \notin Keyed /\ cleft.n > 1)

\* A replayed answer reports a change that was completed.
ReplayReportsChange ==
    \A t \in Attempts : calls[t].replay /\ calls[t].ans # "error" => applied >= 1

\* A change, whole or partial, that the client is told was made or refused has a
\* row in the audit trail; without one the client is told that the outcome is open.
ChangesAreOnRecord ==
    \A t \in Attempts :
      calls[t].at = "done" /\ handler.row /\ calls[t].made > 0 /\ ~calls[t].replay
        /\ calls[t].ans \in {"ok", "part", "no"} => calls[t].rows > 0

\* A call is refused for its credential only after the token it used was retired,
\* in whatever order a rotation reaches the two processes.
RotationRefusesNoCall ==
    \A t \in Attempts : calls[t].ans = "denied" => pairs.api.prev = 0 /\ pairs.api.cur = 2

\* When every certificate change was answered, the front serves the one stored
\* last, although two changes overlapped.
NewestCertificateServed ==
    (/\ cleft.op = "guicert" /\ site.lock = 0
     /\ \A t \in Attempts : calls[t].made > 0 => calls[t].at = "done" /\ calls[t].seen = "ok")
       => site.serving = site.stored

\* What a record says it owns, teardown of the same plan accepts, and what was
\* there before is not taken for ours.
RecordProvesOwnership ==
    \A r \in Resolutions : Planned(r) =>
        /\ TeardownAccepts(r, OwnedResources(r))
        /\ (<<"nat-outside-marking", "iris-created">> \in OwnedResources(r) => r.outside)

CallsSafe == AppliedOnce /\ ReplayReportsChange /\ ChangesAreOnRecord
               /\ RotationRefusesNoCall /\ NewestCertificateServed /\ RecordProvesOwnership

\* Every call that was begun ends; none waits for a lock or an entry for ever.
CallsEnd == \A t \in Attempts : calls[t].at \in {"new", "done"}

=============================================================================
