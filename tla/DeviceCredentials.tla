-------------------------- MODULE DeviceCredentials -------------------------
(***************************************************************************)
(* The credentials of one device: its rolling catalog token with the       *)
(* previous one kept for recovery, its announce token and its instruction  *)
(* key with an overlap (server/secrets_store.py).  The catalog rotates     *)
(* them on token-refresh (catalog.py), operators mint an enrollment        *)
(* (iris-mint-enrollment), revoke (iris-revoke, management_api.py) and     *)
(* rotate the instruction key (iris-instr-key, key_maintenance.py).        *)
(*                                                                         *)
(* Every writer works under the store's lock and persists the ciphertext   *)
(* before the plaintext in tmpfs (secretfs.persist_store); a restart reads *)
(* the ciphertext back.  On the device a tick's process takes its bearer   *)
(* from the configuration, and saves the bag of every answer it gets       *)
(* (device/agent/iris_agent.py, instr.py).  Values are numbers in the      *)
(* order they are minted in.                                               *)
(***************************************************************************)
EXTENDS Integers, FiniteSets

CONSTANTS
    CredBudgets,    \* outside events a behaviour starts with
    Absent          \* a missing record

VARIABLES
    plain,      \* the store in tmpfs, which serves
    cipher,     \* the encrypted store, which survives
    conf,       \* the agent's configuration on flash
    proc,       \* the agent's process: its bearer and the request in flight
    credNow,    \* the time
    minted,     \* values minted so far
    dead,       \* values of lineages an enrollment ended
    promise,    \* last reported: served, revoked, undelivered (enrolled), unsure
    overrun,    \* a refresh was served for a bearer that was never saved
    credLeft    \* what is left of the outside events

credVars == <<plain, cipher, conf, proc, credNow, minted, dead, promise, overrun, credLeft>>
hereVars == <<conf, proc>>

CredEvents == {"lost", "disk", "crash", "persist", "diverge", "restart", "time", "revoke",
               "enroll", "rotate", "cut", "badkey"}
CredSpend(e) == credLeft[e] > 0 /\ credLeft' = [credLeft EXCEPT ![e] = @ - 1]

\* Lifetimes in the model's units: IRIS_TOKEN_TTL, IRIS_TOKEN_OVERLAP,
\* IRIS_TOKEN_SKEW_GRACE, IRIS_ENROLL_TTL and INSTR_KEY_PREV_TTL.
TokenTtl == 4
TokenOverlap == 1
SkewGrace == 0
EnrollTtl == 2
KeyPrevTtl == 2

\* valid: not revoked and not past its expiry.
ValidRecord(r) == r # Absent /\ ~r.revoked /\ credNow < r.expires + SkewGrace

\* mint: a fresh value with its lifetime.
Minted(n, ttl) == [value |-> n, expires |-> credNow + ttl, revoked |-> FALSE]
Forever == 100

Values(s) == {s[f].value : f \in {g \in {"token", "prev"} : s[g] # Absent}}

OffProc == [at |-> "off", bearer |-> 0, asked |-> 0, answer |-> Absent, twice |-> FALSE]

CredInit ==
    /\ plain = [token |-> [value |-> 1, expires |-> TokenTtl, revoked |-> FALSE],
                prev |-> Absent,
                announce |-> [value |-> 2, expires |-> Forever, revoked |-> FALSE],
                key |-> [value |-> 3, expires |-> Forever, revoked |-> FALSE],
                keyPrev |-> Absent]
    /\ cipher = plain
    /\ conf = [token |-> 1, expires |-> TokenTtl, key |-> 3, keyPrev |-> 0]
    /\ proc = OffProc
    /\ credNow = 0
    /\ minted = 3
    /\ dead = {}
    /\ promise = "served"
    /\ overrun = FALSE
    /\ credLeft \in CredBudgets

----------------------------------------------------------------------------
(* The store's writers.                                                    *)

\* persist_store: both copies; or nothing, when the encryption fails or the
\* rename fails and is rolled back; or the ciphertext alone, when that roll-back
\* fails too, or when the server dies between the two and reads it back.
\* Mutant: the plaintext is swapped in first.
Persist_PlainFirst(s, how) ==
    CASE how = "ok" -> plain' = s /\ cipher' = s
      [] how = "failed" -> plain' = s /\ UNCHANGED cipher
      [] how = "diverged" -> cipher' = s /\ UNCHANGED plain
      [] how = "died" -> cipher' = s /\ plain' = s

Persist(s, how) ==
    CASE how = "ok" -> plain' = s /\ cipher' = s
      [] how = "failed" -> UNCHANGED <<plain, cipher>>
      [] how = "diverged" -> cipher' = s /\ UNCHANGED plain
      [] how = "died" -> cipher' = s /\ plain' = s

Outcomes == {"ok", "failed", "diverged", "died"}
PersistCost(how) ==
    CASE how = "ok" -> UNCHANGED credLeft
      [] how = "failed" -> CredSpend("persist")
      [] how = "diverged" -> CredSpend("diverge")
      [] how = "died" -> CredSpend("restart")

\* A restarted server decrypts the ciphertext into tmpfs.
ServerRestart ==
    /\ CredSpend("restart")
    /\ plain' = cipher
    /\ UNCHANGED <<cipher, hereVars, credNow, minted, dead, promise, overrun>>

\* revoke: every record of the device.
RevokedStore(s) == [f \in DOMAIN s |-> IF s[f] = Absent THEN Absent
                                       ELSE [s[f] EXCEPT !.revoked = TRUE]]

RevokeDevice(how) ==
    /\ CredSpend("revoke")
    /\ Persist(RevokedStore(plain), how)
    /\ promise' = IF how = "ok" THEN "revoked" ELSE promise
    /\ UNCHANGED <<hereVars, credNow, minted, dead, overrun>>

\* iris-mint-enrollment: a new lineage of the catalog token, and new records for
\* what is missing, expired or revoked.  A write that failed half way leaves the
\* operator with an error and the device in doubt.
\* Mutant: the previous token survives.
Enrolled_KeepPrev(s) ==
    [s EXCEPT !.token = Minted(minted + 1, EnrollTtl),
              !.announce = IF ValidRecord(@) THEN @ ELSE Minted(minted + 2, Forever),
              !.key = IF ValidRecord(@) THEN @ ELSE Minted(minted + 3, Forever)]

Enrolled(s) ==
    [s EXCEPT !.prev = Absent,
              !.token = Minted(minted + 1, EnrollTtl),
              !.announce = IF ValidRecord(@) THEN @ ELSE Minted(minted + 2, Forever),
              !.key = IF ValidRecord(@) THEN @ ELSE Minted(minted + 3, Forever),
              !.keyPrev = IF ValidRecord(@) /\ ValidRecord(s.key) THEN @ ELSE Absent]

MintEnroll(how) ==
    /\ CredSpend("enroll")
    /\ Persist(Enrolled(plain), how)
    /\ minted' = minted + 3
    /\ promise' = CASE how = "ok" -> "undelivered"
                    [] how = "failed" -> promise
                    [] OTHER -> "unsure"
    /\ dead' = IF how = "ok" THEN dead \cup Values(plain) \cup Values(cipher) ELSE dead
    /\ UNCHANGED <<hereVars, credNow, overrun>>

\* The installer writes the enrollment token into a new configuration; the old
\* agent was stopped before.
DeliverEnrollment ==
    /\ promise = "undelivered"
    /\ promise' = "served"
    /\ conf' = [token |-> plain.token.value, expires |-> 0, key |-> 0, keyPrev |-> 0]
    /\ proc' = OffProc
    /\ overrun' = FALSE
    /\ UNCHANGED <<plain, cipher, credNow, minted, dead, credLeft>>

\* rotate_instruction_key: refused for a revoked device and while the previous
\* key's overlap runs, unless the operator asks for no overlap.
\* Mutant: a running overlap is replaced.
MayRotate_Again(s, cut) == \A f \in DOMAIN s : s[f] # Absent => ~s[f].revoked

MayRotate(s, cut) ==
    /\ \A f \in DOMAIN s : s[f] # Absent => ~s[f].revoked
    /\ ~cut /\ s.keyPrev # Absent => credNow >= s.keyPrev.expires

RotatedKey(s, cut) ==
    [s EXCEPT !.key = Minted(minted + 1, Forever),
              !.keyPrev = IF cut THEN Absent
                          ELSE [s.key EXCEPT !.expires = credNow + KeyPrevTtl]]

RotateInstructionKey(cut, how) ==
    /\ CredSpend(IF cut THEN "cut" ELSE "rotate")
    /\ MayRotate(plain, cut)
    /\ Persist(RotatedKey(plain, cut), how)
    /\ minted' = minted + 1
    /\ UNCHANGED <<hereVars, credNow, dead, promise, overrun>>

CredTick ==
    /\ CredSpend("time")
    /\ credNow' = credNow + 1
    /\ UNCHANGED <<plain, cipher, hereVars, minted, dead, promise, overrun>>

----------------------------------------------------------------------------
(* The refresh.                                                            *)

\* _resolve_refresh_auth: the current token while it is valid; the previous one
\* until its original expiry, while its successor is valid.
\* Mutant: the previous token recovers only within the short overlap.
RefreshAs_Overlap(s, v) ==
    IF ValidRecord(s.token) /\ s.token.value = v THEN "token"
    ELSE IF ValidRecord(s.prev) /\ s.prev.value = v /\ ValidRecord(s.token) THEN "prev"
    ELSE "none"

RefreshAs(s, v) ==
    IF ValidRecord(s.token) /\ s.token.value = v THEN "token"
    ELSE IF /\ s.prev # Absent /\ s.prev.value = v /\ ~s.prev.revoked
            /\ credNow < s.prev.recover + SkewGrace /\ ValidRecord(s.token)
    THEN "prev" ELSE "none"

\* The stored pair after a rotation: the old token keeps its original expiry for
\* recovery.  A recovery changes nothing.
Rotated(s) ==
    [s EXCEPT !.prev = [value |-> s.token.value, expires |-> credNow + TokenOverlap,
                        recover |-> s.token.expires, revoked |-> FALSE],
              !.token = Minted(minted + 1, TokenTtl)]

\* What the handler works on: the store read again under its lock.
\* Mutant: the snapshot the guard read.
Reread_Guard == proc.answer

Reread == plain

\* Mutant: a previous token rotates too.
Rotates_Always(as) == as # "none"

Rotates(as) == as = "token"

Bag(s) == [token |-> s.token.value, expires |-> s.token.expires, key |-> s.key.value,
           keyPrev |-> IF ValidRecord(s.keyPrev) THEN s.keyPrev.value ELSE 0]

\* needs_refresh: the expiry is unknown or the half-life has passed.
NeedsRefresh == conf.expires = 0 \/ credNow >= conf.expires - TokenTtl \div 2

\* A tick's process starts with the bearer of its configuration.
StartTick ==
    /\ proc.at = "off" /\ promise # "undelivered" /\ NeedsRefresh
    /\ proc' = [OffProc EXCEPT !.at = "ask", !.bearer = conf.token]
    /\ UNCHANGED <<plain, cipher, conf, credNow, minted, dead, promise, overrun, credLeft>>

\* _refresh_instruction_keys: later in a tick, instructions under an unknown key
\* make the same process refresh again.
RefreshForKey ==
    /\ proc.at \in {"off", "rest"} /\ promise # "undelivered" /\ CredSpend("badkey")
    /\ proc' = [OffProc EXCEPT !.at = "ask", !.twice = proc.at = "rest",
                    !.bearer = IF proc.at = "rest" THEN proc.bearer ELSE conf.token]
    /\ UNCHANGED <<plain, cipher, conf, credNow, minted, dead, promise, overrun>>

\* _guard: the request is authenticated against the store before the lock.
Guard ==
    /\ proc.at = "ask"
    /\ IF RefreshAs(plain, proc.bearer) = "none"
       THEN proc' = [proc EXCEPT !.at = "rest"]
       ELSE proc' = [proc EXCEPT !.at = "handle", !.asked = proc.bearer, !.answer = plain]
    /\ UNCHANGED <<plain, cipher, conf, credNow, minted, dead, promise, overrun, credLeft>>

\* _handle_token_refresh: refused, recovered without a change, or rotated.
HandleRefresh(how) ==
    /\ proc.at = "handle"
    /\ LET as == RefreshAs(Reread, proc.asked)
           next == IF Rotates(as) THEN Rotated(Reread) ELSE Reread
       IN IF as = "none" \/ Reread.key.revoked
          THEN /\ how = "ok"
               /\ proc' = [proc EXCEPT !.at = "rest", !.answer = Absent]
               /\ UNCHANGED <<plain, cipher, minted, overrun, credLeft>>
          ELSE /\ ~Rotates(as) => how = "ok"
               /\ IF Rotates(as) THEN Persist(next, how) ELSE UNCHANGED <<plain, cipher>>
               /\ PersistCost(how)
               /\ minted' = IF Rotates(as) THEN minted + 1 ELSE minted
               /\ overrun' = (overrun \/ (Rotates(as) /\ how # "failed"
                                          /\ conf.token # proc.asked))
               /\ proc' = IF how = "ok"
                          THEN [proc EXCEPT !.at = "answer", !.answer = Bag(next)]
                          ELSE [proc EXCEPT !.at = "rest", !.answer = Absent]
    /\ UNCHANGED <<conf, credNow, dead, promise>>

\* The answer is lost: the process keeps its bearer.
AnswerLost ==
    /\ proc.at = "answer" /\ CredSpend("lost")
    /\ proc' = [proc EXCEPT !.at = "rest", !.answer = Absent]
    /\ UNCHANGED <<plain, cipher, conf, credNow, minted, dead, promise, overrun>>

\* write_conf: the bag's token, expiry and key pair replace the old ones in one
\* rename; a failed write leaves the old file.
ConfRewritten(bag) ==
    \/ conf' = bag /\ UNCHANGED credLeft
    \/ CredSpend("disk") /\ UNCHANGED conf

\* The process takes the new bearer at once and rewrites its configuration.
AnswerArrives ==
    /\ proc.at = "answer"
    /\ proc' = [proc EXCEPT !.at = "rest", !.bearer = proc.answer.token, !.answer = Absent]
    /\ ConfRewritten(proc.answer)
    /\ UNCHANGED <<plain, cipher, credNow, minted, dead, promise, overrun>>

RefreshEnds ==
    /\ proc.at = "rest"
    /\ proc' = OffProc
    /\ UNCHANGED <<plain, cipher, conf, credNow, minted, dead, promise, overrun, credLeft>>

AgentDies ==
    /\ proc.at # "off" /\ CredSpend("crash")
    /\ proc' = OffProc
    /\ UNCHANGED <<plain, cipher, conf, credNow, minted, dead, promise, overrun>>

----------------------------------------------------------------------------
CredNext ==
    \/ ServerRestart \/ CredTick \/ DeliverEnrollment
    \/ \E how \in Outcomes :
          \/ RevokeDevice(how) \/ MintEnroll(how) \/ HandleRefresh(how)
          \/ \E cut \in BOOLEAN : RotateInstructionKey(cut, how)
    \/ StartTick \/ RefreshForKey \/ Guard \/ AnswerLost \/ AnswerArrives \/ RefreshEnds
    \/ AgentDies

TickSteps == StartTick \/ Guard \/ (\E how \in Outcomes : HandleRefresh(how))
             \/ AnswerArrives \/ RefreshEnds

----------------------------------------------------------------------------
(* Properties.                                                             *)

Copies == {plain, cipher}

\* Answers may be lost, writes fail on both sides and processes die: while the
\* device was neither revoked nor enrolled anew, and no refresh was served for a
\* bearer that never reached its flash, both copies of the store know the token
\* of its configuration (_handle_token_refresh, _refresh_impl).
NeverStranded ==
    promise = "served" /\ ~overrun => \A s \in Copies : conf.token \in Values(s)

\* A revocation that was reported stands in both copies, whatever refresh or
\* rotation was under way (revoke, store_lock).
RevokedStands ==
    promise = "revoked" =>
        \A s \in Copies : \A f \in DOMAIN s : s[f] # Absent => s[f].revoked

\* No token of a lineage that an enrollment ended is known again, in either
\* copy (iris-mint-enrollment).
LineageEnds == \A s \in Copies : Values(s) \cap dead = {}

CredSafe == NeverStranded /\ RevokedStands /\ LineageEnds

\* A previous instruction key is kept for all of its overlap, unless the
\* operator cuts it, revokes the device or enrolls it anew, or a restart reads
\* the ciphertext; every token that is replaced can still recover, until its
\* own expiry (rotate_instruction_key, rotate_catalog).
Spent(events) == \E e \in events : credLeft'[e] < credLeft[e]
OverlapsKept ==
    /\ ValidRecord(plain.keyPrev) /\ plain'.keyPrev # plain.keyPrev =>
          Spent({"cut", "revoke", "enroll", "restart"})
    /\ plain'.token.value # plain.token.value /\ ~Spent({"enroll", "restart"}) =>
          /\ plain'.prev # Absent
          /\ plain'.prev.value = plain.token.value
          /\ plain'.prev.recover = plain.token.expires

\* A device that is served, with a token that has time left, ends with the
\* current token in its configuration.  Holds for good in the end.
Healthy ==
    /\ promise = "served" /\ ~overrun /\ ValidRecord(plain.token) /\ NeedsRefresh
    /\ conf.token # plain.token.value =>
          plain.prev # Absent /\ conf.token = plain.prev.value /\ credNow < plain.prev.recover
TokenArrives == Healthy => conf.token = plain.token.value
=============================================================================
