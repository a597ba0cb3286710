-------------------------- MODULE ConsoleSessions --------------------------
(***************************************************************************)
(* Who is logged in to the Console: the admin record in the secret store,  *)
(* the sessions in the management API's memory (gui_auth.py, gui_app.py),  *)
(* the first setup and the login, password and logout requests of          *)
(* management_api.py, and iris-gui-admin, which resets the password from a *)
(* process of its own and can only leave a floor in the record: sessions   *)
(* that are not younger are refused.                                       *)
(*                                                                         *)
(* Requests run in threads.  A password stands for the version of the      *)
(* admin record it opens.  The store's lock is held within single steps.   *)
(***************************************************************************)
EXTENDS Integers, FiniteSets

CONSTANTS
    Threads,        \* request threads; a login's session has its thread's name
    SessionPlans,   \* what the threads ask, and how often outside events happen
    NoSession          \* no session, no grant

\* A plan says whether an admin is set when it begins.
ASSUME SessionAssumption == \A plan \in SessionPlans : plan.set \in BOOLEAN

VARIABLES
    admin,      \* the record: file identity, set, password version, floor
    sess,       \* the sessions: created, seen, and the password they belong to
    memo,       \* the cached floor and the file identity it was read under
    grant,      \* the setup grant: number and expiry
    tries,      \* failed logins, of the one address and of all
    thr,        \* the threads
    claims,     \* history: how many setups were told that they succeeded
    wall,       \* the time
    sleft       \* the plan: kind of each thread, outside events left

conVars == <<admin, sess, memo, grant, tries, thr, claims, wall, sleft>>

\* idle_ttl, _SETUP_GRANT_TTL, the limiter's per_ip_free and global_free, max_delay
\* and window, in the model's units; _PASSWORD_VERIFY_SLOTS.
IdleTtl     == 2
GrantTtl    == 1
FreeTries   == [ip |-> 0, all |-> 1]
MaxDelay    == 1
TryWindow   == 2
VerifySlots == 1

NoTries == [n |-> 0, until |-> 0, at |-> 0]

NoThread == [at |-> "new", sid |-> 0, pw |-> 0, rec |-> NoSession, key |-> 0,
             floor |-> 0, born |-> 0, floor0 |-> 0, idle |-> 0, again |-> FALSE]

\* Without an admin, or with one and a session of thread 0, which has ended.
ConInit ==
    /\ sleft \in SessionPlans
    /\ admin = [id |-> 1, set |-> sleft.set, pw |-> IF sleft.set THEN 1 ELSE 0,
                floor |-> 0]
    /\ sess = [t \in Threads \cup {0} |->
                 IF t = 0 /\ sleft.set
                 THEN [created |-> 1, seen |-> 1, pw |-> 1, real |-> 1] ELSE NoSession]
    /\ memo = [key |-> 0, floor |-> 0]
    /\ grant = NoSession
    /\ tries = [w \in {"ip", "all"} |-> NoTries]
    /\ thr = [t \in Threads |-> NoThread]
    /\ claims = 0
    /\ wall = 1

SSpend(e) == sleft[e] > 0 /\ sleft' = [sleft EXCEPT ![e] = @ - 1]

Is(t, kinds) == sleft.kind[t] \in kinds
Goes(t, step) == thr' = [thr EXCEPT ![t].at = step]
Answers(t, what) == thr' = [thr EXCEPT ![t] = [NoThread EXCEPT !.at = what]]

----------------------------------------------------------------------------
(* The limiter.                                                            *)

\* _expire: an address is forgotten a window after its last failure, the count of
\* all a window after it was begun.
Recent(w) == IF wall - tries[w].at >= TryWindow THEN [NoTries EXCEPT !.at = wall]
             ELSE tries[w]

\* retry_after.
MayTry == \A w \in {"ip", "all"} : Recent(w).until <= wall

\* failure: the delay doubles with every failure beyond the free ones.
Delayed(w) ==
    LET n == Recent(w).n + 1
        over == n - FreeTries[w] - 1
        delay == IF over < 0 THEN 0 ELSE IF 2 ^ over < MaxDelay THEN 2 ^ over ELSE MaxDelay
    IN  [n |-> n, until |-> wall + delay, at |-> IF w = "ip" THEN wall ELSE Recent(w).at]

TryFailed == tries' = [w \in {"ip", "all"} |-> Delayed(w)]
TrySucceeded == tries' = [tries EXCEPT !["ip"] = NoTries]

Verifying == {t \in Threads : thr[t].at = "verify" /\ thr[t].rec.set}
SlotFree == Cardinality(Verifying) < VerifySlots

----------------------------------------------------------------------------
(* Login and setup.                                                        *)

\* POST /api/login up to the verification: the limiter, then the default
\* credential (0) of a server without an admin, then the record is read.
Login(t, pw) ==
    /\ thr[t].at = "new" /\ Is(t, {"login"})
    /\ pw \in {0, admin.pw}
    /\ IF ~MayTry THEN Answers(t, "later") /\ UNCHANGED <<grant, tries>>
       ELSE IF ~admin.set /\ pw = 0
       THEN Goes(t, "mint") /\ TrySucceeded /\ UNCHANGED grant
       ELSE /\ IF SlotFree \/ ~admin.set
               THEN thr' = [thr EXCEPT ![t] = [NoThread EXCEPT !.at = "verify", !.pw = pw,
                                                               !.rec = admin]]
               ELSE Answers(t, "busy")
            /\ UNCHANGED <<grant, tries>>
    /\ UNCHANGED <<admin, sess, memo, claims, wall, sleft>>

\* _mint_setup_grant, when an admin may have been set meanwhile.
MintGrant(t) ==
    /\ thr[t].at = "mint"
    /\ grant' = [no |-> IF grant = NoSession THEN 1 ELSE grant.no + 1,
                 until |-> wall + GrantTtl]
    /\ Answers(t, "granted")
    /\ UNCHANGED <<admin, sess, memo, tries, claims, wall, sleft>>

\* verify_admin, against the record that was read.
Verify(t) ==
    /\ thr[t].at = "verify"
    /\ IF thr[t].rec.set /\ thr[t].pw = thr[t].rec.pw
       THEN Goes(t, "create") /\ UNCHANGED tries
       ELSE Answers(t, "bad") /\ TryFailed
    /\ UNCHANGED <<admin, sess, memo, grant, claims, wall, sleft>>

\* Mutant: the record is not compared again.
StillValid_Unchecked(t) == TRUE

\* GuiApp.login compares the record again under the store's lock.
StillValid(t) == admin = thr[t].rec

CreateSession(t) ==
    /\ thr[t].at = "create"
    /\ IF StillValid(t)
       THEN /\ sess' = [sess EXCEPT ![t] = [created |-> wall, seen |-> wall,
                                            pw |-> thr[t].pw, real |-> wall]]
            /\ TrySucceeded /\ Answers(t, "in")
       ELSE Answers(t, "bad") /\ TryFailed /\ UNCHANGED sess
    /\ UNCHANGED <<admin, memo, grant, claims, wall, sleft>>

Written(pw, floor) ==
    admin' = [id |-> admin.id + 1, set |-> TRUE, pw |-> pw, floor |-> floor]

\* POST /api/setup with the grant known by now; needs_setup is asked first,
\* without the lock.
Setup(t) ==
    /\ thr[t].at = "new" /\ Is(t, {"setup"})
    /\ grant # NoSession
    /\ IF admin.set THEN Answers(t, "conflict")
       ELSE thr' = [thr EXCEPT ![t].at = "claim", ![t].key = grant.no]
    /\ UNCHANGED <<admin, sess, memo, grant, tries, claims, wall, sleft>>

\* Mutant: only the first look decides.
Claimable_Stale(t) == grant # NoSession

Claimable(t) == ~admin.set /\ grant # NoSession

\* _claim_admin: one setup wins, with the latest grant, in time.
Claim(t) ==
    /\ thr[t].at = "claim"
    /\ IF Claimable(t) /\ grant.no = thr[t].key /\ wall < grant.until
       THEN Written(1, admin.floor) /\ claims' = claims + 1 /\ Answers(t, "set")
       ELSE Answers(t, "conflict") /\ UNCHANGED <<admin, claims>>
    /\ UNCHANGED <<sess, memo, grant, tries, wall, sleft>>

----------------------------------------------------------------------------
(* A request with a session.                                               *)

Used == {"work", "poll", "change", "revoke", "logout"}

\* Mutant: a poll keeps the session alive.
Touches_Always(t) == TRUE

\* parse_request: a GET marked as a poll does not.
Touches(t) == ~Is(t, {"poll"})

\* session_info, once when the request is parsed and once in its handler; first
\* SessionStore.get.
Look(t, s) ==
    /\ thr[t].at = "new" /\ Is(t, Used) /\ (thr[t].again => s = thr[t].sid)
    /\ ~thr[t].again => sess[s] # NoSession
    /\ IF sess[s] = NoSession THEN Answers(t, "refused") /\ UNCHANGED sess
       ELSE IF wall - sess[s].seen >= IdleTtl
       THEN sess' = [sess EXCEPT ![s] = NoSession] /\ Answers(t, "refused")
       ELSE /\ sess' = [sess EXCEPT ![s].seen = IF Touches(t) THEN wall ELSE @,
                                    ![s].real = IF Is(t, {"poll"}) THEN @ ELSE wall]
            /\ thr' = [thr EXCEPT ![t].at = "stat", ![t].sid = s, ![t].pw = admin.pw,
                          ![t].born = sess[s].created, ![t].floor0 = admin.floor,
                          ![t].idle = wall - sess[s].real]
    /\ UNCHANGED <<admin, memo, grant, tries, claims, wall, sleft>>

Admitted(t, floor) ==
    IF floor > 0 /\ thr[t].born <= floor
    THEN Answers(t, "refused") /\ sess' = [sess EXCEPT ![thr[t].sid] = NoSession]
    ELSE /\ thr' = [thr EXCEPT ![t].at = IF thr[t].again THEN "act" ELSE "new",
                               ![t].again = TRUE]
         /\ UNCHANGED sess

\* _sessions_not_before: the file's identity before anything is read; the cached
\* floor is good for that identity.
Stat(t) ==
    /\ thr[t].at = "stat"
    /\ IF memo.key = admin.id THEN Admitted(t, memo.floor)
       ELSE /\ thr' = [thr EXCEPT ![t].at = "load", ![t].key = admin.id]
            /\ UNCHANGED sess
    /\ UNCHANGED <<admin, memo, grant, tries, claims, wall, sleft>>

Load(t) ==
    /\ thr[t].at = "load"
    /\ thr' = [thr EXCEPT ![t].at = "keep", ![t].floor = admin.floor]
    /\ UNCHANGED <<admin, sess, memo, grant, tries, claims, wall, sleft>>

\* Mutant: the floor is kept under the identity the file has by now.
MemoKey_Late(t) == admin.id

MemoKey(t) == thr[t].key

Keep(t) ==
    /\ thr[t].at = "keep"
    /\ memo' = [key |-> MemoKey(t), floor |-> thr[t].floor]
    /\ Admitted(t, thr[t].floor)
    /\ UNCHANGED <<admin, grant, tries, claims, wall, sleft>>

\* Any other request is served from here on.
ServeCall(t) ==
    /\ thr[t].at = "act" /\ Is(t, {"work", "poll"})
    /\ Goes(t, "served")
    /\ UNCHANGED <<admin, sess, memo, grant, tries, claims, wall, sleft>>

Logout(t) ==
    /\ thr[t].at = "act" /\ Is(t, {"logout"})
    /\ sess' = [sess EXCEPT ![thr[t].sid] = NoSession]
    /\ Answers(t, "out")
    /\ UNCHANGED <<admin, memo, grant, tries, claims, wall, sleft>>

\* Mutant: the floor of an earlier reset is forgotten.
KeptFloor_None == 0

\* set_admin carries the floor over.
KeptFloor == admin.floor

\* POST /api/settings/password: under the store's lock the current password is
\* verified and the record written; the other sessions go afterwards.
ChangePassword(t) ==
    /\ thr[t].at = "act" /\ Is(t, {"change"})
    /\ IF ~SlotFree THEN Answers(t, "busy") /\ UNCHANGED <<admin, sess>>
       ELSE IF thr[t].pw # admin.pw THEN Answers(t, "bad") /\ UNCHANGED <<admin, sess>>
       ELSE /\ Written(admin.pw + 1, KeptFloor)
            /\ sess' = IF sess[thr[t].sid] = NoSession THEN sess
                       ELSE [sess EXCEPT ![thr[t].sid].pw = admin.pw + 1]
            /\ Goes(t, "revoke")
    /\ UNCHANGED <<memo, grant, tries, claims, wall, sleft>>

\* Mutant: the sessions in use are spared.
OtherSessions_Idle(t) == {s \in DOMAIN sess : s # thr[t].sid /\ \A u \in Threads : thr[u].sid # s}

OtherSessions(t) == DOMAIN sess \ {thr[t].sid}

\* revoke_other_sessions, after a change or asked for on its own.
RevokeOthers(t) ==
    /\ thr[t].at \in {"revoke", "act"} /\ (thr[t].at = "act" => Is(t, {"revoke"}))
    /\ sess' = [s \in DOMAIN sess |-> IF s \in OtherSessions(t) THEN NoSession ELSE sess[s]]
    /\ Answers(t, "changed")
    /\ UNCHANGED <<admin, memo, grant, tries, claims, wall, sleft>>

----------------------------------------------------------------------------
(* From outside.                                                           *)

\* iris-gui-admin, under the store's lock.
Reset ==
    /\ SSpend("reset")
    /\ Written(admin.pw + 1, wall)
    /\ UNCHANGED <<sess, memo, grant, tries, thr, claims, wall>>

Passes ==
    /\ SSpend("time")
    /\ wall' = wall + 1
    /\ UNCHANGED <<admin, sess, memo, grant, tries, thr, claims>>

Ended == {"later", "granted", "busy", "bad", "in", "set", "conflict", "refused",
          "served", "out", "changed", "dead"}

\* The management API restarts: sessions, grant, limiter and cache are memory.
ApiRestart ==
    /\ SSpend("crash")
    /\ sess' = [s \in DOMAIN sess |-> NoSession]
    /\ memo' = [key |-> 0, floor |-> 0]
    /\ grant' = NoSession
    /\ tries' = [w \in {"ip", "all"} |-> NoTries]
    /\ thr' = [t \in Threads |-> IF thr[t].at \in Ended \/ thr[t] = NoThread THEN thr[t]
                                 ELSE [NoThread EXCEPT !.at = "dead"]]
    /\ UNCHANGED <<admin, claims, wall>>

ConNext ==
    \/ \E t \in Threads :
         \/ \E pw \in {0, admin.pw} : Login(t, pw)
         \/ \E s \in DOMAIN sess : Look(t, s)
         \/ MintGrant(t) \/ Verify(t) \/ CreateSession(t) \/ Setup(t) \/ Claim(t)
         \/ Stat(t) \/ Load(t) \/ Keep(t) \/ ServeCall(t) \/ Logout(t)
         \/ ChangePassword(t) \/ RevokeOthers(t)
    \/ Reset \/ Passes \/ ApiRestart

----------------------------------------------------------------------------
(* Properties.                                                             *)

\* "existing console sessions invalidated" (gui_admin.py): a request that looked
\* its session up after a reset was written is not served with a session that is
\* not younger than the reset, whatever other threads cache meanwhile.
ResetRevokes ==
    \A t \in Threads : thr[t].at = "served" => thr[t].born > thr[t].floor0 \/ thr[t].floor0 = 0

\* "password changed; other sessions revoked": a session opened with an earlier
\* password lives on only under the floor of a reset, or while a change is about
\* to revoke it; a login that verified the old password opens none afterwards.
OldPasswordsAreOut ==
    \A s \in DOMAIN sess : sess[s] # NoSession =>
        \/ sess[s].pw = admin.pw
        \/ sess[s].created <= admin.floor
        \/ \E t \in Threads : thr[t].at = "revoke"

\* One of several setups at once is told that it succeeded.
SetupOnce == claims <= 1

\* A session that nobody has used for the idle time is not served, although a
\* page went on polling with it.
PollingDoesNotKeepAlive ==
    \A t \in Threads : thr[t].at \in {"stat", "load", "keep", "act", "served"}
                          => thr[t].idle < IdleTtl

\* What ends a session ends it: a reset, a change of the password or its idle time;
\* and the Console is set up once (gui_auth.py, gui_app.py, management_api.py).
ConsoleSafe == ResetRevokes /\ OldPasswordsAreOut /\ SetupOnce /\ PollingDoesNotKeepAlive

\* A change of the password does not reopen what an earlier reset closed.
FloorNeverFalls == admin'.floor >= admin.floor

=============================================================================
