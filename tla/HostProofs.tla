----------------------------- MODULE HostProofs -----------------------------
(***************************************************************************)
(* Proofs about what runs beside the server, for every value of the        *)
(* constants: the sessions of the Console, the export of the audit trail   *)
(* and the state files.                                                    *)
(***************************************************************************)
EXTENDS MCHost, TLAPS

----------------------------------------------------------------------------
(* The export.  What is written in two files, the destination and its       *)
(* password, belongs together at every step between the two writes: that is *)
(* what makes the promise inductive.                                        *)

Settings == [there : BOOLEAN, site : Sites \cup {"none"}, auto : BOOLEAN, ran : BOOLEAN]
SaverSteps == {"none", "pause", "secret", "write", "forget"}
Saves == [pc : SaverSteps, site : Sites \cup {"none"}, pw : Passwords \cup {"none"}, auto : BOOLEAN]
ExportRuns == [pc : {"none", "run", "record", "done"}, site : Sites \cup {"none"},
               pw : Passwords \cup {"none"}]

ExportTypes ==
    /\ settings \in Settings
    /\ secret \in Passwords \cup {"none"}
    /\ saver \in Saves
    /\ export \in [ExportJobs -> ExportRuns]
    /\ service \in [closing : BOOLEAN, drained : BOOLEAN]

\* A pair that an operator asked for, or one that cannot be used.
Sent(at, pw) == at = "none" \/ pw = "none" \/ <<at, pw>> \in agreed

\* The files belong together; so do those that a save is about to leave, and what an
\* export took from them.
PairsAgree ==
    /\ Sent(settings.site, secret)
    /\ saver.pc \in {"pause", "secret"} => Sent(saver.site, saver.pw)
    /\ saver.pc = "secret" => settings.site = "none"
    /\ saver.pc = "write" => Sent(saver.site, secret)
    /\ \A j \in ExportJobs : export[j].pc = "run" => Sent(export[j].site, export[j].pw)
    /\ used \subseteq agreed

\* After a drain nothing is under way.
DrainedRests ==
    service.drained => /\ service.closing /\ saver.pc = "none"
                       /\ \A j \in ExportJobs : export[j].pc = "none"

ExportInv == ExportTypes /\ PairsAgree /\ DrainedRests

LEMMA ExportStarts == ExportInit => ExportInv
  BY DEF ExportInit, ExportInv, ExportTypes, PairsAgree, DrainedRests, Sent, NoSettings, NoSave,
         NoExport, Settings, SaverSteps, Saves, ExportRuns

LEMMA SaveKeeps ==
  ASSUME ExportInv, NEW dest \in Sites, NEW pw \in Passwords \cup {"none"}, NEW auto \in BOOLEAN,
         SaveBegin(dest, pw, auto)
  PROVE  ExportInv'
<1>1. CASE UNCHANGED <<saver, agreed>>
  BY <1>1 DEF SaveBegin, ExportInv, ExportTypes, PairsAgree, DrainedRests, Sent
<1>2. CASE pw # "none" /\ ~UNCHANGED <<saver, agreed>>
  <2>1. saver' = [pc |-> "pause", site |-> dest, pw |-> pw, auto |-> auto]
        /\ agreed' = agreed \cup {<<dest, pw>>}
    BY <1>2 DEF SaveBegin, FirstStep
  <2>2. UNCHANGED <<settings, secret, export, service, used>> /\ ~service.closing
    BY DEF SaveBegin
  <2>3. ExportTypes'
    BY <2>1, <2>2 DEF ExportInv, ExportTypes, Saves, SaverSteps
  <2>4. PairsAgree'
    BY <2>1, <2>2 DEF ExportInv, PairsAgree, Sent
  <2> QED BY <2>1, <2>2, <2>3, <2>4 DEF ExportInv, DrainedRests
<1>3. CASE pw = "none" /\ ~UNCHANGED <<saver, agreed>>
  <2>1. saver' = [pc |-> "write", site |-> dest, pw |-> pw, auto |-> auto]
        /\ agreed' = agreed \cup {<<dest, q>> : q \in {r \in Passwords : <<settings.site, r>> \in agreed
                                                              /\ r = secret}}
        /\ settings.site # "none"
    BY <1>3 DEF SaveBegin, FirstStep, NeedsPassword, Configured
  <2>2. UNCHANGED <<settings, secret, export, service, used>> /\ ~service.closing
    BY DEF SaveBegin
  <2>3. ExportTypes'
    BY <2>1, <2>2 DEF ExportInv, ExportTypes, Saves, SaverSteps
  <2>4. secret # "none" => secret \in Passwords /\ <<settings.site, secret>> \in agreed
    BY <2>1 DEF ExportInv, ExportTypes, PairsAgree, Sent
  <2>5. secret # "none" => <<dest, secret>> \in agreed'
    BY <2>1, <2>4
  <2>6. PairsAgree'
    BY <2>1, <2>2, <2>5 DEF ExportInv, PairsAgree, Sent
  <2> QED BY <2>1, <2>2, <2>3, <2>6 DEF ExportInv, DrainedRests
<1> QED BY <1>1, <1>2, <1>3

LEMMA SaverKeeps ==
  ASSUME ExportInv, NEW ok \in BOOLEAN,
         SavePause(ok) \/ SaveSecret(ok) \/ SaveWrite(ok) \/ ClearSecret(ok)
  PROVE  ExportInv'
<1>1. CASE SavePause(ok)
  BY <1>1 DEF SavePause, ExportInv, ExportTypes, PairsAgree, DrainedRests, Sent, NoSettings, NoSave,
              Settings, Saves, SaverSteps
<1>2. CASE SaveSecret(ok)
  BY <1>2 DEF SaveSecret, ExportInv, ExportTypes, PairsAgree, DrainedRests, Sent, NoSave,
              Saves, SaverSteps
<1>3. CASE SaveWrite(ok)
  BY <1>3 DEF SaveWrite, ExportInv, ExportTypes, PairsAgree, DrainedRests, Sent, NoSave,
              Settings, Saves, SaverSteps
<1>4. CASE ClearSecret(ok)
  BY <1>4 DEF ClearSecret, ExportInv, ExportTypes, PairsAgree, DrainedRests, Sent, NoSave,
              Saves, SaverSteps
<1> QED BY <1>1, <1>2, <1>3, <1>4

LEMMA RunKeeps ==
  ASSUME ExportInv, NEW j \in ExportJobs, StartExport(j) \/ RunExport(j) \/ JobEnds(j)
  PROVE  ExportInv'
<1>1. CASE StartExport(j)
  BY <1>1 DEF StartExport, ExportInv, ExportTypes, PairsAgree, DrainedRests, Sent, Settings, ExportRuns
<1>2. CASE RunExport(j)
  BY <1>2 DEF RunExport, ExportInv, ExportTypes, PairsAgree, DrainedRests, Sent, ExportRuns
<1>3. CASE JobEnds(j)
  BY <1>3 DEF JobEnds, ExportInv, ExportTypes, PairsAgree, DrainedRests, Sent, ExportRuns, NoExport
<1> QED BY <1>1, <1>2, <1>3

LEMMA RecordKeeps ==
  ASSUME ExportInv, NEW j \in ExportJobs, NEW ok \in BOOLEAN, RecordResult(j, ok)
  PROVE  ExportInv'
<1>1. /\ settings' = settings \/ settings' = [settings EXCEPT !.ran = TRUE]
      /\ export' = [export EXCEPT ![j].pc = IF j = 0 THEN "none" ELSE "done"]
      /\ UNCHANGED <<secret, saver, service, agreed, used>> /\ export[j].pc = "record"
  BY DEF RecordResult, WithResult
<1>2. settings' \in Settings /\ settings'.site = settings.site
  BY <1>1 DEF ExportInv, ExportTypes, Settings
<1>3. /\ export' \in [ExportJobs -> ExportRuns] /\ export'[j].pc \in {"none", "done"}
      /\ \A i \in ExportJobs : i # j => export'[i] = export[i]
  BY <1>1 DEF ExportInv, ExportTypes, ExportRuns
<1>4. ExportTypes' /\ DrainedRests'
  BY <1>1, <1>2, <1>3 DEF ExportInv, ExportTypes, DrainedRests
<1>5. PairsAgree'
  BY <1>1, <1>2, <1>3 DEF ExportInv, PairsAgree, Sent
<1> QED BY <1>4, <1>5 DEF ExportInv

LEMMA AroundKeeps ==
  ASSUME ExportInv,
         ExportDue \/ DrainExports \/ ClearBegin \/ DayPasses \/ CloseExports \/ ProcessDies
  PROVE  ExportInv'
<1>1. CASE ExportDue
  BY <1>1, ExportAssumption DEF ExportDue, ExportInv, ExportTypes, PairsAgree, DrainedRests, Sent,
              Settings, ExportRuns
<1>2. CASE DrainExports
  BY <1>2 DEF DrainExports, SettingsFree, Active, ExportInv, ExportTypes, PairsAgree, DrainedRests, Sent
<1>3. CASE ClearBegin
  BY <1>3 DEF ClearBegin, ExportInv, ExportTypes, PairsAgree, DrainedRests, Sent,
              Settings, NoSettings, NoSave, Saves, SaverSteps
<1>4. CASE DayPasses
  BY <1>4 DEF DayPasses, ExportInv, ExportTypes, PairsAgree, DrainedRests, Sent, Settings
<1>5. CASE CloseExports
  BY <1>5 DEF CloseExports, ExportInv, ExportTypes, PairsAgree, DrainedRests, Sent
<1>6. CASE ProcessDies
  BY <1>6 DEF ProcessDies, ExportInv, ExportTypes, PairsAgree, DrainedRests, Sent,
              NoSave, NoExport, Saves, SaverSteps, ExportRuns
<1> QED BY <1>1, <1>2, <1>3, <1>4, <1>5, <1>6

LEMMA ExportKeeps ==
  ASSUME ExportInv, [ExportNext]_exportVars
  PROVE  ExportInv'
<1>1. CASE ExportNext
  BY <1>1, SaveKeeps, SaverKeeps, RunKeeps, RecordKeeps, AroundKeeps DEF ExportNext, ExportSteps
<1>2. CASE UNCHANGED exportVars
  BY <1>2 DEF exportVars, ExportInv, ExportTypes, PairsAgree, DrainedRests, Sent
<1> QED BY <1>1, <1>2

\* An export's steps change no destination, and none is left to run after a drain.
LEMMA ExportLeaves ==
  ASSUME ExportInv, [ExportNext]_exportVars
  PROVE  DrainIsFinal /\ ResultsChangeNoDestination
<1> DEFINE Leaves == DrainIsFinal /\ ResultsChangeNoDestination
<1> USE DEF ExportInv, ExportTypes, DrainedRests, DrainIsFinal, ResultsChangeNoDestination
<1>1. CASE UNCHANGED exportVars
  BY <1>1 DEF exportVars
<1>2. ASSUME NEW dest \in Sites, NEW pw \in Passwords \cup {"none"}, NEW auto \in BOOLEAN,
             SaveBegin(dest, pw, auto)
      PROVE  Leaves
  BY <1>2 DEF SaveBegin
<1>3. ASSUME NEW ok \in BOOLEAN, SavePause(ok) \/ SaveSecret(ok) \/ SaveWrite(ok) \/ ClearSecret(ok)
      PROVE  Leaves
  BY <1>3 DEF SavePause, SaveSecret, SaveWrite, ClearSecret
<1>4. ASSUME NEW j \in ExportJobs, StartExport(j) \/ RunExport(j) \/ JobEnds(j)
      PROVE  Leaves
  BY <1>4 DEF StartExport, RunExport, JobEnds
<1>5. ASSUME NEW j \in ExportJobs, NEW ok \in BOOLEAN, RecordResult(j, ok)
      PROVE  Leaves
  BY <1>5 DEF RecordResult, WithResult, Settings
<1>6. CASE ExportDue \/ DrainExports \/ ClearBegin \/ DayPasses \/ CloseExports \/ ProcessDies
  BY <1>6, ExportAssumption DEF ExportDue, DrainExports, ClearBegin, DayPasses, CloseExports, ProcessDies,
              Settings, NoSave, Active
<1> QED BY <1>1, <1>2, <1>3, <1>4, <1>5, <1>6 DEF ExportNext, ExportSteps

----------------------------------------------------------------------------
(* The sessions.  A thread works with what it read of the admin record some *)
(* steps ago, so the invariant says of each thread what its reading still   *)
(* means, by the record's identity and the floors, which only rise.         *)

AdminRecs == [id : Nat \ {0}, set : BOOLEAN, pw : Nat, floor : Nat]
SessionRecs == [created : Nat, seen : Nat, pw : Nat, real : Nat]
CallerSteps == Ended \cup {"new", "mint", "verify", "create", "claim", "stat", "load", "keep", "act",
                        "revoke"}
ThreadRecs == [at : CallerSteps, sid : Threads \cup {0}, pw : Nat, rec : AdminRecs \cup {NoSession},
               key : Nat, floor : Nat, born : Nat, floor0 : Nat, idle : Int, again : BOOLEAN]

ConTypes ==
    /\ admin \in AdminRecs
    /\ sess \in [Threads \cup {0} -> SessionRecs \cup {NoSession}]
    /\ memo \in [key : Nat, floor : Nat]
    /\ grant \in [no : Nat, until : Nat] \cup {NoSession}
    /\ thr \in [Threads -> ThreadRecs]
    /\ wall \in Nat /\ claims \in Nat

\* What a thread knows of the record it read and of the session it found.
ThreadKnows(r, a) ==
    /\ r.at \in {"stat", "load"} => r.floor0 <= a.floor
    /\ r.at \in {"load", "keep"} => r.key <= a.id
    /\ r.at = "keep" => /\ r.floor0 <= r.floor
                        /\ r.key = a.id => r.floor = a.floor
    /\ r.at \in {"act", "served"} => r.born > r.floor0 \/ r.floor0 = 0
    /\ r.at \in {"stat", "load", "keep", "act", "served"} => r.idle < IdleTtl
    /\ r.at \in {"verify", "create"} => r.rec \in AdminRecs
    /\ r.at = "create" => r.rec.set /\ r.pw = r.rec.pw

\* A session belongs to an admin and is not from the future.
SessionFits(s) ==
    sess[s] # NoSession =>
        /\ admin.set
        /\ sess[s].created <= wall
        /\ sess[s].real = sess[s].seen

\* A session of an earlier password is under the floor or about to be revoked by a
\* request of another session.
OldGoes(s) ==
    sess[s] # NoSession =>
        \/ sess[s].pw = admin.pw
        \/ sess[s].created <= admin.floor
        \/ \E t \in Threads : thr[t].at = "revoke" /\ thr[t].sid # s

FloorsFit ==
    /\ admin.floor <= wall
    /\ memo.key = admin.id => memo.floor = admin.floor
    /\ memo.key <= admin.id
    /\ claims = 0 \/ (claims = 1 /\ admin.set)

ConInv ==
    /\ ConTypes
    /\ \A t \in Threads : ThreadKnows(thr[t], admin)
    /\ \A s \in Threads \cup {0} : SessionFits(s)
    /\ \A s \in Threads \cup {0} : OldGoes(s)
    /\ FloorsFit

\* A thread that answers knows nothing any more.
Silent(what) == [NoThread EXCEPT !.at = what]

LEMMA SilentIsFine ==
  ASSUME NEW what \in CallerSteps, what \notin {"stat", "load", "keep", "act", "served", "verify", "create", "revoke"}
  PROVE  /\ Silent(what) \in ThreadRecs
         /\ Silent(what).at = what
         /\ \A a \in AdminRecs : ThreadKnows(Silent(what), a)
<1> DEFINE r == Silent(what)
<1>1. NoThread \in ThreadRecs
  BY DEF NoThread, ThreadRecs, CallerSteps
<1>2. r \in ThreadRecs /\ r.at = what
  BY <1>1 DEF ThreadRecs, Silent
<1> QED BY <1>2 DEF ThreadKnows

LEMMA AdminTyped == ConInv => admin \in AdminRecs
  BY DEF ConInv, ConTypes

LEMMA ConStarts == ConInit => ConInv
<1> SUFFICES ASSUME ConInit PROVE ConInv
  OBVIOUS
<1>1. sleft.set \in BOOLEAN
  BY SessionAssumption DEF ConInit
<1>2. ConTypes
  <2>1. admin \in AdminRecs
    BY <1>1 DEF ConInit, AdminRecs
  <2>2. sess \in [Threads \cup {0} -> SessionRecs \cup {NoSession}]
    BY DEF ConInit, SessionRecs
  <2>3. NoThread \in ThreadRecs
    BY DEF NoThread, ThreadRecs, CallerSteps
  <2>4. thr \in [Threads -> ThreadRecs]
    BY <2>3 DEF ConInit
  <2> QED BY <2>1, <2>2, <2>4 DEF ConInit, ConTypes
<1>3. \A t \in Threads : ThreadKnows(thr[t], admin)
  BY DEF ConInit, NoThread, ThreadKnows
<1>4. \A s \in Threads \cup {0} : SessionFits(s) /\ OldGoes(s)
  BY <1>1 DEF ConInit, SessionFits, OldGoes
<1>5. FloorsFit
  BY DEF ConInit, FloorsFit
<1> QED BY <1>2, <1>3, <1>4, <1>5 DEF ConInv

\* A step of one thread that leaves the files and the time alone: what is left to show.
LEMMA ThreadStep ==
  ASSUME ConInv, NEW t \in Threads, NEW r \in ThreadRecs, thr' = [thr EXCEPT ![t] = r],
         UNCHANGED <<admin, wall>>, ThreadKnows(r, admin)
  PROVE  /\ thr' \in [Threads -> ThreadRecs]
         /\ \A u \in Threads : ThreadKnows(thr'[u], admin')
         /\ \A u \in Threads : u # t => thr'[u] = thr[u]
         /\ thr'[t] = r
<1>1. thr \in [Threads -> ThreadRecs] BY DEF ConInv, ConTypes
<1>2. thr' \in [Threads -> ThreadRecs] /\ thr'[t] = r /\ \A u \in Threads : u # t => thr'[u] = thr[u]
  BY <1>1
<1>3. ASSUME NEW u \in Threads PROVE ThreadKnows(thr'[u], admin')
  <2>1. CASE u = t BY <2>1, <1>2 DEF ThreadKnows
  <2>2. CASE u # t BY <2>2, <1>2 DEF ThreadKnows, ConInv
  <2> QED BY <2>1, <2>2
<1> QED BY <1>2, <1>3

\* A thread that is not revoking and leaves the sessions alone.
LEMMA QuietStep ==
  ASSUME ConInv, NEW t \in Threads, NEW r \in ThreadRecs, thr' = [thr EXCEPT ![t] = r],
         UNCHANGED <<admin, sess, wall, claims>>, ThreadKnows(r, admin), thr[t].at # "revoke",
         grant' \in [no : Nat, until : Nat] \cup {NoSession},
         memo' \in [key : Nat, floor : Nat],
         memo'.key <= admin.id, memo'.key = admin.id => memo'.floor = admin.floor
  PROVE  ConInv'
<1>1. /\ thr' \in [Threads -> ThreadRecs]
      /\ \A u \in Threads : ThreadKnows(thr'[u], admin')
      /\ \A u \in Threads : u # t => thr'[u] = thr[u]
      /\ thr'[t] = r
  BY ThreadStep
<1>2. ConTypes' BY <1>1 DEF ConInv, ConTypes
<1>3. \A s \in Threads \cup {0} : SessionFits(s)'
  BY DEF ConInv, SessionFits
<1>4. \A s \in Threads \cup {0} : OldGoes(s)'
  BY <1>1 DEF ConInv, OldGoes
<1>5. FloorsFit' BY DEF ConInv, FloorsFit
<1> QED BY <1>1, <1>2, <1>3, <1>4, <1>5 DEF ConInv

LEMMA LoginKeeps ==
  ASSUME ConInv, NEW t \in Threads, NEW pw \in {0, admin.pw}, Login(t, pw)
  PROVE  ConInv'
<1>1. thr[t].at = "new" /\ UNCHANGED <<admin, sess, memo, claims, wall>> /\ grant' = grant
  BY DEF Login
<1>2. memo' \in [key : Nat, floor : Nat] /\ memo'.key <= admin.id
      /\ (memo'.key = admin.id => memo'.floor = admin.floor)
      /\ grant' \in [no : Nat, until : Nat] \cup {NoSession}
      /\ thr[t] \in ThreadRecs /\ admin \in AdminRecs
  BY <1>1 DEF ConInv, ConTypes, FloorsFit
<1>3. ASSUME NEW what \in {"later", "busy"}, thr' = [thr EXCEPT ![t] = Silent(what)]
      PROVE  ConInv'
  <2>1. Silent(what) \in ThreadRecs /\ ThreadKnows(Silent(what), admin)
    BY SilentIsFine, AdminTyped DEF CallerSteps, Ended
  <2> QED BY <1>1, <1>2, <1>3, <2>1, QuietStep
<1>4. ASSUME thr' = [thr EXCEPT ![t].at = "mint"]
      PROVE  ConInv'
  <2> DEFINE r == [thr[t] EXCEPT !.at = "mint"]
  <2>1. r \in ThreadRecs /\ r.at = "mint"
    BY <1>2 DEF ThreadRecs, CallerSteps
  <2>2. ThreadKnows(r, admin)
    BY <2>1 DEF ThreadKnows
  <2>3. thr' = [thr EXCEPT ![t] = r]
    BY <1>4
  <2> HIDE DEF r
  <2> QED BY <1>1, <1>2, <2>1, <2>2, <2>3, QuietStep
<1>5. ASSUME thr' = [thr EXCEPT ![t] = [NoThread EXCEPT !.at = "verify", !.pw = pw, !.rec = admin]]
      PROVE  ConInv'
  <2> DEFINE r == [NoThread EXCEPT !.at = "verify", !.pw = pw, !.rec = admin]
  <2>1. NoThread \in ThreadRecs
    BY DEF NoThread, ThreadRecs, CallerSteps
  <2>2. pw \in Nat
    BY <1>2 DEF AdminRecs
  <2>3. r \in ThreadRecs /\ r.at = "verify" /\ r.rec = admin
    BY <1>2, <2>1, <2>2 DEF ThreadRecs, CallerSteps
  <2>4. ThreadKnows(r, admin)
    BY <1>2, <2>3 DEF ThreadKnows
  <2> HIDE DEF r
  <2> QED BY <1>1, <1>2, <1>5, <2>3, <2>4, QuietStep DEF r
<1> QED BY <1>3, <1>4, <1>5 DEF Login, Answers, Goes, Silent

LEMMA SetupKeeps ==
  ASSUME ConInv, NEW t \in Threads, MintGrant(t) \/ Setup(t)
  PROVE  ConInv'
<1>1. thr[t].at # "revoke" /\ UNCHANGED <<admin, sess, memo, claims, wall>>
  BY DEF MintGrant, Setup
<1>2. memo' \in [key : Nat, floor : Nat] /\ memo'.key <= admin.id
      /\ (memo'.key = admin.id => memo'.floor = admin.floor)
      /\ grant \in [no : Nat, until : Nat] \cup {NoSession} /\ wall \in Nat
      /\ thr[t] \in ThreadRecs /\ admin \in AdminRecs
  BY <1>1 DEF ConInv, ConTypes, FloorsFit
<1>3. grant' \in [no : Nat, until : Nat] \cup {NoSession}
  BY <1>2 DEF MintGrant, Setup, GrantTtl
<1>4. ASSUME NEW what \in {"granted", "conflict"}, thr' = [thr EXCEPT ![t] = Silent(what)]
      PROVE  ConInv'
  <2>1. Silent(what) \in ThreadRecs /\ ThreadKnows(Silent(what), admin)
    BY SilentIsFine, AdminTyped DEF CallerSteps, Ended
  <2> QED BY <1>1, <1>2, <1>3, <1>4, <2>1, QuietStep
<1>5. ASSUME thr' = [thr EXCEPT ![t].at = "claim", ![t].key = grant.no], grant # NoSession
      PROVE  ConInv'
  <2> DEFINE r == [thr[t] EXCEPT !.at = "claim", !.key = grant.no]
  <2>1. r \in ThreadRecs /\ r.at = "claim"
    BY <1>2, <1>5 DEF ThreadRecs, CallerSteps
  <2>2. ThreadKnows(r, admin)
    BY <2>1 DEF ThreadKnows
  <2>3. thr' = [thr EXCEPT ![t] = r]
    BY <1>5, <1>2 DEF ConInv, ConTypes
  <2> HIDE DEF r
  <2> QED BY <1>1, <1>2, <1>3, <2>1, <2>2, <2>3, QuietStep
<1> QED BY <1>4, <1>5 DEF MintGrant, Setup, Answers, Silent

\* A thread that is not revoking and ends sessions or marks one as seen.
LEMMA SessionStep ==
  ASSUME ConInv, NEW t \in Threads, NEW r \in ThreadRecs, thr' = [thr EXCEPT ![t] = r],
         UNCHANGED <<admin, grant, wall, claims>>, ThreadKnows(r, admin), thr[t].at # "revoke",
         memo' \in [key : Nat, floor : Nat],
         memo'.key <= admin.id, memo'.key = admin.id => memo'.floor = admin.floor,
         sess' \in [Threads \cup {0} -> SessionRecs \cup {NoSession}],
         \A s \in Threads \cup {0} : sess'[s] # NoSession =>
            /\ sess[s] # NoSession
            /\ sess'[s].pw = sess[s].pw /\ sess'[s].created = sess[s].created
            /\ sess'[s].real = sess'[s].seen
  PROVE  ConInv'
<1>1. /\ thr' \in [Threads -> ThreadRecs]
      /\ \A u \in Threads : ThreadKnows(thr'[u], admin')
      /\ \A u \in Threads : u # t => thr'[u] = thr[u]
      /\ thr'[t] = r
  BY ThreadStep
<1>2. ConTypes' BY <1>1 DEF ConInv, ConTypes
<1>3. \A s \in Threads \cup {0} : SessionFits(s)'
  BY DEF ConInv, SessionFits
<1>4. \A s \in Threads \cup {0} : OldGoes(s)'
  BY <1>1 DEF ConInv, OldGoes
<1>5. FloorsFit' BY DEF ConInv, FloorsFit
<1> QED BY <1>1, <1>2, <1>3, <1>4, <1>5 DEF ConInv

\* A thread takes a step with its own record, and what it learns fits.
LEMMA GoesOn ==
  ASSUME ConInv, NEW t \in Threads, NEW r \in ThreadRecs, thr' = [thr EXCEPT ![t] = r],
         UNCHANGED <<admin, sess, memo, grant, claims, wall>>, ThreadKnows(r, admin), thr[t].at # "revoke"
  PROVE  ConInv'
  BY QuietStep DEF ConInv, ConTypes, FloorsFit

LEMMA VerifyKeeps ==
  ASSUME ConInv, NEW t \in Threads, Verify(t)
  PROVE  ConInv'
<1>1. thr[t].at = "verify" /\ UNCHANGED <<admin, sess, memo, grant, claims, wall>>
  BY DEF Verify
<1>2. thr[t] \in ThreadRecs /\ ThreadKnows(thr[t], admin) /\ thr \in [Threads -> ThreadRecs]
  BY DEF ConInv, ConTypes
<1>3. CASE thr[t].rec.set /\ thr[t].pw = thr[t].rec.pw
  <2> DEFINE r == [thr[t] EXCEPT !.at = "create"]
  <2>1. r \in ThreadRecs /\ r.at = "create" /\ r.rec = thr[t].rec /\ r.pw = thr[t].pw
    BY <1>2 DEF ThreadRecs, CallerSteps
  <2>2. ThreadKnows(r, admin)
    BY <1>1, <1>2, <1>3, <2>1 DEF ThreadKnows
  <2>3. thr' = [thr EXCEPT ![t] = r]
    BY <1>2, <1>3 DEF Verify, Goes
  <2> HIDE DEF r
  <2> QED BY <1>1, <2>1, <2>2, <2>3, GoesOn
<1>4. CASE ~(thr[t].rec.set /\ thr[t].pw = thr[t].rec.pw)
  <2>1. thr' = [thr EXCEPT ![t] = Silent("bad")]
    BY <1>4 DEF Verify, Answers, Silent
  <2>2. Silent("bad") \in ThreadRecs /\ ThreadKnows(Silent("bad"), admin)
    BY SilentIsFine, AdminTyped DEF CallerSteps, Ended
  <2> QED BY <1>1, <2>1, <2>2, GoesOn
<1> QED BY <1>3, <1>4

LEMMA CreateKeeps ==
  ASSUME ConInv, NEW t \in Threads, CreateSession(t)
  PROVE  ConInv'
<1>1. thr[t].at = "create" /\ UNCHANGED <<admin, memo, grant, claims, wall>>
  BY DEF CreateSession
<1>2. thr[t] \in ThreadRecs /\ ThreadKnows(thr[t], admin) /\ admin \in AdminRecs /\ wall \in Nat
      /\ sess \in [Threads \cup {0} -> SessionRecs \cup {NoSession}]
  BY DEF ConInv, ConTypes
<1>3. CASE StillValid(t)
  <2> DEFINE n == [created |-> wall, seen |-> wall, pw |-> thr[t].pw, real |-> wall]
  <2>1. thr' = [thr EXCEPT ![t] = Silent("in")] /\ sess' = [sess EXCEPT ![t] = n]
    BY <1>3 DEF CreateSession, Answers, Silent
  <2>2. Silent("in") \in ThreadRecs /\ ThreadKnows(Silent("in"), admin)
    BY SilentIsFine, AdminTyped DEF CallerSteps, Ended
  <2>3. n \in SessionRecs
    BY <1>2 DEF SessionRecs, ThreadRecs
  <2>4. admin.set /\ n.pw = admin.pw /\ n.created = wall /\ n.real = n.seen
    BY <1>1, <1>2, <1>3 DEF StillValid, ThreadKnows
  <2> HIDE DEF n
  <2>5. /\ thr' \in [Threads -> ThreadRecs]
        /\ \A u \in Threads : ThreadKnows(thr'[u], admin')
        /\ \A u \in Threads : u # t => thr'[u] = thr[u]
    BY <1>1, <2>1, <2>2, ThreadStep
  <2>6. sess' \in [Threads \cup {0} -> SessionRecs \cup {NoSession}] /\ sess'[t] = n
        /\ \A s \in Threads \cup {0} : s # t => sess'[s] = sess[s]
    BY <1>2, <2>1, <2>3
  <2>7. ConTypes'
    BY <1>1, <2>5, <2>6 DEF ConInv, ConTypes
  <2>8. \A s \in Threads \cup {0} : SessionFits(s)'
    BY <1>1, <1>2, <2>4, <2>6 DEF ConInv, SessionFits
  <2>9. \A s \in Threads \cup {0} : OldGoes(s)'
    BY <1>1, <2>4, <2>5, <2>6 DEF ConInv, OldGoes
  <2>10. FloorsFit'
    BY <1>1 DEF ConInv, FloorsFit
  <2> QED BY <2>5, <2>7, <2>8, <2>9, <2>10 DEF ConInv
<1>4. CASE ~StillValid(t)
  <2>1. thr' = [thr EXCEPT ![t] = Silent("bad")] /\ sess' = sess
    BY <1>4 DEF CreateSession, Answers, Silent
  <2>2. Silent("bad") \in ThreadRecs /\ ThreadKnows(Silent("bad"), admin)
    BY SilentIsFine, AdminTyped DEF CallerSteps, Ended
  <2> QED BY <1>1, <2>1, <2>2, GoesOn
<1> QED BY <1>3, <1>4

LEMMA LookKeeps ==
  ASSUME ConInv, NEW t \in Threads, NEW s \in DOMAIN sess, Look(t, s)
  PROVE  ConInv'
<1>1. thr[t].at = "new" /\ UNCHANGED <<admin, memo, grant, claims, wall>>
  BY DEF Look
<1>2. thr[t] \in ThreadRecs /\ admin \in AdminRecs /\ wall \in Nat
      /\ sess \in [Threads \cup {0} -> SessionRecs \cup {NoSession}]
      /\ thr \in [Threads -> ThreadRecs]
      /\ memo' \in [key : Nat, floor : Nat] /\ memo'.key <= admin.id
      /\ (memo'.key = admin.id => memo'.floor = admin.floor)
  BY <1>1 DEF ConInv, ConTypes, FloorsFit
<1>3. s \in Threads \cup {0} /\ \A q \in Threads \cup {0} : SessionFits(q)
  BY <1>2 DEF ConInv
<1>4. Silent("refused") \in ThreadRecs /\ ThreadKnows(Silent("refused"), admin)
  BY SilentIsFine, AdminTyped DEF CallerSteps, Ended
<1>5. CASE sess[s] = NoSession
  BY <1>1, <1>4, <1>5, GoesOn DEF Look, Answers, Silent
<1>6. CASE sess[s] # NoSession /\ wall - sess[s].seen >= IdleTtl
  <2>1. sess' = [sess EXCEPT ![s] = NoSession] /\ thr' = [thr EXCEPT ![t] = Silent("refused")]
    BY <1>6 DEF Look, Answers, Silent
  <2>2. sess' \in [Threads \cup {0} -> SessionRecs \cup {NoSession}]
    BY <1>2, <2>1
  <2>3. \A q \in Threads \cup {0} : sess'[q] # NoSession => sess'[q] = sess[q] /\ sess[q].real = sess[q].seen
    BY <1>2, <1>3, <2>1 DEF SessionFits
  <2> QED BY <1>1, <1>2, <1>4, <2>1, <2>2, <2>3, SessionStep
<1>7. CASE sess[s] # NoSession /\ ~(wall - sess[s].seen >= IdleTtl)
  <2>0. sess[s] \in SessionRecs /\ sess[s].real = sess[s].seen
    BY <1>2, <1>3, <1>7 DEF SessionFits
  <2> DEFINE q == [sess[s] EXCEPT !.seen = IF Touches(t) THEN wall ELSE @,
                                  !.real = IF Is(t, {"poll"}) THEN @ ELSE wall]
             r == [thr[t] EXCEPT !.at = "stat", !.sid = s, !.pw = admin.pw,
                          !.born = sess[s].created, !.floor0 = admin.floor,
                          !.idle = wall - sess[s].real]
  <2>1. sess' = [sess EXCEPT ![s] = q]
    BY <1>2, <1>7 DEF Look
  <2>2. thr' = [thr EXCEPT ![t] = r]
    BY <1>2, <1>7 DEF Look
  <2>3. q \in SessionRecs /\ q.pw = sess[s].pw /\ q.created = sess[s].created /\ q.real = q.seen
    BY <1>2, <2>0 DEF SessionRecs, Touches
  <2>4. r \in ThreadRecs /\ r.at = "stat" /\ r.floor0 = admin.floor /\ r.idle = wall - sess[s].real
    <3>1. admin.pw \in Nat /\ admin.floor \in Nat
      BY <1>2 DEF AdminRecs
    <3>2. sess[s].created \in Nat /\ wall - sess[s].real \in Int
      BY <1>2, <2>0 DEF SessionRecs
    <3> QED BY <1>2, <1>3, <3>1, <3>2 DEF ThreadRecs, CallerSteps
  <2>5. ThreadKnows(r, admin)
    <3>1. wall - sess[s].real < IdleTtl
      BY <1>2, <1>7, <2>0 DEF SessionRecs, IdleTtl
    <3>2. admin.floor <= admin.floor
      BY <1>2 DEF AdminRecs
    <3> QED BY <2>4, <3>1, <3>2 DEF ThreadKnows
  <2> HIDE DEF q, r
  <2>6. sess' \in [Threads \cup {0} -> SessionRecs \cup {NoSession}]
    BY <1>2, <2>1, <2>3
  <2>7. \A p \in Threads \cup {0} : sess'[p] # NoSession =>
            /\ sess[p] # NoSession
            /\ sess'[p].pw = sess[p].pw /\ sess'[p].created = sess[p].created
            /\ sess'[p].real = sess'[p].seen
    BY <1>2, <1>3, <1>7, <2>1, <2>3 DEF SessionFits
  <2> QED BY <1>1, <1>2, <2>2, <2>4, <2>5, <2>6, <2>7, SessionStep
<1> QED BY <1>5, <1>6, <1>7

LEMMA AdmittedKeeps ==
  ASSUME ConInv, NEW t \in Threads, NEW floor \in Nat, thr[t].at \in {"stat", "keep"},
         UNCHANGED <<admin, grant, wall, claims>>,
         memo' \in [key : Nat, floor : Nat],
         memo'.key <= admin.id, memo'.key = admin.id => memo'.floor = admin.floor,
         thr[t].floor0 <= floor, Admitted(t, floor)
  PROVE  ConInv'
<1>1. thr[t] \in ThreadRecs /\ ThreadKnows(thr[t], admin)
      /\ sess \in [Threads \cup {0} -> SessionRecs \cup {NoSession}]
      /\ thr \in [Threads -> ThreadRecs]
      /\ \A q \in Threads \cup {0} : SessionFits(q)
  BY DEF ConInv, ConTypes
<1>2. CASE floor > 0 /\ thr[t].born <= floor
  <2>1. sess' = [sess EXCEPT ![thr[t].sid] = NoSession] /\ thr' = [thr EXCEPT ![t] = Silent("refused")]
    BY <1>2 DEF Admitted, Answers, Silent
  <2>2. Silent("refused") \in ThreadRecs /\ ThreadKnows(Silent("refused"), admin)
    BY SilentIsFine, AdminTyped DEF CallerSteps, Ended
  <2>3. sess' \in [Threads \cup {0} -> SessionRecs \cup {NoSession}]
    BY <1>1, <2>1
  <2>4. \A q \in Threads \cup {0} : sess'[q] # NoSession => sess'[q] = sess[q] /\ sess[q].real = sess[q].seen
    BY <1>1, <2>1 DEF SessionFits
  <2> QED BY <2>1, <2>2, <2>3, <2>4, SessionStep
<1>3. CASE ~(floor > 0 /\ thr[t].born <= floor)
  <2> DEFINE r == [thr[t] EXCEPT !.at = IF thr[t].again THEN "act" ELSE "new", !.again = TRUE]
  <2>1. thr' = [thr EXCEPT ![t] = r] /\ sess' = sess
    BY <1>1, <1>3 DEF Admitted
  <2>2. r \in ThreadRecs /\ r.at \in {"act", "new"} /\ r.born = thr[t].born /\ r.floor0 = thr[t].floor0
        /\ r.idle = thr[t].idle
    BY <1>1 DEF ThreadRecs, CallerSteps
  <2>3. thr[t].born > thr[t].floor0 \/ thr[t].floor0 = 0
    BY <1>1, <1>3 DEF ThreadRecs
  <2>4. ThreadKnows(r, admin)
    BY <1>1, <2>2, <2>3 DEF ThreadKnows
  <2> HIDE DEF r
  <2>5. grant' \in [no : Nat, until : Nat] \cup {NoSession}
    BY DEF ConInv, ConTypes
  <2> QED BY <2>1, <2>2, <2>4, <2>5, QuietStep
<1> QED BY <1>2, <1>3

LEMMA FloorKeeps ==
  ASSUME ConInv, NEW t \in Threads, Stat(t) \/ Load(t) \/ Keep(t)
  PROVE  ConInv'
<1>1. thr[t] \in ThreadRecs /\ ThreadKnows(thr[t], admin) /\ thr \in [Threads -> ThreadRecs]
      /\ memo \in [key : Nat, floor : Nat] /\ memo.key <= admin.id
      /\ (memo.key = admin.id => memo.floor = admin.floor) /\ admin \in AdminRecs
  BY DEF ConInv, ConTypes, FloorsFit
<1>2. admin.id \in Nat /\ admin.floor \in Nat
  BY <1>1 DEF AdminRecs
<1>3. CASE Stat(t) /\ memo.key = admin.id
  <2>1. thr[t].floor0 <= memo.floor /\ memo.floor \in Nat
    BY <1>1, <1>3 DEF Stat, ThreadKnows
  <2> QED BY <1>1, <1>3, <2>1, AdmittedKeeps DEF Stat
<1>4. CASE Stat(t) /\ memo.key # admin.id
  <2> DEFINE r == [thr[t] EXCEPT !.at = "load", !.key = admin.id]
  <2>1. thr' = [thr EXCEPT ![t] = r] /\ UNCHANGED <<admin, sess, memo, grant, claims, wall>>
        /\ thr[t].at = "stat"
    BY <1>1, <1>4 DEF Stat
  <2>2. r \in ThreadRecs /\ r.at = "load" /\ r.key = admin.id /\ r.floor0 = thr[t].floor0
        /\ r.idle = thr[t].idle
    BY <1>1, <1>2 DEF ThreadRecs, CallerSteps
  <2>3. ThreadKnows(r, admin)
    BY <1>1, <1>2, <2>1, <2>2 DEF ThreadKnows
  <2> HIDE DEF r
  <2> QED BY <2>1, <2>2, <2>3, GoesOn
<1>5. CASE Load(t)
  <2> DEFINE r == [thr[t] EXCEPT !.at = "keep", !.floor = admin.floor]
  <2>1. thr' = [thr EXCEPT ![t] = r] /\ UNCHANGED <<admin, sess, memo, grant, claims, wall>>
        /\ thr[t].at = "load"
    BY <1>1, <1>5 DEF Load
  <2>2. r \in ThreadRecs /\ r.at = "keep" /\ r.key = thr[t].key /\ r.floor = admin.floor
        /\ r.floor0 = thr[t].floor0 /\ r.idle = thr[t].idle
    BY <1>1, <1>2 DEF ThreadRecs, CallerSteps
  <2>3. ThreadKnows(r, admin)
    BY <1>1, <1>2, <2>1, <2>2 DEF ThreadKnows
  <2> HIDE DEF r
  <2> QED BY <2>1, <2>2, <2>3, GoesOn
<1>6. CASE Keep(t)
  <2>1. thr[t].at = "keep" /\ memo' = [key |-> thr[t].key, floor |-> thr[t].floor]
        /\ Admitted(t, thr[t].floor) /\ UNCHANGED <<admin, grant, wall, claims>>
    BY <1>6 DEF Keep, MemoKey
  <2>2. thr[t].floor \in Nat /\ thr[t].key \in Nat
    BY <1>1 DEF ThreadRecs
  <2>3. thr[t].floor0 <= thr[t].floor /\ thr[t].key <= admin.id
        /\ (thr[t].key = admin.id => thr[t].floor = admin.floor)
    BY <1>1, <2>1 DEF ThreadKnows
  <2>4. memo' \in [key : Nat, floor : Nat] /\ memo'.key = thr[t].key /\ memo'.floor = thr[t].floor
    BY <2>1, <2>2
  <2> QED BY <2>1, <2>2, <2>3, <2>4, AdmittedKeeps
<1> QED BY <1>3, <1>4, <1>5, <1>6

LEMMA ServeKeeps ==
  ASSUME ConInv, NEW t \in Threads, ServeCall(t) \/ Logout(t)
  PROVE  ConInv'
<1>1. thr[t] \in ThreadRecs /\ ThreadKnows(thr[t], admin) /\ thr \in [Threads -> ThreadRecs]
      /\ sess \in [Threads \cup {0} -> SessionRecs \cup {NoSession}]
      /\ \A q \in Threads \cup {0} : SessionFits(q)
      /\ memo \in [key : Nat, floor : Nat] /\ memo.key <= admin.id
      /\ (memo.key = admin.id => memo.floor = admin.floor)
  BY DEF ConInv, ConTypes, FloorsFit
<1>2. thr[t].at = "act" /\ UNCHANGED <<admin, memo, grant, claims, wall>>
  BY DEF ServeCall, Logout
<1>3. CASE ServeCall(t)
  <2> DEFINE r == [thr[t] EXCEPT !.at = "served"]
  <2>1. thr' = [thr EXCEPT ![t] = r] /\ sess' = sess
    BY <1>1, <1>3 DEF ServeCall, Goes
  <2>2. r \in ThreadRecs /\ r.at = "served" /\ r.born = thr[t].born /\ r.floor0 = thr[t].floor0
        /\ r.idle = thr[t].idle
    BY <1>1 DEF ThreadRecs, CallerSteps, Ended
  <2>3. ThreadKnows(r, admin)
    BY <1>1, <1>2, <2>2 DEF ThreadKnows
  <2> HIDE DEF r
  <2> QED BY <1>2, <2>1, <2>2, <2>3, GoesOn
<1>4. CASE Logout(t)
  <2>1. sess' = [sess EXCEPT ![thr[t].sid] = NoSession] /\ thr' = [thr EXCEPT ![t] = Silent("out")]
    BY <1>4 DEF Logout, Answers, Silent
  <2>2. Silent("out") \in ThreadRecs /\ ThreadKnows(Silent("out"), admin)
    BY SilentIsFine, AdminTyped DEF CallerSteps, Ended
  <2>3. sess' \in [Threads \cup {0} -> SessionRecs \cup {NoSession}]
    BY <1>1, <2>1
  <2>4. \A q \in Threads \cup {0} : sess'[q] # NoSession => sess'[q] = sess[q] /\ sess[q].real = sess[q].seen
    BY <1>1, <2>1 DEF SessionFits
  <2> QED BY <1>1, <1>2, <2>1, <2>2, <2>3, <2>4, SessionStep
<1> QED BY <1>3, <1>4

\* A new record has a new identity and a floor that is not lower: what threads and
\* the cache know of the old one still fits.
LEMMA RecordStep ==
  ASSUME ConInv, admin' \in AdminRecs, admin'.id = admin.id + 1, admin.floor <= admin'.floor
  PROVE  \A r \in ThreadRecs : ThreadKnows(r, admin) => ThreadKnows(r, admin')
<1>1. admin \in AdminRecs
  BY DEF ConInv, ConTypes
<1>2. admin.id \in Nat /\ admin.floor \in Nat /\ admin'.id \in Nat /\ admin'.floor \in Nat
  BY <1>1 DEF AdminRecs
<1>3. SUFFICES ASSUME NEW r \in ThreadRecs, ThreadKnows(r, admin) PROVE ThreadKnows(r, admin')
  OBVIOUS
<1>4. r.floor0 \in Nat /\ r.key \in Nat
  BY DEF ThreadRecs
<1> QED BY <1>2, <1>3, <1>4 DEF ThreadKnows

LEMMA ClaimKeeps ==
  ASSUME ConInv, NEW t \in Threads, Claim(t)
  PROVE  ConInv'
<1>1. thr[t] \in ThreadRecs /\ thr \in [Threads -> ThreadRecs] /\ admin \in AdminRecs
      /\ (\A u \in Threads : ThreadKnows(thr[u], admin)) /\ claims \in Nat
      /\ \A q \in Threads \cup {0} : SessionFits(q)
  BY DEF ConInv, ConTypes
<1>2. thr[t].at = "claim" /\ UNCHANGED <<sess, memo, grant, wall>>
  BY DEF Claim
<1>3. CASE Claimable(t) /\ grant.no = thr[t].key /\ wall < grant.until
  <2>1. /\ admin' = [id |-> admin.id + 1, set |-> TRUE, pw |-> 1, floor |-> admin.floor]
        /\ claims' = claims + 1 /\ thr' = [thr EXCEPT ![t] = Silent("set")] /\ ~admin.set
    BY <1>3 DEF Claim, Claimable, Written, Answers, Silent
  <2>2. admin.id \in Nat \ {0} /\ admin.floor \in Nat
    BY <1>1 DEF AdminRecs
  <2>3. admin' \in AdminRecs /\ admin'.id = admin.id + 1 /\ admin'.floor = admin.floor /\ admin'.set
    BY <2>1, <2>2 DEF AdminRecs
  <2>4. Silent("set") \in ThreadRecs /\ ThreadKnows(Silent("set"), admin)
    BY SilentIsFine, AdminTyped DEF CallerSteps, Ended
  <2>5. thr' \in [Threads -> ThreadRecs] /\ \A u \in Threads : ThreadKnows(thr'[u], admin)
    BY <1>1, <2>1, <2>4
  <2>6. \A u \in Threads : ThreadKnows(thr'[u], admin')
    <3>1. \A r \in ThreadRecs : ThreadKnows(r, admin) => ThreadKnows(r, admin')
      BY <2>2, <2>3, RecordStep
    <3> QED BY <2>5, <3>1
  <2>7. \A s \in Threads \cup {0} : sess[s] = NoSession
    BY <1>1, <2>1 DEF SessionFits
  <2>8. \A s \in Threads \cup {0} : SessionFits(s)' /\ OldGoes(s)'
    BY <1>2, <2>7 DEF SessionFits, OldGoes
  <2>9. FloorsFit'
    BY <1>1, <1>2, <2>1, <2>2, <2>3 DEF ConInv, FloorsFit, ConTypes
  <2>10. ConTypes'
    BY <1>1, <1>2, <2>1, <2>3, <2>5 DEF ConInv, ConTypes
  <2> QED BY <2>6, <2>8, <2>9, <2>10 DEF ConInv
<1>4. CASE ~(Claimable(t) /\ grant.no = thr[t].key /\ wall < grant.until)
  <2>1. thr' = [thr EXCEPT ![t] = Silent("conflict")] /\ UNCHANGED <<admin, claims>>
    BY <1>4 DEF Claim, Answers, Silent
  <2>2. Silent("conflict") \in ThreadRecs /\ ThreadKnows(Silent("conflict"), admin)
    BY SilentIsFine, AdminTyped DEF CallerSteps, Ended
  <2> QED BY <1>2, <2>1, <2>2, GoesOn
<1> QED BY <1>3, <1>4

LEMMA ChangeKeeps ==
  ASSUME ConInv, NEW t \in Threads, ChangePassword(t)
  PROVE  ConInv'
<1>1. thr[t] \in ThreadRecs /\ thr \in [Threads -> ThreadRecs] /\ admin \in AdminRecs
      /\ sess \in [Threads \cup {0} -> SessionRecs \cup {NoSession}]
      /\ (\A u \in Threads : ThreadKnows(thr[u], admin))
      /\ (\A q \in Threads \cup {0} : SessionFits(q) /\ OldGoes(q))
  BY DEF ConInv, ConTypes
<1>2. thr[t].at = "act" /\ UNCHANGED <<memo, grant, claims, wall>>
  BY DEF ChangePassword
<1>3. CASE SlotFree /\ thr[t].pw = admin.pw
  <2> DEFINE s == thr[t].sid
             q == [sess[s] EXCEPT !.pw = admin.pw + 1]
             r == [thr[t] EXCEPT !.at = "revoke"]
  <2>1. /\ admin' = [id |-> admin.id + 1, set |-> TRUE, pw |-> admin.pw + 1, floor |-> admin.floor]
        /\ sess' = IF sess[s] = NoSession THEN sess ELSE [sess EXCEPT ![s] = q]
        /\ thr' = [thr EXCEPT ![t] = r]
    BY <1>1, <1>3 DEF ChangePassword, Written, KeptFloor, Goes
  <2>2. admin.id \in Nat \ {0} /\ admin.floor \in Nat /\ admin.pw \in Nat
    BY <1>1 DEF AdminRecs
  <2>3. admin' \in AdminRecs /\ admin'.id = admin.id + 1 /\ admin'.floor = admin.floor /\ admin'.set
        /\ admin'.pw = admin.pw + 1
    BY <2>1, <2>2 DEF AdminRecs
  <2>4. s \in Threads \cup {0}
    BY <1>1 DEF ThreadRecs
  <2>5. r \in ThreadRecs /\ r.at = "revoke" /\ r.sid = s
    BY <1>1 DEF ThreadRecs, CallerSteps
  <2>6. sess[s] # NoSession => q \in SessionRecs /\ q.pw = admin'.pw /\ q.created = sess[s].created
                               /\ q.real = sess[s].real /\ q.seen = sess[s].seen
    BY <1>1, <2>2, <2>3, <2>4 DEF SessionRecs
  <2>7. ThreadKnows(r, admin)
    BY <2>5 DEF ThreadKnows
  <2> HIDE DEF s, q, r
  <2>8. thr' \in [Threads -> ThreadRecs] /\ \A u \in Threads : ThreadKnows(thr'[u], admin)
    BY <1>1, <2>1, <2>5, <2>7
  <2>9. \A u \in Threads : ThreadKnows(thr'[u], admin')
    <3>1. \A w \in ThreadRecs : ThreadKnows(w, admin) => ThreadKnows(w, admin')
      BY <2>2, <2>3, RecordStep
    <3> QED BY <2>8, <3>1
  <2>10. sess' \in [Threads \cup {0} -> SessionRecs \cup {NoSession}]
         /\ \A p \in Threads \cup {0} : p # s => sess'[p] = sess[p]
    BY <1>1, <2>1, <2>6
  <2>11. sess'[s] # NoSession => sess[s] # NoSession /\ sess'[s] = q
    BY <1>1, <2>1, <2>4
  <2>12. \A p \in Threads \cup {0} : SessionFits(p)'
    BY <1>1, <1>2, <2>3, <2>6, <2>10, <2>11 DEF SessionFits
  <2>13. thr'[t].at = "revoke" /\ thr'[t].sid = s
    BY <1>1, <2>1, <2>5
  <2>14. \A p \in Threads \cup {0} : OldGoes(p)'
    <3>1. \A p \in Threads \cup {0} : p # s => OldGoes(p)'
      BY <2>13 DEF OldGoes
    <3>2. ASSUME NEW p \in Threads \cup {0}, p = s PROVE OldGoes(p)'
      BY <2>6, <2>11, <3>2 DEF OldGoes
    <3> QED BY <3>1, <3>2
  <2>15. FloorsFit'
    BY <1>1, <1>2, <2>2, <2>3 DEF ConInv, FloorsFit, ConTypes
  <2>16. ConTypes'
    BY <1>2, <2>3, <2>8, <2>10 DEF ConInv, ConTypes
  <2> QED BY <2>9, <2>12, <2>14, <2>15, <2>16 DEF ConInv
<1>4. CASE ~(SlotFree /\ thr[t].pw = admin.pw)
  <2>1. PICK what \in {"busy", "bad"} : thr' = [thr EXCEPT ![t] = Silent(what)]
    BY <1>4 DEF ChangePassword, Answers, Silent
  <2>2. UNCHANGED <<admin, sess>>
    BY <1>4 DEF ChangePassword
  <2>3. Silent(what) \in ThreadRecs /\ ThreadKnows(Silent(what), admin)
    BY SilentIsFine, AdminTyped DEF CallerSteps, Ended
  <2> QED BY <1>2, <2>1, <2>2, <2>3, GoesOn
<1> QED BY <1>3, <1>4

LEMMA RevokeKeeps ==
  ASSUME ConInv, NEW t \in Threads, RevokeOthers(t)
  PROVE  ConInv'
<1>1. thr[t] \in ThreadRecs /\ thr \in [Threads -> ThreadRecs] /\ admin \in AdminRecs
      /\ sess \in [Threads \cup {0} -> SessionRecs \cup {NoSession}]
      /\ (\A q \in Threads \cup {0} : SessionFits(q) /\ OldGoes(q))
  BY DEF ConInv, ConTypes
<1>2. /\ UNCHANGED <<admin, memo, grant, claims, wall>>
      /\ thr' = [thr EXCEPT ![t] = Silent("changed")]
      /\ sess' = [p \in Threads \cup {0} |-> IF p # thr[t].sid THEN NoSession ELSE sess[p]]
  BY <1>1 DEF RevokeOthers, OtherSessions, Answers, Silent
<1>3. Silent("changed") \in ThreadRecs /\ ThreadKnows(Silent("changed"), admin)
  BY SilentIsFine, AdminTyped DEF CallerSteps, Ended
<1>4. /\ thr' \in [Threads -> ThreadRecs]
      /\ \A u \in Threads : ThreadKnows(thr'[u], admin')
      /\ \A u \in Threads : u # t => thr'[u] = thr[u]
  BY <1>2, <1>3, ThreadStep
<1>5. sess' \in [Threads \cup {0} -> SessionRecs \cup {NoSession}]
      /\ \A p \in Threads \cup {0} : sess'[p] # NoSession => p = thr[t].sid /\ sess'[p] = sess[p]
  BY <1>1, <1>2
<1>6. \A p \in Threads \cup {0} : SessionFits(p)'
  BY <1>1, <1>2, <1>5 DEF SessionFits
<1>7. \A p \in Threads \cup {0} : OldGoes(p)'
  BY <1>1, <1>2, <1>4, <1>5 DEF OldGoes
<1>8. FloorsFit' BY <1>2 DEF ConInv, FloorsFit
<1>9. ConTypes' BY <1>2, <1>4, <1>5 DEF ConInv, ConTypes
<1> QED BY <1>4, <1>6, <1>7, <1>8, <1>9 DEF ConInv

LEMMA OutsideKeeps ==
  ASSUME ConInv, Reset \/ Passes \/ ApiRestart
  PROVE  ConInv'
<1>1. thr \in [Threads -> ThreadRecs] /\ admin \in AdminRecs /\ wall \in Nat
      /\ sess \in [Threads \cup {0} -> SessionRecs \cup {NoSession}]
      /\ (\A u \in Threads : ThreadKnows(thr[u], admin))
      /\ (\A q \in Threads \cup {0} : SessionFits(q) /\ OldGoes(q)) /\ FloorsFit
  BY DEF ConInv, ConTypes
<1>2. admin.id \in Nat \ {0} /\ admin.floor \in Nat /\ admin.pw \in Nat
  BY <1>1 DEF AdminRecs
<1>3. CASE Reset
  <2>1. /\ admin' = [id |-> admin.id + 1, set |-> TRUE, pw |-> admin.pw + 1, floor |-> wall]
        /\ UNCHANGED <<sess, memo, grant, thr, claims, wall>>
    BY <1>3 DEF Reset, Written
  <2>2. admin' \in AdminRecs /\ admin'.id = admin.id + 1 /\ admin'.floor = wall /\ admin'.set
        /\ admin.floor <= admin'.floor
    BY <1>1, <1>2, <2>1 DEF AdminRecs, FloorsFit
  <2>3. \A u \in Threads : ThreadKnows(thr'[u], admin')
    <3>1. \A w \in ThreadRecs : ThreadKnows(w, admin) => ThreadKnows(w, admin')
      BY <2>2, RecordStep
    <3> QED BY <1>1, <2>1, <3>1
  <2>4. \A p \in Threads \cup {0} : SessionFits(p)' /\ OldGoes(p)'
    BY <1>1, <2>1, <2>2 DEF SessionFits, OldGoes
  <2>5. FloorsFit'
    BY <1>1, <1>2, <2>1, <2>2 DEF ConInv, ConTypes, FloorsFit
  <2>6. ConTypes'
    BY <2>1, <2>2 DEF ConInv, ConTypes
  <2> QED BY <2>3, <2>4, <2>5, <2>6 DEF ConInv
<1>4. CASE Passes
  <2>1. wall' = wall + 1 /\ UNCHANGED <<admin, sess, memo, grant, thr, claims>>
    BY <1>4 DEF Passes
  <2>2. \A p \in Threads \cup {0} : OldGoes(p)'
    BY <1>1, <2>1 DEF OldGoes
  <2>3. \A p \in Threads \cup {0} : SessionFits(p)'
    BY <1>1, <2>1 DEF SessionFits, SessionRecs
  <2>4. FloorsFit' /\ ConTypes'
    BY <1>1, <1>2, <2>1 DEF ConInv, ConTypes, FloorsFit
  <2>5. \A u \in Threads : ThreadKnows(thr'[u], admin')
    BY <1>1, <2>1
  <2> QED BY <2>2, <2>3, <2>4, <2>5 DEF ConInv
<1>5. CASE ApiRestart
  <2>1. /\ sess' = [p \in Threads \cup {0} |-> NoSession]
        /\ memo' = [key |-> 0, floor |-> 0] /\ grant' = NoSession
        /\ thr' = [u \in Threads |-> IF thr[u].at \in Ended \/ thr[u] = NoThread THEN thr[u]
                                     ELSE Silent("dead")]
        /\ UNCHANGED <<admin, claims, wall>>
    BY <1>1, <1>5 DEF ApiRestart, Silent
  <2>2. Silent("dead") \in ThreadRecs /\ ThreadKnows(Silent("dead"), admin)
    BY SilentIsFine, AdminTyped DEF CallerSteps, Ended
  <2>3. thr' \in [Threads -> ThreadRecs] /\ \A u \in Threads : ThreadKnows(thr'[u], admin)
    BY <1>1, <2>1, <2>2
  <2>4. \A p \in Threads \cup {0} : SessionFits(p)' /\ OldGoes(p)'
    BY <2>1 DEF SessionFits, OldGoes
  <2>5. FloorsFit'
    BY <1>1, <1>2, <2>1 DEF FloorsFit
  <2>6. ConTypes'
    BY <2>1, <2>3 DEF ConInv, ConTypes
  <2> QED BY <2>1, <2>3, <2>4, <2>5, <2>6 DEF ConInv
<1> QED BY <1>3, <1>4, <1>5

LEMMA ConKeeps ==
  ASSUME ConInv, [ConNext]_conVars
  PROVE  ConInv'
<1>1. CASE ConNext
  BY <1>1, LoginKeeps, LookKeeps, SetupKeeps, VerifyKeeps, CreateKeeps, ClaimKeeps, FloorKeeps,
     ServeKeeps, ChangeKeeps, RevokeKeeps, OutsideKeeps DEF ConNext
<1>2. CASE UNCHANGED conVars
  BY <1>2 DEF conVars, ConInv, ConTypes, SessionFits, OldGoes, FloorsFit
<1> QED BY <1>1, <1>2

LEMMA ConIsSafe == ConInv => ConsoleSafe
<1> SUFFICES ASSUME ConInv PROVE ConsoleSafe
  OBVIOUS
<1>1. ResetRevokes /\ PollingDoesNotKeepAlive
  BY DEF ConInv, ThreadKnows, ResetRevokes, PollingDoesNotKeepAlive
<1>2. OldPasswordsAreOut
  <2>1. DOMAIN sess = Threads \cup {0}
    BY DEF ConInv, ConTypes
  <2> QED BY <2>1 DEF ConInv, OldGoes, OldPasswordsAreOut
<1>3. SetupOnce
  BY DEF ConInv, FloorsFit, SetupOnce
<1> QED BY <1>1, <1>2, <1>3 DEF ConsoleSafe

LEMMA FloorRises ==
  ASSUME ConInv, [ConNext]_conVars
  PROVE  FloorNeverFalls
<1>1. admin \in AdminRecs /\ wall \in Nat /\ admin.floor <= wall
  BY DEF ConInv, ConTypes, FloorsFit
<1>2. admin.floor \in Nat
  BY <1>1 DEF AdminRecs
<1>3. CASE admin' = admin
  BY <1>2, <1>3 DEF FloorNeverFalls
<1>4. CASE admin' # admin
  <2>1. ASSUME NEW t \in Threads
        PROVE  /\ \A pw \in {0, admin.pw} : ~Login(t, pw)
               /\ \A s \in DOMAIN sess : ~Look(t, s)
               /\ ~MintGrant(t) /\ ~Verify(t) /\ ~CreateSession(t) /\ ~Setup(t)
               /\ ~Stat(t) /\ ~Load(t) /\ ~Keep(t) /\ ~ServeCall(t) /\ ~Logout(t)
               /\ ~RevokeOthers(t)
    BY <1>4, ZenonT(60) DEF Login, Look, MintGrant, Verify, CreateSession, Setup, Stat, Load,
                Keep, ServeCall, Logout, RevokeOthers
  <2>2. ~Passes /\ ~ApiRestart
    BY <1>4 DEF Passes, ApiRestart
  <2>3. Reset \/ \E t \in Threads : Claim(t) \/ ChangePassword(t)
    BY <1>4, <2>1, <2>2 DEF ConNext, conVars
  <2>4. Reset => admin'.floor = wall
    BY DEF Reset, Written
  <2>5. \A t \in Threads : Claim(t) \/ ChangePassword(t) => admin'.floor = admin.floor
    BY <1>4 DEF Claim, ChangePassword, Written, KeptFloor
  <2>6. admin'.floor \in {wall, admin.floor}
    BY <2>3, <2>4, <2>5
  <2> QED BY <1>1, <1>2, <2>6 DEF FloorNeverFalls
<1> QED BY <1>3, <1>4

----------------------------------------------------------------------------
(* The state files.  The promise is about the files; what makes it inductive *)
(* is what every process knows of them at each of its steps: that whoever    *)
(* writes has seen the document retired, what a lock it holds keeps still,   *)
(* and that a row a reader does not have yet is in a shard still to be read. *)

\* What a row, a process and the plan look like.
RowSets == [StateKeys -> Nat]
StorePcs == {"idle", "ensure", "legacy", "lock", "move", "guard", "plan", "bucket", "write",
             "marker", "document", "list", "scan", "fill", "keep", "done"}
UserRecs == [pc : StorePcs, op : StoreOps \cup {"none"}, key : StateKeys \cup {SomeKey},
             migrated : BOOLEAN, todo : SUBSET Buckets, at : Buckets \cup {SomeBucket},
             rows : RowSets, sig : Nat, marked : BOOLEAN, out : RowSets, failed : BOOLEAN,
             cache : [Buckets -> [sig : Nat, rows : RowSets]]]

KeyedTypes ==
    /\ document \in [st : {"doc", "gone", "guard"}, rows : RowSets]
    /\ marker \in BOOLEAN
    /\ shard \in [Buckets -> RowSets] /\ version \in [Buckets -> Nat \ {0}]
    /\ damaged \subseteq Buckets \cup {"document"}
    /\ holder \in [Buckets \cup {"document"} -> Users \cup {0}]
    /\ user \in [Users -> UserRecs]
    /\ tally \in RowSets
    /\ held \in [Users -> [StateKeys -> SUBSET Nat]]
    /\ kleft \in [doc : RowSets, ops : [Users -> Seq([op : StoreOps, key : StateKeys])],
                  crash : Nat, damage : Nat]

\* The marker is written when the document goes, and as long as the document is
\* there a shard holds copies of its rows.
Retiring ==
    /\ document.st = "doc" => ~marker
    /\ document.st = "guard" => marker
    /\ document.st = "doc" => \A k \in StateKeys : shard[BucketOf[k]][k] \in {0, document.rows[k]}

\* Whoever writes knows that the document is gone.
WriterKnows(u, st) ==
    /\ u.pc # "idle" => u.key \in StateKeys /\ u.op \in StoreOps
    /\ u.migrated \/ u.marked \/ u.pc \in {"plan", "bucket", "write", "fill", "keep"} => st # "doc"
    /\ u.pc = "scan" /\ u.op = "cached" => st # "doc"
    /\ u.pc \in {"fill", "keep"} => u.op = "cached"
    /\ u.pc \in {"marker", "document", "list"} => u.op \in {"all", "strict"}
    /\ u.pc \in {"bucket", "write"} => u.op \in {"update", "delete", "many", "sweep"}

\* What a lock keeps still.
UnderLock(p) ==
    LET u == user[p] IN
    /\ u.pc = "write" => /\ u.at \in Buckets /\ holder[u.at] = p /\ u.at \notin damaged
                         /\ u.rows = shard[u.at]
    /\ u.pc \in {"move", "guard"} => holder["document"] = p /\ "document" \notin damaged
    /\ u.pc = "guard" => document.st = "gone" /\ marker
    /\ u.pc = "move" =>
         /\ document.st = "doc"
         /\ \A k \in StateKeys : document.rows[k] # 0 =>
               BucketOf[k] \in u.todo \/ shard[BucketOf[k]][k] # 0

\* Rows kept or about to be kept under the version a file has are its rows.
FitsFile(c, b) ==
    /\ c.sig <= version[b]
    /\ c.sig # 0 /\ c.sig = version[b] => b \notin damaged /\ c.rows = shard[b]
CacheFits(u) ==
    /\ \A b \in Buckets : FitsFile(u.cache[b], b)
    /\ u.pc \in {"fill", "keep"} => u.at \in Buckets /\ u.sig <= version[u.at]
    /\ u.pc = "keep" => FitsFile(u, u.at)

\* What a reader has so far was there while it read, or is still to be read.
ReadSoFar(u, seen, st) ==
    /\ u.pc \notin {"list", "scan", "fill", "keep", "done"} => u.out = NoRows
    /\ u.pc = "keep" => \A k \in StateKeys : BucketOf[k] = u.at => u.rows[k] \in seen[k]
    /\ "document" \notin damaged /\ ~u.failed =>
         /\ u.pc = "list" => \A k \in StateKeys : u.out[k] \in seen[k] \/ (u.out[k] = 0 /\ st # "doc")
         /\ u.pc \in {"scan", "fill", "keep"} =>
              \A k \in StateKeys :
                 \/ u.out[k] \in seen[k]
                 \/ /\ u.out[k] = 0 /\ st # "doc"
                    /\ BucketOf[k] \in u.todo \/ (u.pc # "scan" /\ u.at = BucketOf[k])
         /\ u.pc = "done" /\ u.op \in {"snapshot", "cached", "all", "strict"} =>
              \A k \in StateKeys : u.out[k] \in seen[k]
Watches(p) == user[p].pc # "idle" => \A k \in StateKeys : tally[k] \in held[p][k]

UserFits(p) ==
    /\ WriterKnows(user[p], document.st) /\ UnderLock(p) /\ CacheFits(user[p])
    /\ ReadSoFar(user[p], held[p], document.st) /\ Watches(p)

KeyedInv == KeyedTypes /\ Retiring /\ NoChangeLost /\ \A p \in Users : UserFits(p)

LEMMA KeyedStarts == KeyedInit => KeyedInv
  <1> SUFFICES ASSUME KeyedInit PROVE KeyedInv
    OBVIOUS
  <1>0. NoRows \in RowSets /\ Uncached \in [sig : Nat, rows : RowSets] /\ NoCache \in [Buckets -> [sig : Nat, rows : RowSets]]
    BY DEF NoRows, RowSets, Uncached, NoCache
  <1>1. AtRest(NoCache) \in UserRecs
    BY <1>0 DEF AtRest, UserRecs, StorePcs
  <1>2. kleft \in [doc : RowSets, ops : [Users -> Seq([op : StoreOps, key : StateKeys])], crash : Nat, damage : Nat]
    BY KeyedAssumption DEF KeyedInit, RowSets
  <1>3. KeyedTypes
    <2>1. document \in [st : {"doc", "gone", "guard"}, rows : RowSets]
      BY <1>0, <1>2 DEF KeyedInit
    <2>5. marker \in BOOLEAN
      BY DEF KeyedInit
    <2>6. version \in [Buckets -> Nat \ {0}]
      BY DEF KeyedInit
    <2>2. /\ shard \in [Buckets -> RowSets] /\ tally \in RowSets
          /\ damaged \subseteq Buckets \cup {"document"}
      BY <1>0, <1>2 DEF KeyedInit
    <2>3. /\ holder \in [Buckets \cup {"document"} -> Users \cup {0}]
          /\ held \in [Users -> [StateKeys -> SUBSET Nat]]
      BY DEF KeyedInit
    <2>4. user \in [Users -> UserRecs]
      BY <1>1 DEF KeyedInit
    <2> QED BY <2>1, <2>2, <2>3, <2>4, <2>5, <2>6, <1>2 DEF KeyedTypes
  <1>4. Retiring
    BY <1>0, <1>2, KeyedAssumption DEF KeyedInit, Retiring, NoRows
  <1>5. NoChangeLost
    BY <1>0, <1>2, KeyedAssumption DEF KeyedInit, NoChangeLost, Visible, NoRows, RowSets
  <1>6. ASSUME NEW p \in Users PROVE UserFits(p)
    <2>1. /\ user[p] = AtRest(NoCache) /\ user[p].pc = "idle" /\ user[p].migrated = FALSE
          /\ user[p].marked = FALSE /\ user[p].cache = NoCache /\ user[p].out = NoRows
      BY <1>6 DEF KeyedInit, AtRest
    <2>2. \A b \in Buckets : FitsFile(NoCache[b], b)
      BY <1>3 DEF FitsFile, NoCache, Uncached, KeyedTypes
    <2> QED BY <2>1, <2>2 DEF UserFits, WriterKnows, UnderLock, CacheFits, ReadSoFar, Watches
  <1> QED BY <1>3, <1>4, <1>5, <1>6 DEF KeyedInv

\* A process that does not take the step.
LEMMA Bystander ==
    ASSUME KeyedInv, KeyedTypes', NEW q \in Users, user'[q] = user[q],
           document.st # "doc" => document'.st # "doc",
           user[q].pc = "write" => /\ holder'[user[q].at] = q /\ user[q].at \notin damaged'
                                   /\ shard'[user[q].at] = shard[user[q].at],
           user[q].pc \in {"move", "guard"} =>
              /\ holder'["document"] = q /\ "document" \notin damaged' /\ UNCHANGED <<document, marker>>,
           user[q].pc = "move" => UNCHANGED shard,
           damaged \subseteq damaged',
           \A b \in Buckets :
              \/ /\ version'[b] = version[b] /\ shard'[b] = shard[b]
                 /\ b \in damaged' => b \in damaged
              \/ version'[b] > version[b],
           user[q].pc # "idle" => \A k \in StateKeys : held[q][k] \subseteq held'[q][k]
                                                       /\ tally'[k] \in held'[q][k]
    PROVE  UserFits(q)'
  <1>0. UserFits(q) /\ KeyedTypes
    BY DEF KeyedInv
  <1>t. user[q] \in UserRecs
    BY <1>0 DEF KeyedTypes
  <1>1. WriterKnows(user[q], document.st)'
    BY <1>0 DEF UserFits, WriterKnows
  <1>2. UnderLock(q)'
    BY <1>0 DEF UserFits, UnderLock
  <1>f. ASSUME NEW c, c.sig \in Nat, NEW b \in Buckets, FitsFile(c, b) PROVE FitsFile(c, b)'
    <2>1. version[b] \in Nat /\ version'[b] \in Nat
      BY <1>0 DEF KeyedTypes
    <2>2. CASE version'[b] = version[b]
      BY <1>f, <2>1, <2>2 DEF FitsFile
    <2>3. CASE version'[b] > version[b]
      BY <1>f, <2>1, <2>3 DEF FitsFile
    <2> QED BY <2>2, <2>3
  <1>3. CacheFits(user[q])'
    <2>1. \A b \in Buckets : FitsFile(user[q].cache[b], b) /\ user[q].cache[b].sig \in Nat
      BY <1>0, <1>t DEF UserFits, CacheFits, UserRecs
    <2>2. \A b \in Buckets : FitsFile(user[q].cache[b], b)'
      BY <2>1, <1>f
    <2>3. user[q].pc \in {"fill", "keep"} => user[q].at \in Buckets /\ user[q].sig <= version'[user[q].at]
      BY <1>0, <1>t DEF UserFits, CacheFits, UserRecs, KeyedTypes
    <2>4. user[q].pc = "keep" => FitsFile(user[q], user[q].at)'
      BY <1>0, <1>t, <1>f, <2>3 DEF UserFits, CacheFits, UserRecs
    <2> QED BY <2>2, <2>3, <2>4 DEF CacheFits
  <1>4. ReadSoFar(user[q], held[q], document.st)'
    <2>1. user[q].pc = "idle" => ReadSoFar(user[q], held[q], document.st)'
      BY <1>0 DEF UserFits, ReadSoFar
    <2>2. ASSUME user[q].pc # "idle" PROVE ReadSoFar(user[q], held[q], document.st)'
      BY <2>2, <1>0, <1>t DEF UserFits, ReadSoFar, UserRecs
    <2> QED BY <2>1, <2>2
  <1>5. Watches(q)'
    BY DEF Watches
  <1> QED BY <1>1, <1>2, <1>3, <1>4, <1>5 DEF UserFits

StoreLocks == Buckets \cup {"document"}

\* A step that changes no file.
LEMMA OwnStep ==
    ASSUME KeyedInv, NEW p \in Users, user' \in [Users -> UserRecs],
           \A q \in Users \ {p} : user'[q] = user[q] /\ held'[q] = held[q],
           UNCHANGED <<document, marker, shard, version, damaged, tally>>,
           holder' \in [StoreLocks -> Users \cup {0}],
           \A x \in StoreLocks : holder[x] \notin {0, p} => holder'[x] = holder[x],
           held' \in [Users -> [StateKeys -> SUBSET Nat]],
           kleft' \in [doc : RowSets, ops : [Users -> Seq([op : StoreOps, key : StateKeys])],
                       crash : Nat, damage : Nat],
           UserFits(p)'
    PROVE  KeyedInv'
  <1>0. KeyedTypes /\ Retiring /\ NoChangeLost /\ \A q \in Users : UserFits(q)
    BY DEF KeyedInv
  <1>1. KeyedTypes'
    BY <1>0 DEF KeyedTypes, StoreLocks
  <1>2. Retiring' /\ NoChangeLost'
    BY <1>0 DEF Retiring, NoChangeLost, Visible
  <1>3. ASSUME NEW q \in Users, q # p PROVE UserFits(q)'
    <2>1. user'[q] = user[q] /\ held'[q] = held[q] /\ q # 0
      BY <1>3, KeyedAssumption
    <2>6. UnderLock(q)
      BY <1>0 DEF UserFits
    <2>2. user[q].pc = "write" => holder'[user[q].at] = q
      BY <1>3, <2>1, <2>6 DEF UnderLock, StoreLocks
    <2>3. user[q].pc \in {"move", "guard"} => holder'["document"] = q
      BY <1>0, <1>3, <2>1 DEF UserFits, UnderLock, StoreLocks
    <2>4. user[q].pc # "idle" => \A k \in StateKeys : tally[k] \in held[q][k]
      BY <1>0 DEF UserFits, Watches
    <2>5. /\ user[q].pc = "write" => user[q].at \notin damaged
          /\ user[q].pc \in {"move", "guard"} => "document" \notin damaged
      BY <1>0 DEF UserFits, UnderLock
    <2> QED BY <1>1, <2>1, <2>2, <2>3, <2>4, <2>5, Bystander
  <1> QED BY <1>0, <1>1, <1>2, <1>3 DEF KeyedInv

\* A step that changes one process only.
LEMMA AloneStep ==
    ASSUME KeyedInv, NEW p \in Users, user' \in [Users -> UserRecs],
           \A q \in Users \ {p} : user'[q] = user[q],
           UNCHANGED <<document, marker, shard, version, damaged, holder, tally, held, kleft>>,
           UserFits(p)'
    PROVE  KeyedInv'
  <1>1. KeyedTypes
    BY DEF KeyedInv
  <1>2. /\ holder' \in [StoreLocks -> Users \cup {0}]
        /\ held' \in [Users -> [StateKeys -> SUBSET Nat]]
        /\ kleft' \in [doc : RowSets, ops : [Users -> Seq([op : StoreOps, key : StateKeys])],
                       crash : Nat, damage : Nat]
    BY <1>1 DEF KeyedTypes, StoreLocks
  <1> QED BY <1>2, OwnStep

\* What is known of a process before its step.
LEMMA UserFacts ==
    ASSUME KeyedInv, NEW p \in Users
    PROVE  /\ KeyedTypes /\ user[p] \in UserRecs /\ user \in [Users -> UserRecs]
           /\ WriterKnows(user[p], document.st) /\ UnderLock(p) /\ CacheFits(user[p])
           /\ ReadSoFar(user[p], held[p], document.st) /\ Watches(p)
  BY DEF KeyedInv, KeyedTypes, UserFits

\* An operation that is over.
LEMMA Rested ==
    ASSUME KeyedInv, NEW p \in Users, Fails(p), UNCHANGED <<document, shard, version, damaged>>
    PROVE  /\ user' \in [Users -> UserRecs]
           /\ \A q \in Users \ {p} : user'[q] = user[q]
           /\ UserFits(p)'
  <1>0. NoRows \in RowSets
    BY DEF NoRows, RowSets
  <1>1. /\ user[p].cache \in [Buckets -> [sig : Nat, rows : RowSets]] /\ user[p].migrated \in BOOLEAN
        /\ user \in [Users -> UserRecs]
    BY UserFacts DEF UserRecs
  <1>2. user' = [user EXCEPT ![p] = [AtRest(user[p].cache) EXCEPT !.migrated = user[p].migrated]]
    BY DEF Fails
  <1>3. [AtRest(user[p].cache) EXCEPT !.migrated = user[p].migrated] \in UserRecs
    BY <1>0, <1>1 DEF AtRest, UserRecs, StorePcs
  <1>4. user'[p] = [AtRest(user[p].cache) EXCEPT !.migrated = user[p].migrated]
    BY <1>1, <1>2
  <1>5. /\ user'[p].pc = "idle" /\ user'[p].migrated = user[p].migrated /\ user'[p].marked = FALSE
        /\ user'[p].out = NoRows /\ user'[p].cache = user[p].cache
    BY <1>4 DEF AtRest
  <1>6. WriterKnows(user[p], document.st)'
    BY <1>5, UserFacts DEF WriterKnows
  <1>7. UnderLock(p)' /\ Watches(p)' /\ ReadSoFar(user[p], held[p], document.st)'
    BY <1>5 DEF UnderLock, Watches, ReadSoFar
  <1>8. CacheFits(user[p])'
    BY <1>5, UserFacts DEF CacheFits, FitsFile
  <1> QED BY <1>1, <1>2, <1>3, <1>6, <1>7, <1>8 DEF UserFits

\* A step of one process: the others stay as they are.
LEMMA BecomesFits ==
    ASSUME KeyedInv, NEW p \in Users, NEW r \in UserRecs, user' = [user EXCEPT ![p] = r]
    PROVE  /\ user' \in [Users -> UserRecs] /\ user'[p] = r
           /\ \A q \in Users \ {p} : user'[q] = user[q]
  <1>1. user \in [Users -> UserRecs]
    BY UserFacts
  <1> QED BY <1>1

\* Rows kept of files that were only replaced under a later version.
LEMMA FitsStill ==
    ASSUME KeyedInv, KeyedTypes', NEW q \in Users, user'[q].cache = user[q].cache,
           \A b \in Buckets :
              \/ /\ version'[b] = version[b] /\ shard'[b] = shard[b]
                 /\ b \in damaged' => b \in damaged
              \/ version'[b] > version[b]
    PROVE  \A b \in Buckets : FitsFile(user[q].cache[b], b)'
  <1>0. KeyedTypes /\ CacheFits(user[q]) /\ user[q] \in UserRecs
    BY UserFacts
  <1>1. SUFFICES ASSUME NEW b \in Buckets PROVE FitsFile(user[q].cache[b], b)'
    OBVIOUS
  <1>2. FitsFile(user[q].cache[b], b) /\ user[q].cache[b].sig \in Nat
    BY <1>0 DEF CacheFits, UserRecs
  <1>3. version[b] \in Nat /\ version'[b] \in Nat
    BY <1>0 DEF KeyedTypes
  <1>4. user'[q].cache[b] = user[q].cache[b]
    OBVIOUS
  <1>5. CASE version'[b] = version[b] /\ shard'[b] = shard[b] /\ (b \in damaged' => b \in damaged)
    BY <1>2, <1>3, <1>4, <1>5 DEF FitsFile
  <1>6. CASE version'[b] > version[b]
    BY <1>2, <1>3, <1>4, <1>6 DEF FitsFile
  <1> QED BY <1>5, <1>6

\* A step that leaves what was read and kept as it is.
Proceeds(p, pc, m, todo) ==
    user' = [user EXCEPT ![p] = [user[p] EXCEPT !.pc = pc, !.migrated = m, !.todo = todo]]
Proceeded(p, pc, m, todo) ==
    /\ user' \in [Users -> UserRecs]
    /\ \A q \in Users \ {p} : user'[q] = user[q]
    /\ user'[p].pc = pc /\ user'[p].migrated = m /\ user'[p].todo = todo
    /\ user'[p].op = user[p].op /\ user'[p].key = user[p].key
    /\ user'[p].at = user[p].at /\ user'[p].rows = user[p].rows
    /\ user'[p].sig = user[p].sig /\ user'[p].marked = user[p].marked
    /\ user'[p].out = user[p].out /\ user'[p].failed = user[p].failed
    /\ user'[p].cache = user[p].cache

LEMMA MovesOn ==
    ASSUME KeyedInv, NEW p \in Users, NEW pc \in StorePcs, NEW m \in BOOLEAN, NEW todo \in SUBSET Buckets,
           Proceeds(p, pc, m, todo)
    PROVE  Proceeded(p, pc, m, todo)
  <1>1. user[p] \in UserRecs
    BY UserFacts
  <1>2. [user[p] EXCEPT !.pc = pc, !.migrated = m, !.todo = todo] \in UserRecs
    BY <1>1 DEF UserRecs
  <1>3. user'[p] = [user[p] EXCEPT !.pc = pc, !.migrated = m, !.todo = todo]
    BY <1>2, BecomesFits DEF Proceeds
  <1> QED BY <1>1, <1>2, <1>3, BecomesFits DEF UserRecs, Proceeds, Proceeded

\* A step towards a write changes no file that others see.
LEMMA MovesFit ==
    ASSUME KeyedInv, NEW p \in Users, NEW pc \in {"plan", "legacy", "lock", "bucket"}, NEW m \in BOOLEAN,
           NEW todo \in SUBSET Buckets,
           Proceeds(p, pc, m, todo),
           user[p].pc \in {"ensure", "legacy", "lock", "plan"},
           UNCHANGED <<document, marker, shard, version, damaged, holder, tally, held, kleft>>,
           m = TRUE \/ pc \in {"plan", "bucket"} => document.st # "doc",
           pc = "bucket" => user[p].op \in {"update", "delete", "many", "sweep"}
    PROVE  KeyedInv'
  <1>1. pc \in StorePcs
    BY DEF StorePcs
  <1>2. /\ user' \in [Users -> UserRecs]
        /\ \A q \in Users \ {p} : user'[q] = user[q]
        /\ user'[p].pc = pc /\ user'[p].migrated = m
        /\ user'[p].op = user[p].op /\ user'[p].key = user[p].key /\ user'[p].marked = user[p].marked
        /\ user'[p].out = user[p].out /\ user'[p].cache = user[p].cache
    BY <1>1, MovesOn DEF Proceeded
  <1>3. WriterKnows(user[p], document.st)'
    BY <1>2, UserFacts DEF WriterKnows
  <1>4. UnderLock(p)'
    BY <1>2 DEF UnderLock
  <1>5. CacheFits(user[p])'
    BY <1>2, UserFacts DEF CacheFits, FitsFile
  <1>6. ReadSoFar(user[p], held[p], document.st)'
    BY <1>2, UserFacts DEF ReadSoFar
  <1>7. Watches(p)'
    BY <1>2, UserFacts DEF Watches
  <1>8. UserFits(p)'
    BY <1>3, <1>4, <1>5, <1>6, <1>7 DEF UserFits
  <1> QED BY <1>2, <1>8, AloneStep

\* The checks before the migration's lock.
LEMMA EnsureSteps ==
    ASSUME KeyedInv, NEW p \in Users, EnsureMarker(p) \/ EnsureLegacy(p)
    PROVE  KeyedInv'
  <1>0. KeyedTypes /\ Retiring
    BY DEF KeyedInv
  <1>t. user[p] \in UserRecs /\ user \in [Users -> UserRecs] /\ marker \in BOOLEAN
    BY <1>0, UserFacts DEF KeyedTypes
  <1>u. user[p].migrated \in BOOLEAN /\ user[p].todo \in SUBSET Buckets
    BY <1>t DEF UserRecs
  <1>k. user[p].migrated = TRUE => document.st # "doc"
    BY UserFacts DEF WriterKnows
  <1>1. CASE EnsureMarker(p)
    <2>0. UNCHANGED <<document, marker, shard, version, damaged, holder, tally, held, kleft>>
      BY <1>1 DEF EnsureMarker
    <2>1. Proceeds(p, IF marker THEN "plan" ELSE "legacy", marker, user[p].todo)
      BY <1>1, <1>t DEF EnsureMarker, UserRecs, Proceeds
    <2>2. user[p].pc \in {"ensure", "legacy", "lock", "plan"}
      BY <1>1 DEF EnsureMarker, Here
    <2>3. marker = TRUE => document.st # "doc"
      BY <1>0 DEF Retiring
    <2>4. (IF marker THEN "plan" ELSE "legacy") \in {"plan", "legacy", "lock", "bucket"}
          /\ ((IF marker THEN "plan" ELSE "legacy") \in {"plan", "bucket"} => marker = TRUE)
          /\ (IF marker THEN "plan" ELSE "legacy") # "bucket"
      BY <1>t
    <2> HIDE DEF StorePcs
    <2> QED BY <1>t, <1>u, <2>0, <2>1, <2>2, <2>3, <2>4, MovesFit
  <1>2. CASE EnsureLegacy(p)
    <2>0. UNCHANGED <<document, marker, shard, version, damaged, holder, tally, held, kleft>>
      BY <1>2 DEF EnsureLegacy
    <2>2. user[p].pc \in {"ensure", "legacy", "lock", "plan"}
      BY <1>2 DEF EnsureLegacy, Here
    <2>3. CASE document.st = "gone"
      <3>1. Proceeds(p, "plan", TRUE, user[p].todo)
        BY <1>2, <1>t, <2>3 DEF EnsureLegacy, UserRecs, Proceeds
      <3> QED BY <1>u, <2>0, <2>2, <2>3, <3>1, MovesFit
    <2>4. CASE document.st # "gone"
      <3>1. Proceeds(p, "lock", user[p].migrated, user[p].todo)
        BY <1>2, <1>t, <2>4 DEF EnsureLegacy, MovesTo, UserRecs, Proceeds
      <3> QED BY <1>u, <1>k, <2>0, <2>2, <3>1, MovesFit
    <2> QED BY <2>3, <2>4
  <1> QED BY <1>1, <1>2

\* The migration takes the document's lock, unless another was faster.
LEMMA MigrateLocks ==
    ASSUME KeyedInv, NEW p \in Users, MigrateLock(p)
    PROVE  KeyedInv'
  <1>0. KeyedTypes /\ Retiring
    BY DEF KeyedInv
  <1>t. user[p] \in UserRecs /\ user \in [Users -> UserRecs]
    BY UserFacts
  <1>u. user[p].migrated \in BOOLEAN /\ user[p].todo \in SUBSET Buckets
    BY <1>t DEF UserRecs
  <1>p. /\ user[p].pc = "lock" /\ holder["document"] = 0
        /\ UNCHANGED <<document, marker, shard, version, damaged, tally, held, kleft>>
    BY DEF MigrateLock, Here, Free
  <1>1. CASE ~StillLegacy
    <2>1. Proceeds(p, "plan", TRUE, user[p].todo)
          /\ UNCHANGED holder
      BY <1>1, <1>t DEF MigrateLock, UserRecs, Proceeds
    <2>2. document.st # "doc"
      BY <1>0, <1>1 DEF Retiring, StillLegacy
    <2> QED BY <1>u, <1>p, <2>1, <2>2, MovesFit
  <1>2. CASE StillLegacy /\ (document.st = "guard" \/ "document" \in damaged)
    <2>1. Fails(p) /\ UNCHANGED holder
      BY <1>2 DEF MigrateLock
    <2> QED BY <1>p, <2>1, Rested, AloneStep
  <1>3. CASE StillLegacy /\ ~(document.st = "guard" \/ "document" \in damaged)
    <2> DEFINE moved == {BucketOf[k] : k \in {j \in StateKeys : document.rows[j] # 0}}
    <2>15. /\ holder' = [holder EXCEPT !["document"] = p]
           /\ user' = [user EXCEPT ![p].pc = "move", ![p].todo = moved]
      BY <1>3 DEF MigrateLock, Take
    <2>2. moved \in SUBSET Buckets
      BY KeyedAssumption
    <2>3. document.st = "doc" /\ "document" \notin damaged
      BY <1>0, <1>3 DEF KeyedTypes, StillLegacy
    <2>6. \A k \in StateKeys : document.rows[k] # 0 => BucketOf[k] \in moved
      OBVIOUS
    <2> HIDE DEF moved
    <2>1. Proceeds(p, "move", user[p].migrated, moved)
      BY <1>t, <2>15 DEF UserRecs, Proceeds
    <2>4. "move" \in StorePcs
      BY DEF StorePcs
    <2>12. Proceeded(p, "move", user[p].migrated, moved)
      BY <1>u, <2>1, <2>2, <2>4, MovesOn, Zenon
    <2>5. /\ user' \in [Users -> UserRecs]
          /\ \A q \in Users \ {p} : user'[q] = user[q]
          /\ user'[p].pc = "move" /\ user'[p].migrated = user[p].migrated /\ user'[p].todo = moved
          /\ user'[p].op = user[p].op /\ user'[p].key = user[p].key /\ user'[p].marked = user[p].marked
          /\ user'[p].out = user[p].out /\ user'[p].cache = user[p].cache
      BY <2>12 DEF Proceeded
    <2>7. holder \in [StoreLocks -> Users \cup {0}] /\ "document" \in StoreLocks
      BY <1>0 DEF KeyedTypes, StoreLocks
    <2>8. /\ holder' \in [StoreLocks -> Users \cup {0}] /\ holder'["document"] = p
          /\ \A x \in StoreLocks : holder[x] \notin {0, p} => holder'[x] = holder[x]
      BY <1>p, <2>15, <2>7
    <2>9. /\ WriterKnows(user[p], document.st)' /\ UnderLock(p)' /\ CacheFits(user[p])'
          /\ ReadSoFar(user[p], held[p], document.st)' /\ Watches(p)'
      <3>1. WriterKnows(user[p], document.st)'
        BY <1>p, <2>5, UserFacts DEF WriterKnows
      <3>2. UnderLock(p)'
        BY <1>p, <2>3, <2>5, <2>6, <2>8 DEF UnderLock
      <3>3. CacheFits(user[p])'
        BY <1>p, <2>5, UserFacts DEF CacheFits, FitsFile
      <3>4. ReadSoFar(user[p], held[p], document.st)'
        BY <1>p, <2>5, UserFacts DEF ReadSoFar
      <3>5. Watches(p)'
        BY <1>p, <2>5, UserFacts DEF Watches
      <3> QED BY <3>1, <3>2, <3>3, <3>4, <3>5
    <2>10. /\ held' \in [Users -> [StateKeys -> SUBSET Nat]]
           /\ kleft' \in [doc : RowSets, ops : [Users -> Seq([op : StoreOps, key : StateKeys])],
                          crash : Nat, damage : Nat]
      BY <1>0, <1>p DEF KeyedTypes
    <2>11. UserFits(p)'
      BY <2>9 DEF UserFits
    <2> QED BY <1>p, <2>5, <2>8, <2>10, <2>11, OwnStep
  <1> QED BY <1>1, <1>2, <1>3

\* A write lists its buckets.
LEMMA PlanWrites ==
    ASSUME KeyedInv, NEW p \in Users, PlanWrite(p)
    PROVE  KeyedInv'
  <1>t. user[p] \in UserRecs /\ user \in [Users -> UserRecs]
    BY UserFacts
  <1>u. user[p].migrated \in BOOLEAN
    BY <1>t DEF UserRecs
  <1>p. /\ user[p].pc = "plan" /\ user[p].op \in {"update", "delete", "many", "sweep"}
        /\ UNCHANGED <<document, marker, shard, version, damaged, holder, tally, held, kleft>>
    BY DEF PlanWrite, Here, Does
  <1>d. document.st # "doc" /\ user[p].key \in StateKeys
    BY <1>p, UserFacts DEF WriterKnows
  <1> DEFINE todo == CASE Does(p, {"update", "delete"}) -> {BucketOf[user[p].key]}
                       [] Does(p, {"many"}) -> Buckets
                       [] Does(p, {"sweep"}) -> {b \in Buckets : HasShard(b)}
  <1>1. todo \in SUBSET Buckets
    <2>1. CASE user[p].op \in {"update", "delete"}
      BY <1>d, <2>1, KeyedAssumption DEF Does
    <2>2. CASE user[p].op = "many"
      BY <2>2 DEF Does
    <2>3. CASE user[p].op = "sweep"
      BY <2>3 DEF Does
    <2> QED BY <1>p, <2>1, <2>2, <2>3
  <1>2. user' = [user EXCEPT ![p].pc = "bucket", ![p].todo = todo]
    BY DEF PlanWrite
  <1> HIDE DEF todo
  <1>3. Proceeds(p, "bucket", user[p].migrated, todo)
    BY <1>2, <1>t DEF Proceeds, UserRecs
  <1> QED BY <1>1, <1>3, <1>u, <1>p, <1>d, MovesFit

\* An operation is through with its buckets or shards.
LEMMA EndsStep ==
    ASSUME KeyedInv, NEW p \in Users, WriteEnds(p) \/ ReadEnds(p)
    PROVE  KeyedInv'
  <1>t. user[p] \in UserRecs /\ user \in [Users -> UserRecs]
    BY UserFacts
  <1>u. user[p].migrated \in BOOLEAN /\ user[p].todo \in SUBSET Buckets
    BY <1>t DEF UserRecs
  <1>p. /\ user[p].pc \in {"bucket", "scan"} /\ user[p].todo = {}
        /\ UNCHANGED <<document, marker, shard, version, damaged, holder, tally, held, kleft>>
    BY DEF WriteEnds, ReadEnds, Here
  <1>0. MovesTo(p, "done") \/ Fails(p)
    BY DEF WriteEnds, ReadEnds
  <1>1. CASE MovesTo(p, "done")
    <2>1. Proceeds(p, "done", user[p].migrated, user[p].todo)
      BY <1>1, <1>t DEF Proceeds, UserRecs, MovesTo
    <2>2. "done" \in StorePcs
      BY DEF StorePcs
    <2>3. Proceeded(p, "done", user[p].migrated, user[p].todo)
      BY <1>u, <2>1, <2>2, MovesOn, Zenon
    <2>4. /\ user'[p].pc = "done" /\ user'[p].migrated = user[p].migrated
          /\ user'[p].op = user[p].op /\ user'[p].key = user[p].key /\ user'[p].marked = user[p].marked
          /\ user'[p].out = user[p].out /\ user'[p].failed = user[p].failed
          /\ user'[p].cache = user[p].cache
      BY <2>3 DEF Proceeded
    <2>5. user' \in [Users -> UserRecs] /\ \A q \in Users \ {p} : user'[q] = user[q]
      BY <2>3 DEF Proceeded
    <2>6. WriterKnows(user[p], document.st)'
      BY <1>p, <2>4, UserFacts DEF WriterKnows
    <2>7. UnderLock(p)' /\ Watches(p)'
      BY <1>p, <2>4, UserFacts DEF UnderLock, Watches
    <2>8. CacheFits(user[p])'
      BY <1>p, <2>4, UserFacts DEF CacheFits, FitsFile
    <2>9. ReadSoFar(user[p], held[p], document.st)'
      <3>1. ReadSoFar(user[p], held[p], document.st) /\ WriterKnows(user[p], document.st)
        BY UserFacts
      <3>2. CASE user[p].pc = "bucket"
        BY <1>p, <2>4, <3>1, <3>2 DEF ReadSoFar, WriterKnows
      <3>3. CASE user[p].pc = "scan"
        BY <1>p, <2>4, <3>1, <3>3 DEF ReadSoFar
      <3> QED BY <1>p, <3>2, <3>3
    <2>10. UserFits(p)'
      BY <2>6, <2>7, <2>8, <2>9 DEF UserFits
    <2> QED BY <1>p, <2>5, <2>10, AloneStep
  <1>2. CASE Fails(p)
    BY <1>2, <1>p, Rested, AloneStep
  <1> QED BY <1>0, <1>1, <1>2

\* A migration's own shard write.
LEMMA MigrateBuckets ==
    ASSUME KeyedInv, NEW p \in Users, NEW b \in Buckets, MigrateBucket(p, b)
    PROVE  KeyedInv'
  <1>0. KeyedTypes /\ Retiring /\ NoChangeLost
    BY DEF KeyedInv
  <1>t. user[p] \in UserRecs /\ user \in [Users -> UserRecs]
    BY UserFacts
  <1>u. user[p].migrated \in BOOLEAN /\ user[p].todo \in SUBSET Buckets
    BY <1>t DEF UserRecs
  <1>p. /\ user[p].pc = "move" /\ b \in user[p].todo /\ holder[b] = 0
        /\ UNCHANGED <<document, marker, damaged, tally, held, kleft>>
    BY DEF MigrateBucket, Here, Free
  <1>h. holder["document"] = p /\ document.st = "doc" /\ holder \in [StoreLocks -> Users \cup {0}]
    BY <1>0, <1>p, UserFacts DEF UnderLock, KeyedTypes, StoreLocks
  <1>k. /\ held' \in [Users -> [StateKeys -> SUBSET Nat]]
        /\ kleft' \in [doc : RowSets, ops : [Users -> Seq([op : StoreOps, key : StateKeys])],
                       crash : Nat, damage : Nat]
    BY <1>0, <1>p DEF KeyedTypes
  <1>1. CASE b \in damaged
    <2>1. Fails(p) /\ holder' = [holder EXCEPT !["document"] = 0] /\ UNCHANGED <<shard, version>>
      BY <1>1 DEF MigrateBucket, Release
    <2>2. /\ holder' \in [StoreLocks -> Users \cup {0}]
          /\ \A x \in StoreLocks : holder[x] \notin {0, p} => holder'[x] = holder[x]
      BY <1>h, <2>1
    <2>3. /\ user' \in [Users -> UserRecs]
          /\ \A q \in Users \ {p} : user'[q] = user[q]
          /\ UserFits(p)'
      BY <1>p, <2>1, Rested
    <2> QED BY <1>p, <1>k, <2>1, <2>2, <2>3, OwnStep
  <1>2. CASE b \notin damaged
    <2>1. /\ shard' = [shard EXCEPT ![b] = Merged(b)] /\ version' = [version EXCEPT ![b] = @ + 1]
          /\ UNCHANGED holder /\ user' = [user EXCEPT ![p].todo = @ \ {b}]
      BY <1>2 DEF MigrateBucket, Rewrites
    <2>2. Merged(b) \in RowSets
      BY <1>0, KeyedAssumption DEF Merged, KeyedTypes, RowSets
    <2>3. Proceeds(p, "move", user[p].migrated, user[p].todo \ {b})
      BY <1>p, <1>t, <2>1 DEF Proceeds, UserRecs
    <2>4. "move" \in StorePcs /\ user[p].todo \ {b} \in SUBSET Buckets
      BY <1>u DEF StorePcs
    <2>5. Proceeded(p, "move", user[p].migrated, user[p].todo \ {b})
      BY <1>u, <2>3, <2>4, MovesOn, Zenon
    <2>6. /\ user'[p].pc = "move" /\ user'[p].migrated = user[p].migrated
          /\ user'[p].todo = user[p].todo \ {b}
          /\ user'[p].op = user[p].op /\ user'[p].key = user[p].key /\ user'[p].marked = user[p].marked
          /\ user'[p].out = user[p].out /\ user'[p].cache = user[p].cache
      BY <2>5 DEF Proceeded
    <2>7. user' \in [Users -> UserRecs] /\ \A q \in Users \ {p} : user'[q] = user[q]
      BY <2>5 DEF Proceeded
    <2>8. /\ shard' \in [Buckets -> RowSets] /\ version' \in [Buckets -> Nat \ {0}]
          /\ \A c \in Buckets : \/ /\ version'[c] = version[c] /\ shard'[c] = shard[c]
                                   /\ c \in damaged' => c \in damaged
                                \/ version'[c] > version[c]
          /\ shard'[b] = Merged(b) /\ \A c \in Buckets \ {b} : shard'[c] = shard[c]
      BY <1>0, <1>p, <2>1, <2>2 DEF KeyedTypes
    <2>9. KeyedTypes'
      BY <1>0, <1>p, <2>1, <2>7, <2>8 DEF KeyedTypes
    <2>10. \A k \in StateKeys : shard'[BucketOf[k]][k] =
               IF BucketOf[k] = b /\ shard[BucketOf[k]][k] = 0 THEN document.rows[k]
               ELSE shard[BucketOf[k]][k]
      BY <2>8, KeyedAssumption DEF Merged
    <2>11. Retiring'
      BY <1>0, <1>p, <1>h, <2>10 DEF Retiring
    <2>12. NoChangeLost'
      BY <1>0, <1>p, <1>h, <2>10 DEF NoChangeLost, Visible
    <2>13. ASSUME NEW q \in Users, q # p PROVE UserFits(q)'
      <3>1. UnderLock(q) /\ Watches(q) /\ q # 0 /\ KeyedTypes
        BY UserFacts, KeyedAssumption
      <3>2. user[q].pc \notin {"move", "guard"}
        BY <1>h, <2>13, <3>1 DEF UnderLock
      <3>3. user[q].pc = "write" => user[q].at \in Buckets /\ user[q].at # b /\ holder[user[q].at] = q
                                    /\ user[q].at \notin damaged
        BY <1>p, <3>1 DEF UnderLock
      <3>4. user'[q] = user[q]
        BY <2>7, <2>13
      <3>5. user[q].pc # "idle" => \A k \in StateKeys : held[q][k] \subseteq held'[q][k]
                                                       /\ tally'[k] \in held'[q][k]
        BY <1>p, <3>1 DEF Watches
      <3>6. user[q].pc = "write" => /\ holder'[user[q].at] = q /\ user[q].at \notin damaged'
                                   /\ shard'[user[q].at] = shard[user[q].at]
        BY <1>p, <2>1, <2>8, <3>3
      <3> QED BY <1>p, <2>8, <2>9, <3>2, <3>4, <3>5, <3>6, Bystander
    <2>14. UserFits(p)'
      <3>1. WriterKnows(user[p], document.st)'
        BY <1>p, <2>6, UserFacts DEF WriterKnows
      <3>2. UnderLock(p)'
        BY <1>p, <1>h, <2>1, <2>6, <2>10, UserFacts DEF UnderLock
      <3>3. CacheFits(user[p])'
        <4>1. \A c \in Buckets : FitsFile(user[p].cache[c], c)'
          BY <2>6, <2>8, <2>9, FitsStill
        <4> QED BY <2>6, <4>1 DEF CacheFits
      <3>4. ReadSoFar(user[p], held[p], document.st)'
        BY <1>p, <2>6, UserFacts DEF ReadSoFar
      <3>5. Watches(p)'
        BY <1>p, <2>6, UserFacts DEF Watches
      <3> QED BY <3>1, <3>2, <3>3, <3>4, <3>5 DEF UserFits
    <2> QED BY <2>9, <2>11, <2>12, <2>13, <2>14 DEF KeyedInv
  <1> QED BY <1>1, <1>2

\* The document goes when every row of it has its place.
LEMMA MigrateRenames ==
    ASSUME KeyedInv, NEW p \in Users, MigrateRename(p)
    PROVE  KeyedInv'
  <1>0. KeyedTypes /\ Retiring /\ NoChangeLost
    BY DEF KeyedInv
  <1>t. user[p] \in UserRecs /\ user \in [Users -> UserRecs]
    BY UserFacts
  <1>u. user[p].migrated \in BOOLEAN /\ user[p].todo \in SUBSET Buckets
    BY <1>t DEF UserRecs
  <1>p. /\ user[p].pc = "move" /\ user[p].todo = {}
        /\ document' = [document EXCEPT !.st = "gone"] /\ marker' = TRUE
        /\ UNCHANGED <<shard, version, damaged, holder, tally, held, kleft>>
    BY DEF MigrateRename, Here, RenameReady
  <1>h. /\ holder["document"] = p /\ document.st = "doc" /\ "document" \notin damaged
        /\ \A k \in StateKeys : document.rows[k] # 0 => shard[BucketOf[k]][k] # 0
    BY <1>p, UserFacts DEF UnderLock
  <1>d. /\ document' \in [st : {"doc", "gone", "guard"}, rows : RowSets]
        /\ document'.st = "gone" /\ document'.rows = document.rows
    BY <1>0, <1>p DEF KeyedTypes
  <1>1. Proceeds(p, "guard", user[p].migrated, user[p].todo)
    BY <1>t DEF MigrateRename, MovesTo, Proceeds, UserRecs
  <1>2. "guard" \in StorePcs
    BY DEF StorePcs
  <1>3. Proceeded(p, "guard", user[p].migrated, user[p].todo)
    BY <1>u, <1>1, <1>2, MovesOn, Zenon
  <1>4. /\ user'[p].pc = "guard" /\ user'[p].migrated = user[p].migrated
        /\ user'[p].op = user[p].op /\ user'[p].key = user[p].key /\ user'[p].marked = user[p].marked
        /\ user'[p].out = user[p].out /\ user'[p].cache = user[p].cache
    BY <1>3 DEF Proceeded
  <1>5. user' \in [Users -> UserRecs] /\ \A q \in Users \ {p} : user'[q] = user[q]
    BY <1>3 DEF Proceeded
  <1>6. KeyedTypes'
    BY <1>0, <1>p, <1>d, <1>5 DEF KeyedTypes
  <1>7. Retiring'
    BY <1>d, <1>p DEF Retiring
  <1>8. NoChangeLost'
    BY <1>0, <1>p, <1>h, <1>d DEF NoChangeLost, Visible, KeyedTypes, RowSets
  <1>9. ASSUME NEW q \in Users, q # p PROVE UserFits(q)'
    <2>1. UnderLock(q) /\ Watches(q)
      BY UserFacts
    <2>2. user[q].pc \notin {"move", "guard"}
      BY <1>h, <1>9, <2>1 DEF UnderLock
    <2>3. user[q].pc = "write" => holder[user[q].at] = q /\ user[q].at \notin damaged
      BY <2>1 DEF UnderLock
    <2>4. user'[q] = user[q]
      BY <1>5, <1>9
    <2>5. user[q].pc # "idle" => \A k \in StateKeys : tally[k] \in held[q][k]
      BY <2>1 DEF Watches
    <2> QED BY <1>p, <1>d, <1>6, <2>2, <2>3, <2>4, <2>5, Bystander
  <1>10. UserFits(p)'
    <2>1. WriterKnows(user[p], document.st)'
      BY <1>p, <1>d, <1>4, UserFacts DEF WriterKnows
    <2>2. UnderLock(p)'
      BY <1>p, <1>h, <1>d, <1>4 DEF UnderLock
    <2>3. CacheFits(user[p])'
      BY <1>p, <1>4, UserFacts DEF CacheFits, FitsFile
    <2>4. ReadSoFar(user[p], held[p], document.st)'
      BY <1>p, <1>4, UserFacts DEF ReadSoFar
    <2>5. Watches(p)'
      BY <1>p, <1>4, UserFacts DEF Watches
    <2> QED BY <2>1, <2>2, <2>3, <2>4, <2>5 DEF UserFits
  <1> QED BY <1>6, <1>7, <1>8, <1>9, <1>10 DEF KeyedInv

\* And something unreadable may be left where it was.
LEMMA GuardSteps ==
    ASSUME KeyedInv, NEW p \in Users, NEW ok \in BOOLEAN, LeaveRollbackGuard(p, ok)
    PROVE  KeyedInv'
  <1>0. KeyedTypes /\ Retiring /\ NoChangeLost
    BY DEF KeyedInv
  <1>t. user[p] \in UserRecs /\ user \in [Users -> UserRecs]
    BY UserFacts
  <1>u. user[p].todo \in SUBSET Buckets
    BY <1>t DEF UserRecs
  <1>p. /\ user[p].pc = "guard" /\ holder' = [holder EXCEPT !["document"] = 0]
        /\ UNCHANGED <<marker, shard, version, damaged, tally, held, kleft>>
    BY DEF LeaveRollbackGuard, Here, Release
  <1>h. holder["document"] = p /\ document.st = "gone" /\ marker = TRUE
    BY <1>0, <1>p, UserFacts DEF UnderLock, KeyedTypes
  <1>d. /\ document' \in [st : {"doc", "gone", "guard"}, rows : RowSets]
        /\ document'.st # "doc"
    <2>1. document' = [document EXCEPT !.st = "guard"] \/ document' = document
      BY DEF LeaveRollbackGuard
    <2>2. document \in [st : {"doc", "gone", "guard"}, rows : RowSets]
      BY <1>0 DEF KeyedTypes
    <2> QED BY <1>h, <2>1, <2>2
  <1>1. Proceeds(p, "plan", TRUE, user[p].todo)
    BY <1>t DEF LeaveRollbackGuard, Proceeds, UserRecs
  <1>2. "plan" \in StorePcs /\ TRUE \in BOOLEAN
    BY DEF StorePcs
  <1>3. Proceeded(p, "plan", TRUE, user[p].todo)
    BY <1>u, <1>1, <1>2, MovesOn, Zenon
  <1>4. /\ user'[p].pc = "plan" /\ user'[p].op = user[p].op /\ user'[p].key = user[p].key
        /\ user'[p].marked = user[p].marked
        /\ user'[p].out = user[p].out /\ user'[p].cache = user[p].cache
    BY <1>3 DEF Proceeded
  <1>5. user' \in [Users -> UserRecs] /\ \A q \in Users \ {p} : user'[q] = user[q]
    BY <1>3 DEF Proceeded
  <1>l. /\ holder' \in [StoreLocks -> Users \cup {0}]
        /\ \A x \in StoreLocks : holder[x] # p => holder'[x] = holder[x]
    BY <1>0, <1>p, <1>h DEF KeyedTypes, StoreLocks
  <1>6. KeyedTypes'
    BY <1>0, <1>p, <1>d, <1>l, <1>5 DEF KeyedTypes, StoreLocks
  <1>7. Retiring'
    BY <1>d, <1>p, <1>h DEF Retiring
  <1>8. NoChangeLost'
    BY <1>0, <1>p, <1>h, <1>d DEF NoChangeLost, Visible
  <1>9. ASSUME NEW q \in Users, q # p PROVE UserFits(q)'
    <2>1. UnderLock(q) /\ Watches(q)
      BY UserFacts
    <2>2. user[q].pc \notin {"move", "guard"}
      BY <1>h, <1>9, <2>1 DEF UnderLock
    <2>3. user[q].pc = "write" => holder'[user[q].at] = q /\ user[q].at \notin damaged
      BY <1>9, <1>l, <2>1 DEF UnderLock, StoreLocks
    <2>4. user'[q] = user[q]
      BY <1>5, <1>9
    <2>5. user[q].pc # "idle" => \A k \in StateKeys : tally[k] \in held[q][k]
      BY <2>1 DEF Watches
    <2> QED BY <1>p, <1>d, <1>6, <2>2, <2>3, <2>4, <2>5, Bystander
  <1>10. UserFits(p)'
    <2>1. WriterKnows(user[p], document.st)'
      BY <1>p, <1>d, <1>4, UserFacts DEF WriterKnows
    <2>2. UnderLock(p)'
      BY <1>4 DEF UnderLock
    <2>3. CacheFits(user[p])'
      BY <1>p, <1>4, UserFacts DEF CacheFits, FitsFile
    <2>4. ReadSoFar(user[p], held[p], document.st)'
      BY <1>p, <1>4, UserFacts DEF ReadSoFar
    <2>5. Watches(p)'
      BY <1>p, <1>4, UserFacts DEF Watches
    <2> QED BY <2>1, <2>2, <2>3, <2>4, <2>5 DEF UserFits
  <1> QED BY <1>6, <1>7, <1>8, <1>9, <1>10 DEF KeyedInv

\* A bucket is read under its lock.
LEMMA ReadBuckets ==
    ASSUME KeyedInv, NEW p \in Users, NEW b \in Buckets, ReadBucket(p, b)
    PROVE  KeyedInv'
  <1>0. KeyedTypes
    BY DEF KeyedInv
  <1>t. user[p] \in UserRecs /\ user \in [Users -> UserRecs]
    BY UserFacts
  <1>p. /\ user[p].pc = "bucket" /\ holder[b] = 0
        /\ UNCHANGED <<document, marker, shard, version, damaged, tally, held, kleft>>
    BY DEF ReadBucket, Here, MayTake, Free
  <1>1. CASE b \in damaged
    <2>1. Fails(p) /\ UNCHANGED holder
      BY <1>1 DEF ReadBucket, Refuses
    <2> QED BY <1>p, <2>1, Rested, AloneStep
  <1>2. CASE b \notin damaged
    <2> DEFINE r == [user[p] EXCEPT !.pc = "write", !.at = b, !.rows = shard[b], !.todo = @ \ {b}]
    <2>1. /\ holder' = [holder EXCEPT ![b] = p]
          /\ user' = [user EXCEPT ![p].pc = "write", ![p].at = b, ![p].rows = shard[b],
                                  ![p].todo = @ \ {b}]
      BY <1>2 DEF ReadBucket, Refuses, Loaded, Take
    <2>2. shard[b] \in RowSets
      BY <1>0 DEF KeyedTypes
    <2>3. r \in UserRecs
      BY <1>t, <2>2 DEF UserRecs, StorePcs
    <2>4. user' = [user EXCEPT ![p] = r]
      BY <1>t, <2>1 DEF UserRecs
    <2>5. /\ r.pc = "write" /\ r.at = b /\ r.rows = shard[b] /\ r.op = user[p].op
          /\ r.key = user[p].key /\ r.migrated = user[p].migrated /\ r.marked = user[p].marked
          /\ r.out = user[p].out /\ r.cache = user[p].cache
      BY <1>t DEF UserRecs
    <2> HIDE DEF r
    <2>6. user' \in [Users -> UserRecs] /\ user'[p] = r /\ \A q \in Users \ {p} : user'[q] = user[q]
      BY <2>3, <2>4, BecomesFits
    <2>7. /\ holder' \in [StoreLocks -> Users \cup {0}] /\ holder'[b] = p
          /\ \A x \in StoreLocks : holder[x] \notin {0, p} => holder'[x] = holder[x]
      BY <1>0, <1>p, <2>1 DEF KeyedTypes, StoreLocks
    <2>8. WriterKnows(user[p], document.st)'
      BY <1>p, <2>5, <2>6, UserFacts DEF WriterKnows
    <2>9. UnderLock(p)'
      BY <1>p, <1>2, <2>5, <2>6, <2>7 DEF UnderLock
    <2>10. CacheFits(user[p])'
      BY <1>p, <2>5, <2>6, UserFacts DEF CacheFits, FitsFile
    <2>11. ReadSoFar(user[p], held[p], document.st)'
      BY <1>p, <2>5, <2>6, UserFacts DEF ReadSoFar
    <2>12. Watches(p)'
      BY <1>p, <2>5, <2>6, UserFacts DEF Watches
    <2>13. UserFits(p)'
      BY <2>8, <2>9, <2>10, <2>11, <2>12 DEF UserFits
    <2>14. /\ held' \in [Users -> [StateKeys -> SUBSET Nat]]
           /\ kleft' \in [doc : RowSets, ops : [Users -> Seq([op : StoreOps, key : StateKeys])],
                          crash : Nat, damage : Nat]
      BY <1>0, <1>p DEF KeyedTypes
    <2> QED BY <1>p, <2>6, <2>7, <2>13, <2>14, OwnStep
  <1> QED BY <1>1, <1>2

\* The rows that were read under the lock are still the shard's: what is written
\* counts every change made before it.
LEMMA WriteBuckets ==
    ASSUME KeyedInv, NEW p \in Users, WriteBucket(p)
    PROVE  KeyedInv'
  <1>0. KeyedTypes /\ Retiring /\ NoChangeLost
    BY DEF KeyedInv
  <1>t. user[p] \in UserRecs /\ user \in [Users -> UserRecs]
    BY UserFacts
  <1>u. user[p].migrated \in BOOLEAN /\ user[p].todo \in SUBSET Buckets
    BY <1>t DEF UserRecs
  <1> DEFINE b == user[p].at
             new == [k \in StateKeys |-> IF BucketOf[k] = b THEN NewRow(p, k, user[p].rows[k])
                                         ELSE user[p].rows[k]]
             counted == [k \in StateKeys |-> IF BucketOf[k] = b THEN NewRow(p, k, tally[k]) ELSE tally[k]]
  <1>p. /\ user[p].pc = "write"
        /\ UNCHANGED <<document, marker, damaged, kleft>>
        /\ holder' = [holder EXCEPT ![b] = 0]
        /\ tally' = counted /\ held' = Watched(counted)
        /\ IF new = user[p].rows THEN UNCHANGED <<shard, version>>
           ELSE shard' = [shard EXCEPT ![b] = new] /\ version' = [version EXCEPT ![b] = @ + 1]
    BY DEF WriteBucket, Here, Release, Rewrites
  <1>h. /\ b \in Buckets /\ holder[b] = p /\ b \notin damaged /\ user[p].rows = shard[b]
        /\ document.st # "doc" /\ user[p].op \in {"update", "delete", "many", "sweep"}
    BY <1>p, UserFacts DEF UnderLock, WriterKnows
  <1>n. \A k \in StateKeys, old \in Nat : NewRow(p, k, old) \in Nat
    <2> SUFFICES ASSUME NEW k \in StateKeys, NEW old \in Nat PROVE NewRow(p, k, old) \in Nat
      OBVIOUS
    <2> QED BY <1>h DEF NewRow, Does
  <1>s. \A k \in StateKeys : BucketOf[k] \in Buckets /\ shard[BucketOf[k]][k] = tally[k] /\ tally[k] \in Nat
    BY <1>0, <1>h, KeyedAssumption DEF NoChangeLost, Visible, KeyedTypes, RowSets
  <1>c. counted \in RowSets /\ \A k \in StateKeys : counted[k] =
              IF BucketOf[k] = b THEN NewRow(p, k, tally[k]) ELSE tally[k]
    BY <1>n, <1>s DEF RowSets
  <1>w. new \in RowSets /\ \A k \in StateKeys : BucketOf[k] = b => new[k] = counted[k]
    <2>1. shard[b] \in RowSets
      BY <1>0, <1>h DEF KeyedTypes
    <2> QED BY <1>n, <1>s, <1>h, <2>1 DEF RowSets
  <1> HIDE DEF new, counted
  <1>1. Proceeds(p, "bucket", user[p].migrated, user[p].todo)
    BY <1>t DEF WriteBucket, MovesTo, Proceeds, UserRecs
  <1>2. "bucket" \in StorePcs
    BY DEF StorePcs
  <1>3. Proceeded(p, "bucket", user[p].migrated, user[p].todo)
    BY <1>u, <1>1, <1>2, MovesOn, Zenon
  <1>4. /\ user'[p].pc = "bucket" /\ user'[p].migrated = user[p].migrated
        /\ user'[p].op = user[p].op /\ user'[p].key = user[p].key /\ user'[p].marked = user[p].marked
        /\ user'[p].out = user[p].out /\ user'[p].cache = user[p].cache
    BY <1>3 DEF Proceeded
  <1>5. user' \in [Users -> UserRecs] /\ \A q \in Users \ {p} : user'[q] = user[q]
    BY <1>3 DEF Proceeded
  <1>f. /\ shard' \in [Buckets -> RowSets] /\ version' \in [Buckets -> Nat \ {0}]
        /\ shard'[b] = new /\ \A c \in Buckets \ {b} : shard'[c] = shard[c]
        /\ \A c \in Buckets : \/ /\ version'[c] = version[c] /\ shard'[c] = shard[c]
                                 /\ c \in damaged' => c \in damaged
                              \/ version'[c] > version[c]
    <2>1. shard \in [Buckets -> RowSets] /\ version \in [Buckets -> Nat \ {0}] /\ damaged' = damaged
      BY <1>0, <1>p DEF KeyedTypes
    <2>2. CASE new = user[p].rows
      BY <1>p, <1>h, <2>1, <2>2
    <2>3. CASE new # user[p].rows
      BY <1>p, <1>h, <1>w, <2>1, <2>3
    <2> QED BY <2>2, <2>3
  <1>e. /\ held' \in [Users -> [StateKeys -> SUBSET Nat]]
        /\ \A q \in Users : user[q].pc # "idle" =>
             \A k \in StateKeys : held[q][k] \subseteq held'[q][k] /\ tally'[k] \in held'[q][k]
    <2>1. held \in [Users -> [StateKeys -> SUBSET Nat]]
      BY <1>0 DEF KeyedTypes
    <2> QED BY <1>p, <1>c, <2>1 DEF Watched, RowSets
  <1>l. /\ holder' \in [StoreLocks -> Users \cup {0}]
        /\ \A x \in StoreLocks : holder[x] # p => holder'[x] = holder[x]
    BY <1>0, <1>p, <1>h DEF KeyedTypes, StoreLocks
  <1>6. KeyedTypes'
    BY <1>0, <1>p, <1>c, <1>l, <1>f, <1>e, <1>5 DEF KeyedTypes, StoreLocks
  <1>7. Retiring'
    BY <1>0, <1>p, <1>h DEF Retiring
  <1>8. NoChangeLost'
    BY <1>p, <1>h, <1>s, <1>c, <1>w, <1>f DEF NoChangeLost, Visible
  <1>9. ASSUME NEW q \in Users, q # p PROVE UserFits(q)'
    <2>1. UnderLock(q)
      BY UserFacts
    <2>2. user[q].pc # "move"
      BY <1>h, <2>1 DEF UnderLock
    <2>3. user[q].pc = "guard" => holder'["document"] = q /\ "document" \notin damaged
      BY <1>9, <1>l, <2>1 DEF UnderLock, StoreLocks
    <2>4. user[q].pc = "write" => /\ user[q].at \in Buckets \ {b} /\ holder'[user[q].at] = q
                                  /\ user[q].at \notin damaged
      BY <1>9, <1>h, <1>l, <2>1 DEF UnderLock, StoreLocks
    <2>5. user'[q] = user[q]
      BY <1>5, <1>9
    <2>6. user[q].pc = "write" => shard'[user[q].at] = shard[user[q].at]
      BY <1>f, <2>4
    <2> QED BY <1>p, <1>f, <1>e, <1>6, <2>2, <2>3, <2>4, <2>5, <2>6, Bystander
  <1>10. UserFits(p)'
    <2>1. WriterKnows(user[p], document.st)'
      BY <1>p, <1>h, <1>4, UserFacts DEF WriterKnows
    <2>2. UnderLock(p)'
      BY <1>4 DEF UnderLock
    <2>3. CacheFits(user[p])'
      <3>1. \A c \in Buckets : FitsFile(user[p].cache[c], c)'
        BY <1>4, <1>f, <1>6, FitsStill
      <3> QED BY <1>4, <3>1 DEF CacheFits
    <2>4. ReadSoFar(user[p], held[p], document.st)'
      BY <1>p, <1>4, UserFacts DEF ReadSoFar
    <2>5. Watches(p)'
      BY <1>p, <1>e, <1>4 DEF Watches
    <2> QED BY <2>1, <2>2, <2>3, <2>4, <2>5 DEF UserFits
  <1> QED BY <1>6, <1>7, <1>8, <1>9, <1>10 DEF KeyedInv

\* A reader's step changes the reader.
Becomes(p, r) == user' = [user EXCEPT ![p] = r]

LEMMA ReaderStep ==
    ASSUME KeyedInv, NEW p \in Users, NEW r \in UserRecs, Becomes(p, r),
           UNCHANGED <<document, marker, shard, version, damaged, holder, tally, held, kleft>>,
           user[p].pc # "idle", r.pc \in {"document", "list", "scan", "fill", "keep"},
           WriterKnows(r, document.st), CacheFits(r), ReadSoFar(r, held[p], document.st)
    PROVE  KeyedInv'
  <1>1. user' \in [Users -> UserRecs] /\ user'[p] = r /\ \A q \in Users \ {p} : user'[q] = user[q]
    BY BecomesFits DEF Becomes
  <1>2. WriterKnows(user[p], document.st)'
    BY <1>1 DEF WriterKnows
  <1>3. UnderLock(p)'
    BY <1>1 DEF UnderLock
  <1>4. CacheFits(user[p])'
    BY <1>1 DEF CacheFits, FitsFile
  <1>5. ReadSoFar(user[p], held[p], document.st)'
    BY <1>1 DEF ReadSoFar
  <1>6. Watches(p)'
    BY <1>1, UserFacts DEF Watches
  <1>7. UserFits(p)'
    BY <1>2, <1>3, <1>4, <1>5, <1>6 DEF UserFits
  <1> QED BY <1>1, <1>7, AloneStep

\* What the shards hold once the document is gone.
LEMMA ShardsTell ==
    ASSUME KeyedInv, NEW p \in Users, user[p].pc # "idle", document.st # "doc", NEW k \in StateKeys
    PROVE  BucketOf[k] \in Buckets /\ shard[BucketOf[k]][k] \in held[p][k]
  <1>1. Watches(p) /\ NoChangeLost
    BY UserFacts DEF KeyedInv
  <1> QED BY <1>1, KeyedAssumption DEF Watches, NoChangeLost, Visible

\* A shard without a file has no rows.
LEMMA NoShard ==
    ASSUME NEW k \in StateKeys, ~HasShard(BucketOf[k])
    PROVE  shard[BucketOf[k]][k] = 0
  BY DEF HasShard, In

\* The strict reader notes the marker.
LEMMA ReadMarkers ==
    ASSUME KeyedInv, NEW p \in Users, ReadMarker(p)
    PROVE  KeyedInv'
  <1>0. KeyedTypes /\ Retiring
    BY DEF KeyedInv
  <1>t. user[p] \in UserRecs /\ user \in [Users -> UserRecs] /\ marker \in BOOLEAN
    BY <1>0, UserFacts DEF KeyedTypes
  <1>p. /\ user[p].pc = "marker"
        /\ user' = [user EXCEPT ![p].marked = marker, ![p].pc = "document"]
        /\ UNCHANGED <<document, marker, shard, version, damaged, holder, tally, held, kleft>>
    BY DEF ReadMarker, Here
  <1> DEFINE r == [user[p] EXCEPT !.marked = marker, !.pc = "document"]
  <1>1. r \in UserRecs
    BY <1>t DEF UserRecs, StorePcs
  <1>2. Becomes(p, r)
    BY <1>p, <1>t DEF Becomes, UserRecs
  <1>3. /\ r.pc = "document" /\ r.op = user[p].op /\ r.key = user[p].key /\ r.migrated = user[p].migrated
        /\ r.out = user[p].out /\ r.cache = user[p].cache
    BY <1>t DEF UserRecs
  <1>m. r.marked = marker
    BY <1>t DEF UserRecs
  <1> HIDE DEF r
  <1>4. WriterKnows(r, document.st)
    BY <1>0, <1>p, <1>3, <1>m, UserFacts DEF WriterKnows, Retiring
  <1>5. CacheFits(r)
    BY <1>3, UserFacts DEF CacheFits
  <1>6. ReadSoFar(r, held[p], document.st)
    BY <1>p, <1>3, UserFacts DEF ReadSoFar
  <1> QED BY <1>p, <1>1, <1>2, <1>3, <1>4, <1>5, <1>6, ReaderStep

\* The document's rows, while it is there, are those of the store.
LEMMA ReadDocuments ==
    ASSUME KeyedInv, NEW p \in Users, ReadDocument(p)
    PROVE  KeyedInv'
  <1>0. KeyedTypes /\ Retiring /\ NoChangeLost
    BY DEF KeyedInv
  <1>t. user[p] \in UserRecs /\ user \in [Users -> UserRecs]
    BY UserFacts
  <1>p. /\ user[p].pc = "document"
        /\ UNCHANGED <<document, marker, shard, version, damaged, holder, tally, held, kleft>>
        /\ Fails(p) \/ user' = [user EXCEPT ![p].pc = "list", ![p].out = DocumentRows(p)]
    BY DEF ReadDocument, Here
  <1>1. CASE Fails(p)
    BY <1>1, <1>p, Rested, AloneStep
  <1>2. CASE user' = [user EXCEPT ![p].pc = "list", ![p].out = DocumentRows(p)]
    <2> DEFINE r == [user[p] EXCEPT !.pc = "list", !.out = DocumentRows(p)]
    <2>1. DocumentRows(p) \in {document.rows, NoRows} /\ DocumentRows(p) \in RowSets
      BY <1>0 DEF DocumentRows, KeyedTypes, NoRows, RowSets
    <2>2. r \in UserRecs
      BY <1>t, <2>1 DEF UserRecs, StorePcs
    <2>3. Becomes(p, r)
      BY <1>2, <1>t DEF Becomes, UserRecs
    <2>4. /\ r.pc = "list" /\ r.op = user[p].op /\ r.key = user[p].key /\ r.migrated = user[p].migrated
          /\ r.marked = user[p].marked /\ r.out = DocumentRows(p) /\ r.cache = user[p].cache
      BY <1>t DEF UserRecs
    <2> HIDE DEF r
    <2>5. WriterKnows(r, document.st)
      BY <1>p, <2>4, UserFacts DEF WriterKnows
    <2>6. CacheFits(r)
      BY <2>4, UserFacts DEF CacheFits
    <2>7. ASSUME "document" \notin damaged, NEW k \in StateKeys
          PROVE  DocumentRows(p)[k] \in held[p][k] \/ (DocumentRows(p)[k] = 0 /\ document.st # "doc")
      <3>1. CASE document.st # "doc"
        BY <3>1 DEF DocumentRows, NoRows
      <3>2. CASE document.st = "doc"
        <4>1. user[p].marked = FALSE
          BY <1>t, <3>2, UserFacts DEF WriterKnows, UserRecs
        <4>2. DocumentRows(p) = document.rows
          BY <2>7, <3>2, <4>1 DEF DocumentRows
        <4>3. document.rows[k] = tally[k]
          BY <1>0, <3>2 DEF Retiring, NoChangeLost, Visible
        <4>4. tally[k] \in held[p][k]
          BY <1>p, UserFacts DEF Watches
        <4> QED BY <4>2, <4>3, <4>4
      <3> QED BY <3>1, <3>2
    <2>8. ReadSoFar(r, held[p], document.st)
      BY <2>4, <2>7 DEF ReadSoFar
    <2> QED BY <1>p, <2>2, <2>3, <2>4, <2>5, <2>6, <2>8, ReaderStep
  <1> QED BY <1>p, <1>1, <1>2

\* A shard that is not listed has no rows: the store has none there either.
LEMMA ListsShards ==
    ASSUME KeyedInv, NEW p \in Users, ListShards(p)
    PROVE  KeyedInv'
  <1>t. user[p] \in UserRecs /\ user \in [Users -> UserRecs]
    BY UserFacts
  <1> DEFINE files == {b \in Buckets : HasShard(b)}
             r == [user[p] EXCEPT !.pc = "scan", !.todo = files]
  <1>p. /\ user[p].pc = "list"
        /\ user' = [user EXCEPT ![p].pc = "scan", ![p].todo = files, ![p].out = user[p].out]
        /\ UNCHANGED <<document, marker, shard, version, damaged, holder, tally, held, kleft>>
    BY DEF ListShards, List, Here
  <1>f. \A k \in StateKeys : BucketOf[k] \notin files => shard[BucketOf[k]][k] = 0
    BY NoShard, KeyedAssumption
  <1>g. files \in SUBSET Buckets
    OBVIOUS
  <1> HIDE DEF files
  <1>1. r \in UserRecs
    BY <1>t, <1>g DEF UserRecs, StorePcs
  <1>2. Becomes(p, r)
    BY <1>p, <1>t DEF Becomes, UserRecs
  <1>3. /\ r.pc = "scan" /\ r.op = user[p].op /\ r.key = user[p].key /\ r.migrated = user[p].migrated
        /\ r.marked = user[p].marked /\ r.out = user[p].out /\ r.failed = user[p].failed
        /\ r.todo = files /\ r.cache = user[p].cache
    BY <1>t DEF UserRecs
  <1> HIDE DEF r
  <1>4. WriterKnows(r, document.st)
    BY <1>p, <1>3, UserFacts DEF WriterKnows
  <1>5. CacheFits(r)
    BY <1>3, UserFacts DEF CacheFits
  <1>6. ASSUME NEW k \in StateKeys,
               user[p].out[k] \in held[p][k] \/ (user[p].out[k] = 0 /\ document.st # "doc")
        PROVE  \/ user[p].out[k] \in held[p][k]
               \/ user[p].out[k] = 0 /\ document.st # "doc" /\ BucketOf[k] \in files
    BY <1>6, <1>f, <1>p, ShardsTell
  <1>7. ReadSoFar(r, held[p], document.st)
    <2>1. ReadSoFar(user[p], held[p], document.st)
      BY UserFacts
    <2> QED BY <1>p, <1>3, <1>6, <2>1 DEF ReadSoFar
  <1> QED BY <1>p, <1>1, <1>2, <1>3, <1>4, <1>5, <1>7, ReaderStep

\* The same for a reader that knows that the document is gone.
LEMMA PlanReads ==
    ASSUME KeyedInv, NEW p \in Users, PlanRead(p)
    PROVE  KeyedInv'
  <1>0. KeyedTypes
    BY DEF KeyedInv
  <1>t. user[p] \in UserRecs /\ user \in [Users -> UserRecs]
    BY UserFacts
  <1> DEFINE files == {b \in Buckets : HasShard(b)}
             caches == [b \in Buckets |-> IF HasShard(b) THEN user[p].cache[b] ELSE Uncached]
             r == [user[p] EXCEPT !.pc = "scan", !.todo = files, !.cache = caches]
  <1>p. /\ user[p].pc = "plan" /\ user[p].op \in {"snapshot", "cached"}
        /\ user' = [user EXCEPT ![p].pc = "scan", ![p].todo = files, ![p].cache = caches]
        /\ UNCHANGED <<document, marker, shard, version, damaged, holder, tally, held, kleft>>
    BY DEF PlanRead, Here, Does
  <1>f. \A k \in StateKeys : BucketOf[k] \notin files => shard[BucketOf[k]][k] = 0
    BY NoShard, KeyedAssumption
  <1>g. files \in SUBSET Buckets
    OBVIOUS
  <1>h. Uncached \in [sig : Nat, rows : RowSets] /\ Uncached.sig = 0
    BY DEF Uncached, NoRows, RowSets
  <1>c. /\ caches \in [Buckets -> [sig : Nat, rows : RowSets]]
        /\ \A b \in Buckets : caches[b] \in {user[p].cache[b], Uncached}
    BY <1>t, <1>h DEF UserRecs
  <1> HIDE DEF files, caches
  <1>1. r \in UserRecs
    BY <1>t, <1>g, <1>c DEF UserRecs, StorePcs
  <1>2. Becomes(p, r)
    BY <1>p, <1>t DEF Becomes, UserRecs
  <1>3. /\ r.pc = "scan" /\ r.op = user[p].op /\ r.key = user[p].key /\ r.migrated = user[p].migrated
        /\ r.marked = user[p].marked /\ r.out = user[p].out /\ r.failed = user[p].failed
        /\ r.todo = files /\ r.cache = caches
    BY <1>t DEF UserRecs
  <1> HIDE DEF r
  <1>4. WriterKnows(r, document.st)
    BY <1>p, <1>3, UserFacts DEF WriterKnows
  <1>5. CacheFits(r)
    <2>1. \A b \in Buckets : FitsFile(user[p].cache[b], b)
      BY UserFacts DEF CacheFits
    <2>2. \A b \in Buckets : FitsFile(Uncached, b)
      BY <1>0, <1>h DEF FitsFile, KeyedTypes
    <2>3. \A b \in Buckets : FitsFile(caches[b], b)
      BY <1>c, <2>1, <2>2
    <2> QED BY <1>3, <2>3 DEF CacheFits
  <1>6. document.st # "doc" /\ user[p].out = NoRows
    BY <1>p, UserFacts DEF WriterKnows, ReadSoFar
  <1>7. ASSUME NEW k \in StateKeys
        PROVE  user[p].out[k] \in held[p][k] \/ (user[p].out[k] = 0 /\ BucketOf[k] \in files)
    <2>1. user[p].out[k] = 0
      BY <1>6 DEF NoRows
    <2>2. shard[BucketOf[k]][k] \in held[p][k]
      BY <1>p, <1>6, ShardsTell
    <2> QED BY <1>f, <2>1, <2>2
  <1>8. ReadSoFar(r, held[p], document.st)
    BY <1>3, <1>6, <1>7 DEF ReadSoFar
  <1> QED BY <1>p, <1>1, <1>2, <1>3, <1>4, <1>5, <1>8, ReaderStep

\* What a shard's rows do to what was read so far.
LEMMA Overlays ==
    ASSUME NEW out \in RowSets, NEW rows \in RowSets, NEW b
    PROVE  /\ Overlaid(out, b, rows) \in RowSets
           /\ \A k \in StateKeys : BucketOf[k] # b => Overlaid(out, b, rows)[k] = out[k]
           /\ \A k \in StateKeys : BucketOf[k] = b =>
                 Overlaid(out, b, rows)[k] = IF rows[k] # 0 THEN rows[k] ELSE out[k]
  BY DEF Overlaid, RowSets

\* A shard is read.
LEMMA ReadShards ==
    ASSUME KeyedInv, NEW p \in Users, NEW b \in Buckets, ReadShard(p, b)
    PROVE  KeyedInv'
  <1>0. KeyedTypes /\ NoChangeLost
    BY DEF KeyedInv
  <1>t. user[p] \in UserRecs /\ user \in [Users -> UserRecs] /\ shard[b] \in RowSets
    BY <1>0, UserFacts DEF KeyedTypes
  <1>o. user[p].out \in RowSets /\ user[p].failed \in BOOLEAN /\ user[p].todo \in SUBSET Buckets
    BY <1>t DEF UserRecs
  <1> DEFINE f == user[p].failed \/ b \in damaged
             got == IF b \in damaged THEN user[p].out ELSE Overlaid(user[p].out, b, shard[b])
             rest == user[p].todo \ {b}
             r == [user[p] EXCEPT !.todo = rest, !.failed = f, !.out = got]
  <1>p. /\ user[p].pc = "scan" /\ user[p].op # "cached"
        /\ UNCHANGED <<document, marker, shard, version, damaged, holder, tally, held, kleft>>
        /\ Fails(p) \/ user' = [user EXCEPT ![p].todo = rest, ![p].failed = f, ![p].out = got]
    BY DEF ReadShard, Here, Does
  <1>1. CASE Fails(p)
    BY <1>1, <1>p, Rested, AloneStep
  <1>2. CASE user' = [user EXCEPT ![p].todo = rest, ![p].failed = f, ![p].out = got]
    <2>g. got \in RowSets /\ rest \in SUBSET Buckets
      BY <1>t, <1>o, Overlays
    <2>f. f \in BOOLEAN
      OBVIOUS
    <2>d. f = FALSE => user[p].failed = FALSE /\ b \notin damaged
      BY <1>o
    <2>s. b \notin damaged => got = Overlaid(user[p].out, b, shard[b])
      OBVIOUS
    <2>r. \A c : c \in user[p].todo /\ c # b => c \in rest
      OBVIOUS
    <2> HIDE DEF got, f, rest
    <2>1. r \in UserRecs
      BY <1>t, <2>g, <2>f DEF UserRecs
    <2>2. Becomes(p, r)
      BY <1>2, <1>t DEF Becomes, UserRecs
    <2>3. /\ r.pc = "scan" /\ r.op = user[p].op /\ r.key = user[p].key /\ r.migrated = user[p].migrated
          /\ r.marked = user[p].marked /\ r.out = got /\ r.todo = rest /\ r.cache = user[p].cache
      BY <1>t, <1>p DEF UserRecs
    <2>b. r.failed = f
      BY <1>t DEF UserRecs
    <2> HIDE DEF r
    <2>4. WriterKnows(r, document.st)
      BY <1>p, <2>3, UserFacts DEF WriterKnows
    <2>5. CacheFits(r)
      BY <2>3, UserFacts DEF CacheFits
    <2>6. ASSUME NEW k \in StateKeys, "document" \notin damaged, f = FALSE
          PROVE  \/ got[k] \in held[p][k]
                 \/ got[k] = 0 /\ document.st # "doc" /\ BucketOf[k] \in rest
      <3>1. \/ user[p].out[k] \in held[p][k]
            \/ user[p].out[k] = 0 /\ document.st # "doc" /\ BucketOf[k] \in user[p].todo
        BY <1>p, <2>6, <2>d, UserFacts DEF ReadSoFar
      <3>2. got = Overlaid(user[p].out, b, shard[b])
        BY <2>6, <2>d, <2>s
      <3>3. CASE BucketOf[k] # b
        <4>1. got[k] = user[p].out[k]
          BY <1>t, <1>o, <3>2, <3>3, Overlays
        <4> QED BY <3>1, <3>3, <4>1, <2>r
      <3>4. CASE BucketOf[k] = b
        <4>1. got[k] = IF shard[b][k] # 0 THEN shard[b][k] ELSE user[p].out[k]
          BY <1>t, <1>o, <3>2, <3>4, Overlays
        <4>2. CASE shard[b][k] # 0
          <5>1. shard[b][k] = tally[k]
            BY <1>0, <3>4, <4>2 DEF NoChangeLost, Visible
          <5> QED BY <1>p, <4>1, <4>2, <5>1, UserFacts DEF Watches
        <4>3. CASE shard[b][k] = 0
          BY <1>p, <3>1, <3>4, <4>1, <4>3, ShardsTell
        <4> QED BY <4>2, <4>3
      <3> QED BY <3>3, <3>4
    <2>7. ReadSoFar(r, held[p], document.st)
      BY <2>3, <2>b, <2>f, <2>6 DEF ReadSoFar
    <2> QED BY <1>p, <2>1, <2>2, <2>3, <2>4, <2>5, <2>7, ReaderStep
  <1> QED BY <1>p, <1>1, <1>2

\* What the signature of a file says.
LEMMA Signatures ==
    ASSUME KeyedInv, NEW b \in Buckets
    PROVE  /\ version[b] \in Nat \ {0} /\ Signature(b) \in Nat /\ Signature(b) <= version[b]
           /\ Signature(b) # 0 => Signature(b) = version[b]
  <1>1. version[b] \in Nat \ {0}
    BY DEF KeyedInv, KeyedTypes
  <1> QED BY <1>1 DEF Signature

\* A file with the signature of what was kept is not read again.
LEMMA CacheLooks ==
    ASSUME KeyedInv, NEW p \in Users, NEW b \in Buckets, CacheLook(p, b)
    PROVE  KeyedInv'
  <1>t. user[p] \in UserRecs /\ user \in [Users -> UserRecs]
    BY UserFacts
  <1>o. /\ user[p].out \in RowSets /\ user[p].todo \in SUBSET Buckets
        /\ user[p].cache \in [Buckets -> [sig : Nat, rows : RowSets]]
    BY <1>t DEF UserRecs
  <1>h. Uncached \in [sig : Nat, rows : RowSets] /\ Uncached.sig = 0
    BY DEF Uncached, NoRows, RowSets
  <1> DEFINE hit == Signature(b) # 0 /\ user[p].cache[b].sig = Signature(b)
             got == IF hit THEN Overlaid(user[p].out, b, user[p].cache[b].rows) ELSE user[p].out
             rest == user[p].todo \ {b}
             to == IF hit THEN "scan" ELSE "fill"
             caches == [user[p].cache EXCEPT ![b] = IF hit THEN @ ELSE Uncached]
             r == [user[p] EXCEPT !.todo = rest, !.pc = to, !.at = b, !.sig = Signature(b),
                                  !.out = got, !.cache = caches]
  <1>p. /\ user[p].pc = "scan" /\ user[p].op = "cached"
        /\ UNCHANGED <<document, marker, shard, version, damaged, holder, tally, held, kleft>>
    BY DEF CacheLook, Here, Does
  <1>q. user' = [user EXCEPT ![p] = r]
    BY <1>t DEF CacheLook, UserRecs
  <1>d. document.st # "doc"
    BY <1>p, UserFacts DEF WriterKnows
  <1>k. /\ caches \in [Buckets -> [sig : Nat, rows : RowSets]]
        /\ \A c \in Buckets : caches[c] \in {user[p].cache[c], Uncached}
    BY <1>o, <1>h
  <1>g. got \in RowSets /\ rest \in SUBSET Buckets /\ to \in {"scan", "fill"}
    BY <1>o, Overlays
  <1>r. \A c : c \in user[p].todo /\ c # b => c \in rest
    OBVIOUS
  <1>f. \A c \in Buckets : FitsFile(user[p].cache[c], c)
    BY UserFacts DEF CacheFits
  <1>y. CASE hit
    <2>1. to = "scan" /\ got = Overlaid(user[p].out, b, user[p].cache[b].rows)
      BY <1>y
    <2>2. user[p].cache[b].rows = shard[b] /\ b \notin damaged
      BY <1>y, <1>f, Signatures DEF FitsFile
    <2>3. user[p].cache[b].rows \in RowSets
      BY <1>o
    <2> HIDE DEF got, rest, to, caches, hit
    <2>4. r \in UserRecs
      BY <1>t, <1>g, <1>k, Signatures DEF UserRecs, StorePcs
    <2>5. Becomes(p, r)
      BY <1>q DEF Becomes
    <2>6. /\ r.pc = "scan" /\ r.op = user[p].op /\ r.key = user[p].key /\ r.migrated = user[p].migrated
          /\ r.marked = user[p].marked /\ r.out = got /\ r.todo = rest /\ r.cache = caches
          /\ r.failed = user[p].failed
      BY <1>t, <1>p, <2>1 DEF UserRecs
    <2> HIDE DEF r
    <2>7. WriterKnows(r, document.st)
      BY <1>p, <1>d, <2>6, UserFacts DEF WriterKnows
    <2>8. CacheFits(r)
      <3>1. \A c \in Buckets : FitsFile(Uncached, c)
        BY <1>h, Signatures DEF FitsFile
      <3>2. \A c \in Buckets : FitsFile(caches[c], c)
        BY <1>f, <1>k, <3>1
      <3> QED BY <2>6, <3>2 DEF CacheFits
    <2>9. ASSUME NEW k \in StateKeys, "document" \notin damaged, ~user[p].failed
          PROVE  \/ got[k] \in held[p][k]
                 \/ got[k] = 0 /\ document.st # "doc" /\ BucketOf[k] \in rest
      <3>1. \/ user[p].out[k] \in held[p][k]
            \/ user[p].out[k] = 0 /\ document.st # "doc" /\ BucketOf[k] \in user[p].todo
        BY <1>p, <2>9, UserFacts DEF ReadSoFar
      <3>2. CASE BucketOf[k] # b
        <4>1. got[k] = user[p].out[k]
          BY <1>o, <2>1, <2>3, <3>2, Overlays
        <4> QED BY <3>1, <3>2, <4>1, <1>r
      <3>3. CASE BucketOf[k] = b
        <4>1. got[k] = IF shard[b][k] # 0 THEN shard[b][k] ELSE user[p].out[k]
          BY <1>o, <2>1, <2>2, <2>3, <3>3, Overlays
        <4>2. shard[b][k] \in held[p][k]
          BY <1>p, <1>d, <3>3, ShardsTell
        <4> QED BY <3>1, <4>1, <4>2
      <3> QED BY <3>2, <3>3
    <2>10. ReadSoFar(r, held[p], document.st)
      BY <2>6, <2>9 DEF ReadSoFar
    <2> QED BY <1>p, <2>4, <2>5, <2>6, <2>7, <2>8, <2>10, ReaderStep
  <1>n. CASE ~hit
    <2>1. to = "fill" /\ got = user[p].out
      BY <1>n
    <2> HIDE DEF got, rest, to, caches, hit
    <2>4. r \in UserRecs
      BY <1>t, <1>g, <1>k, Signatures DEF UserRecs, StorePcs
    <2>5. Becomes(p, r)
      BY <1>q DEF Becomes
    <2>6. /\ r.pc = "fill" /\ r.op = user[p].op /\ r.key = user[p].key /\ r.migrated = user[p].migrated
          /\ r.marked = user[p].marked /\ r.out = user[p].out /\ r.todo = rest /\ r.cache = caches
          /\ r.failed = user[p].failed /\ r.at = b /\ r.sig = Signature(b)
      BY <1>t, <2>1 DEF UserRecs
    <2> HIDE DEF r
    <2>7. WriterKnows(r, document.st)
      BY <1>p, <1>d, <2>6, UserFacts DEF WriterKnows
    <2>8. CacheFits(r)
      <3>1. \A c \in Buckets : FitsFile(Uncached, c)
        BY <1>h, Signatures DEF FitsFile
      <3>2. \A c \in Buckets : FitsFile(caches[c], c)
        BY <1>f, <1>k, <3>1
      <3> QED BY <2>6, <3>2, Signatures DEF CacheFits
    <2>9. ASSUME NEW k \in StateKeys, "document" \notin damaged, ~user[p].failed
          PROVE  \/ user[p].out[k] \in held[p][k]
                 \/ /\ user[p].out[k] = 0 /\ document.st # "doc"
                    /\ BucketOf[k] \in rest \/ b = BucketOf[k]
      BY <1>p, <1>r, <2>9, UserFacts DEF ReadSoFar
    <2>10. ReadSoFar(r, held[p], document.st)
      BY <2>6, <2>9 DEF ReadSoFar
    <2> QED BY <1>p, <2>4, <2>5, <2>6, <2>7, <2>8, <2>10, ReaderStep
  <1> QED BY <1>y, <1>n

\* Another one is read, after its signature.
LEMMA CacheReads ==
    ASSUME KeyedInv, NEW p \in Users, CacheRead(p)
    PROVE  KeyedInv'
  <1>0. KeyedTypes
    BY DEF KeyedInv
  <1>t. user[p] \in UserRecs /\ user \in [Users -> UserRecs]
    BY UserFacts
  <1> DEFINE b == user[p].at
             r == [user[p] EXCEPT !.pc = "keep", !.rows = shard[b]]
  <1>p. /\ user[p].pc = "fill"
        /\ UNCHANGED <<document, marker, shard, version, damaged, holder, tally, held, kleft>>
        /\ Fails(p) \/ (b \notin damaged /\ user' = [user EXCEPT ![p].pc = "keep", ![p].rows = shard[b]])
    BY DEF CacheRead, Here
  <1>1. CASE Fails(p)
    BY <1>1, <1>p, Rested, AloneStep
  <1>2. CASE b \notin damaged /\ user' = [user EXCEPT ![p].pc = "keep", ![p].rows = shard[b]]
    <2>1. /\ b \in Buckets /\ user[p].sig <= version[b] /\ shard[b] \in RowSets
          /\ document.st # "doc" /\ user[p].op = "cached"
      BY <1>0, <1>p, UserFacts DEF CacheFits, WriterKnows, KeyedTypes
    <2>2. r \in UserRecs
      BY <1>t, <2>1 DEF UserRecs, StorePcs
    <2>3. Becomes(p, r)
      BY <1>2, <1>t DEF Becomes, UserRecs
    <2>4. /\ r.pc = "keep" /\ r.op = user[p].op /\ r.key = user[p].key /\ r.migrated = user[p].migrated
          /\ r.marked = user[p].marked /\ r.out = user[p].out /\ r.todo = user[p].todo
          /\ r.cache = user[p].cache /\ r.failed = user[p].failed /\ r.at = b
          /\ r.sig = user[p].sig /\ r.rows = shard[b]
      BY <1>t DEF UserRecs
    <2> HIDE DEF r
    <2>5. WriterKnows(r, document.st)
      BY <1>p, <2>1, <2>4, UserFacts DEF WriterKnows
    <2>6. CacheFits(r)
      <3>1. \A c \in Buckets : FitsFile(user[p].cache[c], c)
        BY UserFacts DEF CacheFits
      <3>2. FitsFile(r, b)
        BY <1>2, <2>1, <2>4 DEF FitsFile
      <3> QED BY <2>1, <2>4, <3>1, <3>2 DEF CacheFits
    <2>7. ASSUME NEW k \in StateKeys, BucketOf[k] = b PROVE shard[b][k] \in held[p][k]
      BY <1>p, <2>1, <2>7, ShardsTell
    <2>8. ReadSoFar(r, held[p], document.st)
      <3>1. ReadSoFar(user[p], held[p], document.st)
        BY UserFacts
      <3> QED BY <1>p, <2>4, <2>7, <3>1 DEF ReadSoFar
    <2> QED BY <1>p, <2>2, <2>3, <2>4, <2>5, <2>6, <2>8, ReaderStep
  <1> QED BY <1>p, <1>1, <1>2

\* And kept when the signature is still the same.
LEMMA CacheKeeps ==
    ASSUME KeyedInv, NEW p \in Users, CacheKeep(p)
    PROVE  KeyedInv'
  <1>t. user[p] \in UserRecs /\ user \in [Users -> UserRecs]
    BY UserFacts
  <1>o. /\ user[p].out \in RowSets /\ user[p].rows \in RowSets /\ user[p].todo \in SUBSET Buckets
        /\ user[p].cache \in [Buckets -> [sig : Nat, rows : RowSets]]
    BY <1>t DEF UserRecs
  <1> DEFINE b == user[p].at
             got == Overlaid(user[p].out, b, user[p].rows)
             entry == [sig |-> Signature(b), rows |-> user[p].rows]
             caches == [user[p].cache EXCEPT ![b] = IF Signature(b) # 0 /\ Steady(p) THEN entry ELSE @]
             r == [user[p] EXCEPT !.pc = "scan", !.out = got, !.cache = caches]
  <1>p. /\ user[p].pc = "keep"
        /\ UNCHANGED <<document, marker, shard, version, damaged, holder, tally, held, kleft>>
    BY DEF CacheKeep, Here
  <1>q. user' = [user EXCEPT ![p] = r]
    BY <1>t DEF CacheKeep, UserRecs
  <1>b. /\ b \in Buckets /\ FitsFile(user[p], b) /\ document.st # "doc" /\ user[p].op = "cached"
        /\ \A c \in Buckets : FitsFile(user[p].cache[c], c)
    BY <1>p, UserFacts DEF CacheFits, WriterKnows
  <1>k. /\ caches \in [Buckets -> [sig : Nat, rows : RowSets]]
        /\ \A c \in Buckets : FitsFile(caches[c], c)
    <2>1. entry \in [sig : Nat, rows : RowSets]
      BY <1>b, <1>o, Signatures
    <2>2. entry.sig = Signature(b) /\ entry.rows = user[p].rows
      OBVIOUS
    <2>3. Signature(b) # 0 /\ Steady(p) => FitsFile(entry, b)
      BY <1>b, <2>2, Signatures DEF FitsFile, Steady
    <2> HIDE DEF entry
    <2>4. \A c \in Buckets : caches[c] = user[p].cache[c] \/ (c = b /\ caches[c] = entry /\ Signature(b) # 0 /\ Steady(p))
      BY <1>b, <1>o
    <2>5. caches \in [Buckets -> [sig : Nat, rows : RowSets]]
      BY <1>b, <1>o, <2>1
    <2> HIDE DEF caches
    <2>6. ASSUME NEW c \in Buckets PROVE FitsFile(caches[c], c)
      BY <1>b, <2>3, <2>4
    <2> QED BY <2>5, <2>6
  <1>g. got \in RowSets
    BY <1>o, Overlays
  <1>v. ASSUME NEW k \in StateKeys
        PROVE  got[k] = IF BucketOf[k] = b /\ user[p].rows[k] # 0 THEN user[p].rows[k] ELSE user[p].out[k]
    BY <1>o, Overlays
  <1> HIDE DEF got, caches
  <1>1. r \in UserRecs
    BY <1>t, <1>g, <1>k DEF UserRecs, StorePcs
  <1>2. Becomes(p, r)
    BY <1>q DEF Becomes
  <1>3. /\ r.pc = "scan" /\ r.op = user[p].op /\ r.key = user[p].key /\ r.migrated = user[p].migrated
        /\ r.marked = user[p].marked /\ r.out = got /\ r.todo = user[p].todo
        /\ r.cache = caches /\ r.failed = user[p].failed
    BY <1>t DEF UserRecs
  <1> HIDE DEF r
  <1>4. WriterKnows(r, document.st)
    BY <1>p, <1>b, <1>3, UserFacts DEF WriterKnows
  <1>5. CacheFits(r)
    BY <1>3, <1>k DEF CacheFits
  <1>6. ASSUME NEW k \in StateKeys, "document" \notin damaged, ~user[p].failed
        PROVE  \/ got[k] \in held[p][k]
               \/ got[k] = 0 /\ document.st # "doc" /\ BucketOf[k] \in user[p].todo
    <2>1. \/ user[p].out[k] \in held[p][k]
          \/ /\ user[p].out[k] = 0 /\ document.st # "doc"
             /\ BucketOf[k] \in user[p].todo \/ b = BucketOf[k]
      BY <1>p, <1>6, UserFacts DEF ReadSoFar
    <2>2. BucketOf[k] = b => user[p].rows[k] \in held[p][k]
      BY <1>p, UserFacts DEF ReadSoFar
    <2> QED BY <1>v, <2>1, <2>2
  <1>7. ReadSoFar(r, held[p], document.st)
    BY <1>3, <1>6 DEF ReadSoFar
  <1> QED BY <1>p, <1>1, <1>2, <1>3, <1>4, <1>5, <1>7, ReaderStep

\* Of what a process is to do.
LEMMA NextAndRest ==
    ASSUME NEW S, NEW s \in Seq(S), s # <<>>
    PROVE  s[1] \in S /\ Tail(s) \in Seq(S)
  OBVIOUS

\* An operation begins: what it sees is watched from here.
LEMMA BeginOps ==
    ASSUME KeyedInv, NEW p \in Users, BeginOp(p)
    PROVE  KeyedInv'
  <1>0. KeyedTypes /\ NoChangeLost
    BY DEF KeyedInv
  <1>t. user[p] \in UserRecs /\ user \in [Users -> UserRecs]
    BY UserFacts
  <1>u. user[p].migrated \in BOOLEAN
    BY <1>t DEF UserRecs
  <1> DEFINE op == kleft.ops[p][1].op
             key == kleft.ops[p][1].key
             to == IF op \in {"all", "strict"} THEN "marker"
                   ELSE IF user[p].migrated THEN "plan" ELSE "ensure"
             now == [j \in StateKeys |-> Visible(j)]
             r == [user[p] EXCEPT !.op = op, !.key = key, !.pc = to]
  <1>p. /\ user[p].pc = "idle" /\ kleft.ops[p] # <<>>
        /\ UNCHANGED <<document, marker, shard, version, damaged, holder, tally>>
        /\ kleft' = [kleft EXCEPT !.ops[p] = Tail(@)]
        /\ held' = [held EXCEPT ![p] = Watching(p, now)]
    BY DEF BeginOp, Here
  <1>q. user' = [user EXCEPT ![p] = r]
    BY <1>t DEF BeginOp, UserRecs
  <1>k. /\ kleft \in [doc : RowSets, ops : [Users -> Seq([op : StoreOps, key : StateKeys])],
                      crash : Nat, damage : Nat]
        /\ kleft.ops[p] \in Seq([op : StoreOps, key : StateKeys])
    BY <1>0 DEF KeyedTypes
  <1>l. /\ kleft.ops[p][1] \in [op : StoreOps, key : StateKeys]
        /\ Tail(kleft.ops[p]) \in Seq([op : StoreOps, key : StateKeys])
    BY <1>p, <1>k, NextAndRest
  <1>e. op \in StoreOps /\ key \in StateKeys
    BY <1>l
  <1>m. kleft' \in [doc : RowSets, ops : [Users -> Seq([op : StoreOps, key : StateKeys])],
                    crash : Nat, damage : Nat]
    BY <1>p, <1>k, <1>l
  <1>w. /\ to \in {"marker", "plan", "ensure"}
        /\ to = "marker" => op \in {"all", "strict"}
        /\ to = "plan" => user[p].migrated = TRUE
    BY <1>u
  <1>n. \A k \in StateKeys : now[k] = tally[k]
    BY <1>0 DEF NoChangeLost
  <1>h. /\ held' \in [Users -> [StateKeys -> SUBSET Nat]]
        /\ \A q \in Users \ {p} : held'[q] = held[q]
        /\ \A k \in StateKeys : tally[k] \in held'[p][k]
    <2>1. held \in [Users -> [StateKeys -> SUBSET Nat]] /\ tally \in RowSets
      BY <1>0 DEF KeyedTypes
    <2> HIDE DEF now
    <2>2. /\ Watching(p, now) \in [StateKeys -> SUBSET Nat]
          /\ \A k \in StateKeys : tally[k] \in Watching(p, now)[k]
      BY <1>n, <2>1 DEF Watching, RowSets
    <2> QED BY <1>p, <2>1, <2>2
  <1> HIDE DEF op, key, to, now
  <1>1. r \in UserRecs
    BY <1>t, <1>e, <1>w DEF UserRecs, StorePcs
  <1>3. /\ r.pc = to /\ r.op = op /\ r.key = key /\ r.migrated = user[p].migrated
        /\ r.marked = user[p].marked /\ r.out = user[p].out /\ r.cache = user[p].cache
    BY <1>t DEF UserRecs
  <1> HIDE DEF r
  <1>2. user' \in [Users -> UserRecs] /\ user'[p] = r /\ \A q \in Users \ {p} : user'[q] = user[q]
    BY <1>1, <1>q, BecomesFits
  <1>4. WriterKnows(user[p], document.st)'
    BY <1>p, <1>e, <1>w, <1>2, <1>3, UserFacts DEF WriterKnows
  <1>5. UnderLock(p)'
    BY <1>w, <1>2, <1>3 DEF UnderLock
  <1>6. CacheFits(user[p])'
    BY <1>p, <1>w, <1>2, <1>3, UserFacts DEF CacheFits, FitsFile
  <1>7. ReadSoFar(user[p], held[p], document.st)'
    BY <1>p, <1>w, <1>2, <1>3, UserFacts DEF ReadSoFar
  <1>8. Watches(p)'
    BY <1>p, <1>h DEF Watches
  <1>9. UserFits(p)'
    BY <1>4, <1>5, <1>6, <1>7, <1>8 DEF UserFits
  <1>10. /\ holder' \in [StoreLocks -> Users \cup {0}]
         /\ \A x \in StoreLocks : holder[x] \notin {0, p} => holder'[x] = holder[x]
    BY <1>0, <1>p DEF KeyedTypes, StoreLocks
  <1> QED BY <1>p, <1>m, <1>h, <1>2, <1>9, <1>10, OwnStep

\* An operation is over.
LEMMA Returns ==
    ASSUME KeyedInv, NEW p \in Users, Return(p)
    PROVE  KeyedInv'
  <1>0. KeyedTypes
    BY DEF KeyedInv
  <1>p. /\ Fails(p) /\ held' = [held EXCEPT ![p] = [k \in StateKeys |-> {}]]
        /\ UNCHANGED <<document, marker, shard, version, damaged, holder, tally, kleft>>
    BY DEF Return
  <1>1. /\ user' \in [Users -> UserRecs]
        /\ \A q \in Users \ {p} : user'[q] = user[q]
        /\ UserFits(p)'
    BY <1>p, Rested
  <1>2. held' \in [Users -> [StateKeys -> SUBSET Nat]] /\ \A q \in Users \ {p} : held'[q] = held[q]
    BY <1>0, <1>p DEF KeyedTypes
  <1>3. /\ holder' \in [StoreLocks -> Users \cup {0}]
        /\ \A x \in StoreLocks : holder[x] \notin {0, p} => holder'[x] = holder[x]
        /\ kleft' \in [doc : RowSets, ops : [Users -> Seq([op : StoreOps, key : StateKeys])],
                       crash : Nat, damage : Nat]
    BY <1>0, <1>p DEF KeyedTypes, StoreLocks
  <1> QED BY <1>p, <1>1, <1>2, <1>3, OwnStep

\* A process dies and its locks are free.
LEMMA Deaths ==
    ASSUME KeyedInv, NEW p \in Users, UserDies(p)
    PROVE  KeyedInv'
  <1>0. KeyedTypes
    BY DEF KeyedInv
  <1>p. /\ user' = [user EXCEPT ![p] = AtRest(NoCache)]
        /\ holder' = [b \in DOMAIN holder |-> IF holder[b] = p THEN 0 ELSE holder[b]]
        /\ held' = [held EXCEPT ![p] = [k \in StateKeys |-> {}]]
        /\ kleft.crash > 0 /\ kleft' = [kleft EXCEPT !.crash = @ - 1]
        /\ UNCHANGED <<document, marker, shard, version, damaged, tally>>
    BY DEF UserDies
  <1>c. NoRows \in RowSets /\ NoCache \in [Buckets -> [sig : Nat, rows : RowSets]]
    BY DEF NoRows, RowSets, Uncached, NoCache
  <1>1. AtRest(NoCache) \in UserRecs
    BY <1>c DEF AtRest, UserRecs, StorePcs
  <1>2. /\ user' \in [Users -> UserRecs] /\ user'[p] = AtRest(NoCache)
        /\ \A q \in Users \ {p} : user'[q] = user[q]
    BY <1>p, <1>1, BecomesFits
  <1>3. /\ user'[p].pc = "idle" /\ user'[p].migrated = FALSE /\ user'[p].marked = FALSE
        /\ user'[p].out = NoRows /\ user'[p].cache = NoCache
    BY <1>2 DEF AtRest
  <1>4. \A b \in Buckets : FitsFile(NoCache[b], b)'
    BY <1>0, <1>p DEF FitsFile, NoCache, Uncached, KeyedTypes
  <1>5. UserFits(p)'
    BY <1>3, <1>4 DEF UserFits, WriterKnows, UnderLock, CacheFits, ReadSoFar, Watches
  <1>6. held' \in [Users -> [StateKeys -> SUBSET Nat]] /\ \A q \in Users \ {p} : held'[q] = held[q]
    BY <1>0, <1>p DEF KeyedTypes
  <1>7. /\ holder' \in [StoreLocks -> Users \cup {0}]
        /\ \A x \in StoreLocks : holder[x] \notin {0, p} => holder'[x] = holder[x]
    BY <1>0, <1>p DEF KeyedTypes, StoreLocks
  <1>8. kleft' \in [doc : RowSets, ops : [Users -> Seq([op : StoreOps, key : StateKeys])],
                    crash : Nat, damage : Nat]
    <2>1. kleft \in [doc : RowSets, ops : [Users -> Seq([op : StoreOps, key : StateKeys])],
                     crash : Nat, damage : Nat]
      BY <1>0 DEF KeyedTypes
    <2>2. kleft.crash - 1 \in Nat
      BY <1>p, <2>1
    <2> QED BY <1>p, <2>1, <2>2
  <1> QED BY <1>p, <1>2, <1>5, <1>6, <1>7, <1>8, OwnStep

\* A file that nobody holds is damaged.
LEMMA DamageFits ==
    ASSUME KeyedInv, NEW what \in Buckets \cup {"document"}, DamageFile(what)
    PROVE  KeyedInv'
  <1>0. KeyedTypes /\ Retiring /\ NoChangeLost
    BY DEF KeyedInv
  <1>p. /\ holder[what] = 0 /\ damaged' = damaged \cup {what}
        /\ version' = [b \in Buckets |-> IF b = what THEN version[b] + 1 ELSE version[b]]
        /\ kleft.damage > 0 /\ kleft' = [kleft EXCEPT !.damage = @ - 1]
        /\ UNCHANGED <<document, marker, shard, holder, user, tally, held>>
    BY DEF DamageFile, Free
  <1>1. /\ version' \in [Buckets -> Nat \ {0}]
        /\ \A c \in Buckets : \/ /\ version'[c] = version[c] /\ shard'[c] = shard[c]
                                 /\ c \in damaged' => c \in damaged
                              \/ version'[c] > version[c]
    <2>1. version \in [Buckets -> Nat \ {0}]
      BY <1>0 DEF KeyedTypes
    <2> QED BY <1>p, <2>1
  <1>8. kleft' \in [doc : RowSets, ops : [Users -> Seq([op : StoreOps, key : StateKeys])],
                    crash : Nat, damage : Nat]
    <2>1. kleft \in [doc : RowSets, ops : [Users -> Seq([op : StoreOps, key : StateKeys])],
                     crash : Nat, damage : Nat]
      BY <1>0 DEF KeyedTypes
    <2>2. kleft.damage - 1 \in Nat
      BY <1>p, <2>1
    <2> QED BY <1>p, <2>1, <2>2
  <1>2. KeyedTypes'
    BY <1>0, <1>p, <1>1, <1>8 DEF KeyedTypes
  <1>3. Retiring'
    BY <1>0, <1>p DEF Retiring
  <1>4. NoChangeLost'
    BY <1>0, <1>p DEF NoChangeLost, Visible
  <1>5. ASSUME NEW q \in Users PROVE UserFits(q)'
    <2>1. UnderLock(q) /\ Watches(q) /\ q # 0
      BY UserFacts, KeyedAssumption
    <2>2. user[q].pc = "write" => holder[user[q].at] = q /\ user[q].at \notin damaged'
      BY <1>p, <2>1 DEF UnderLock
    <2>3. user[q].pc \in {"move", "guard"} => holder["document"] = q /\ "document" \notin damaged'
      BY <1>p, <2>1 DEF UnderLock
    <2>4. user[q].pc # "idle" => \A k \in StateKeys : tally[k] \in held[q][k]
      BY <2>1 DEF Watches
    <2> QED BY <1>p, <1>1, <1>2, <2>2, <2>3, <2>4, Bystander
  <1> QED BY <1>2, <1>3, <1>4, <1>5 DEF KeyedInv

\* Every step keeps what the processes know.
LEMMA KeyedStep == KeyedInv /\ [KeyedNext]_keyedVars => KeyedInv'
  <1> SUFFICES ASSUME KeyedInv, [KeyedNext]_keyedVars PROVE KeyedInv'
    OBVIOUS
  <1>1. ASSUME NEW p \in Users, UserStep(p) PROVE KeyedInv'
    <2>1. ASSUME NEW b \in Buckets,
                 MigrateBucket(p, b) \/ ReadBucket(p, b) \/ ReadShard(p, b) \/ CacheLook(p, b)
          PROVE  KeyedInv'
      BY <2>1, MigrateBuckets, ReadBuckets, ReadShards, CacheLooks
    <2>2. CASE EnsureMarker(p) \/ EnsureLegacy(p) \/ MigrateLock(p) \/ MigrateRename(p)
               \/ \E ok \in BOOLEAN : LeaveRollbackGuard(p, ok)
      BY <2>2, EnsureSteps, MigrateLocks, MigrateRenames, GuardSteps
    <2>3. CASE PlanWrite(p) \/ WriteBucket(p) \/ WriteEnds(p) \/ ReadEnds(p) \/ Return(p)
      BY <2>3, PlanWrites, WriteBuckets, EndsStep, Returns
    <2>4. CASE PlanRead(p) \/ ReadMarker(p) \/ ReadDocument(p) \/ ListShards(p)
               \/ CacheRead(p) \/ CacheKeep(p)
      BY <2>4, PlanReads, ReadMarkers, ReadDocuments, ListsShards, CacheReads, CacheKeeps
    <2> QED BY <1>1, <2>1, <2>2, <2>3, <2>4 DEF UserStep
  <1>2. CASE \E p \in Users : BeginOp(p) \/ UserStep(p) \/ UserDies(p)
    BY <1>1, <1>2, BeginOps, Deaths
  <1>3. CASE \E what \in Buckets \cup {"document"} : DamageFile(what)
    BY <1>3, DamageFits
  <1>4. CASE UNCHANGED keyedVars
    <2>1. KeyedTypes /\ Retiring /\ NoChangeLost /\ \A p \in Users : UserFits(p)
      BY DEF KeyedInv
    <2>2. KeyedTypes'
      BY <1>4, <2>1 DEF keyedVars, KeyedTypes
    <2>3. Retiring' /\ NoChangeLost'
      BY <1>4, <2>1 DEF keyedVars, Retiring, NoChangeLost, Visible
    <2>4. ASSUME NEW p \in Users PROVE UserFits(p)'
      BY <1>4, <2>1, <2>4 DEF keyedVars, UserFits, WriterKnows, UnderLock, CacheFits, FitsFile,
                               ReadSoFar, Watches
    <2> QED BY <2>2, <2>3, <2>4 DEF KeyedInv
  <1> QED BY <1>2, <1>3, <1>4 DEF KeyedNext

\* And that says what the store promises.
LEMMA KeyedInvIsSafe == KeyedInv => KeyedSafe
  <1> SUFFICES ASSUME KeyedInv PROVE KeyedSafe
    OBVIOUS
  <1>1. NoChangeLost
    BY DEF KeyedInv
  <1>2. ReadsAreHonest
    <2> SUFFICES ASSUME NEW p \in Users, user[p].pc = "done",
                        user[p].op \in {"snapshot", "cached", "all", "strict"},
                        ~user[p].failed, "document" \notin damaged, NEW k \in StateKeys
                 PROVE  user[p].out[k] \in held[p][k]
      BY DEF ReadsAreHonest, Here, Does
    <2> QED BY UserFacts DEF ReadSoFar
  <1>3. CacheIsCurrent
    <2> SUFFICES ASSUME NEW p \in Users, NEW b \in Buckets, user[p].cache[b].sig # 0,
                        user[p].cache[b].sig = Signature(b)
                 PROVE  user[p].cache[b].rows = shard[b]
      BY DEF CacheIsCurrent
    <2>1. FitsFile(user[p].cache[b], b)
      BY UserFacts DEF CacheFits
    <2> QED BY <2>1, Signatures DEF FitsFile
  <1> QED BY <1>1, <1>2, <1>3 DEF KeyedSafe

\* Only two steps write a shard and two the document; none of them finds it damaged.
LEMMA DamageSteps == KeyedInv /\ [KeyedNext]_keyedVars => [DamagedIsKept]_keyedVars
  <1> SUFFICES ASSUME KeyedInv, KeyedNext PROVE DamagedIsKept
    OBVIOUS
  <1>0. KeyedTypes
    BY DEF KeyedInv
  <1>1. CASE UNCHANGED <<document, shard>>
    BY <1>1 DEF DamagedIsKept
  <1>2. ASSUME NEW p \in Users, UserStep(p) PROVE DamagedIsKept
    <2>1. ASSUME NEW b \in Buckets, MigrateBucket(p, b) PROVE DamagedIsKept
      <3>1. document' = document
        BY <2>1 DEF MigrateBucket
      <3>2. shard' = shard \/ (b \notin damaged /\ shard' = [shard EXCEPT ![b] = Merged(b)])
        BY <2>1 DEF MigrateBucket, Rewrites
      <3> QED BY <1>0, <3>1, <3>2 DEF DamagedIsKept, KeyedTypes
    <2>2. CASE MigrateRename(p)
      <3>1. "document" \notin damaged /\ shard' = shard
        BY <2>2, UserFacts DEF MigrateRename, Here, UnderLock
      <3> QED BY <3>1 DEF DamagedIsKept
    <2>3. ASSUME NEW ok \in BOOLEAN, LeaveRollbackGuard(p, ok) PROVE DamagedIsKept
      <3>1. document.st # "doc" /\ shard' = shard
        BY <2>3, UserFacts DEF LeaveRollbackGuard, Here, UnderLock
      <3> QED BY <3>1 DEF DamagedIsKept
    <2>4. CASE WriteBucket(p)
      <3>1. document' = document /\ user[p].at \notin damaged
        BY <2>4, UserFacts DEF WriteBucket, Here, UnderLock
      <3>2. shard' = shard \/ \E rows : shard' = [shard EXCEPT ![user[p].at] = rows]
        BY <2>4 DEF WriteBucket, Rewrites
      <3> QED BY <1>0, <3>1, <3>2 DEF DamagedIsKept, KeyedTypes
    <2>5. CASE EnsureMarker(p) \/ EnsureLegacy(p) \/ MigrateLock(p) \/ PlanWrite(p) \/ WriteEnds(p)
      BY <1>1, <2>5, Zenon DEF EnsureMarker, EnsureLegacy, MigrateLock, PlanWrite, WriteEnds
    <2>6. CASE PlanRead(p) \/ ReadMarker(p) \/ ReadDocument(p) \/ ListShards(p)
      BY <1>1, <2>6, Zenon DEF PlanRead, ReadMarker, ReadDocument, ListShards
    <2>7. CASE CacheRead(p) \/ CacheKeep(p) \/ ReadEnds(p) \/ Return(p)
      BY <1>1, <2>7, Zenon DEF CacheRead, CacheKeep, ReadEnds, Return
    <2>8. ASSUME NEW b \in Buckets, ReadBucket(p, b) \/ ReadShard(p, b) \/ CacheLook(p, b)
          PROVE  DamagedIsKept
      BY <1>1, <2>8, Zenon DEF ReadBucket, ReadShard, CacheLook
    <2> QED BY <1>2, <2>1, <2>2, <2>3, <2>4, <2>5, <2>6, <2>7, <2>8 DEF UserStep
  <1>3. ASSUME NEW p \in Users, BeginOp(p) \/ UserDies(p) PROVE DamagedIsKept
    BY <1>1, <1>3 DEF BeginOp, UserDies
  <1>4. ASSUME NEW what \in Buckets \cup {"document"}, DamageFile(what) PROVE DamagedIsKept
    BY <1>1, <1>4 DEF DamageFile
  <1> QED BY <1>2, <1>3, <1>4 DEF KeyedNext

----------------------------------------------------------------------------
(* The specification of the host.                                           *)

LEMMA HostExports == [Next]_hostVars => [ExportNext]_exportVars
  BY DEF Next, hostVars, recordVars, exportVars

LEMMA HostSessions == [Next]_hostVars => [ConNext]_conVars
  BY DEF Next, hostVars, serviceVars, conVars

LEMMA HostStore == [Next]_hostVars => [KeyedNext]_keyedVars
  BY DEF Next, hostVars, serviceVars, recordVars, keyedVars

\* A password goes only where an operator sent it, whatever fails or crashes between
\* the settings file and the secret (save_configuration, run_export).
THEOREM PasswordsStayWithTheirSite == Spec => []PasswordsGoWhereSent
<1>1. Init => ExportInv
  BY ExportStarts DEF Init
<1>2. ExportInv /\ [Next]_hostVars => ExportInv'
  BY ExportKeeps, HostExports
<1>3. ExportInv => PasswordsGoWhereSent
  BY DEF ExportInv, PairsAgree, PasswordsGoWhereSent
<1> QED BY <1>1, <1>2, <1>3, PTL DEF Spec

\* No late result of an export changes the destination, and after a drain both files
\* stay as they are and nothing runs (_record_result, drain_exports).
THEOREM DrainedExportsStayAtRest ==
  Spec => [][DrainIsFinal /\ ResultsChangeNoDestination]_exportVars
<1>1. Init => ExportInv
  BY ExportStarts DEF Init
<1>2. ExportInv /\ [Next]_hostVars => ExportInv'
  BY ExportKeeps, HostExports
<1>3. ExportInv /\ [Next]_hostVars => [DrainIsFinal /\ ResultsChangeNoDestination]_exportVars
  BY ExportLeaves, HostExports
<1> QED BY <1>1, <1>2, <1>3, PTL DEF Spec

\* No request is served with a session that a reset, a change of the password or its
\* idle time has ended, and one setup wins, in any interleaving of the threads with
\* iris-gui-admin and restarts (session_info, _sessions_not_before, login,
\* _claim_admin).
THEOREM EndedSessionsAreNotServed == Spec => []ConsoleSafe
<1>1. Init => ConInv
  BY ConStarts DEF Init
<1>2. ConInv /\ [Next]_hostVars => ConInv'
  BY ConKeeps, HostSessions
<1> QED BY <1>1, <1>2, ConIsSafe, PTL DEF Spec

\* No step lowers the floor under the sessions (set_admin, iris-gui-admin).
THEOREM NoChangeReopensSessions == Spec => [][FloorNeverFalls]_conVars
<1>1. Init => ConInv
  BY ConStarts DEF Init
<1>2. ConInv /\ [Next]_hostVars => ConInv'
  BY ConKeeps, HostSessions
<1>3. ConInv /\ [Next]_hostVars => [FloorNeverFalls]_conVars
  BY FloorRises, HostSessions
<1> QED BY <1>1, <1>2, <1>3, PTL DEF Spec

\* Every change made to a row is in the store and nothing else is, a read of the whole
\* store returns what each row held while it ran, and what is kept under a file's
\* signature is what the file holds: for any number of processes that read, write and
\* migrate the store at the same time, die at any step or meet damaged files
\* (_ensure_migrated, update, update_many, sweep, snapshot, read_all).
THEOREM TheStoreLosesNothing == Spec => []KeyedSafe
<1>1. Init => KeyedInv
  BY KeyedStarts DEF Init
<1>2. KeyedInv /\ [Next]_hostVars => KeyedInv'
  BY KeyedStep, HostStore
<1> QED BY <1>1, <1>2, KeyedInvIsSafe, PTL DEF Spec

\* No step writes over a shard that cannot be read, or retires a document that cannot
\* be (_read_shard, _ensure_migrated).
THEOREM DamagedFilesAreLeftAlone == Spec => [][DamagedIsKept]_keyedVars
<1>1. Init => KeyedInv
  BY KeyedStarts DEF Init
<1>2. KeyedInv /\ [Next]_hostVars => KeyedInv'
  BY KeyedStep, HostStore
<1>3. KeyedInv /\ [Next]_hostVars => [DamagedIsKept]_keyedVars
  BY DamageSteps, HostStore
<1> QED BY <1>1, <1>2, <1>3, PTL DEF Spec
=============================================================================
