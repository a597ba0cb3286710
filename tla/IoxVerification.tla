--------------------------- MODULE IoxVerification ---------------------------
(***************************************************************************)
(* The IOx controller (server/iox_verification.py) and its journal in the  *)
(* deployment records (server/deployment_records.py, iox_begin ...).       *)
(*                                                                         *)
(* Installing the unsigned IOx wrapper needs the switch's device-wide app  *)
(* signature verification off.  The controller turns it off, installs and  *)
(* turns it on again, and writes to a journal before and after each of     *)
(* these steps, so that an attempt cut off anywhere leaves an obligation   *)
(* the next attempt on the board finds.  The same attempt may turn the     *)
(* device's SCP server on, and leaves a file with instructions on its      *)
(* flash for a moment; both are recorded too.  One board is modelled:      *)
(* everything the controller shares between boards is its capacity limits. *)
(*                                                                         *)
(* A device command is modelled by its effect and by what the controller   *)
(* learns; a session that could not be reaped may still take effect later. *)
(* A read-only command and the journal event it is evidence for are one    *)
(* step: a crash between the two leaves the state before the read.         *)
(***************************************************************************)
EXTENDS Naturals, FiniteSets

CONSTANTS Attempts,     \* concurrent calls of the controller
          MaxRec,       \* deployment records the board can get
          Markers,      \* whether the wrapper carries a signature marker
          Budgets       \* bounds on attempts at a time, jobs, restarts of the
                        \* container, faults, changes made by the operator

ASSUME IoxAssumption ==
  /\ Attempts \subseteq Nat \ {0} /\ Markers \subseteq BOOLEAN
  /\ MaxRec \in Nat
  /\ \A b \in Budgets : b \in [slots : Nat, jobs : Nat, crash : Nat,
                               faults : Nat, toggles : Nat]

VARIABLES verif,     \* "on" | "off": app signature verification, on the device
          scp,       \* the device's SCP server is on
          srcFile,   \* the instruction source file is on the device's flash
          journals,  \* record -> IOx journal
          claims,    \* record -> phase of its scp_server claim
          ended,     \* records in a terminal state
          lastRec,   \* records prepared so far
          att,       \* attempt -> its local state
          boardLock, \* attempt that holds the board's flock, 0 if none
          fence,     \* the board's session fence file
          boot,      \* boot identity: counts the container's starts
          stray,     \* an unreaped session: its attempt, the effect to come
          taken,     \* ghost: verification is off by a command of ours that
                     \* took effect while a journal was unresolved
          scpTaken,  \* ghost: the SCP server is on because of us
          enables,   \* ghost: record -> enable commands sent for it
          left       \* what is left of the model's bounds

ioxVars == <<verif, scp, srcFile, journals, claims, ended, lastRec, att,
             boardLock, fence, boot, stray, taken, scpTaken, enables, left>>
device == <<verif, scp, srcFile, stray, taken, scpTaken, enables>>
records == <<journals, claims, ended, lastRec>>
custody == <<boardLock, fence, boot>>

RecordIds == 1..MaxRec
Unresolved == {"disable_intent", "disabled_confirmed", "installing",
               "ownership_probe", "restore_intent", "indeterminate"}
Terminal == {"restored", "unchanged", "relinquished"}
ClaimHeld == {"enable_intent", "enabled"}
Kinds == {"install", "uninstall", "force", "recover", "reconcile"}

NoJournal == [phase |-> "none", rev |-> 0, error |-> FALSE, pending |-> FALSE,
              marker |-> FALSE, prior |-> "unknown"]
NoAttempt == [pc |-> "idle", kind |-> "install", rec |-> 0, at |-> 0, seen |-> NoJournal,
              back |-> "none", rank |-> 0, sends |-> 0, primary |-> FALSE,
              owned |-> FALSE]
NoStray == [by |-> 0, effect |-> "none"]

\* Mutant: a file left on the device is no obligation of the board.
Owed_Phase(r) == journals[r].phase \in Unresolved
Owed(r) == journals[r].phase \in Unresolved \/ journals[r].pending
Obligations == {r \in RecordIds : Owed(r)}

IoxInit ==
  /\ verif \in {"on", "off"} /\ scp \in BOOLEAN /\ srcFile = FALSE
  /\ journals = [r \in RecordIds |-> NoJournal]
  /\ claims = [r \in RecordIds |-> "none"]
  /\ ended = {} /\ lastRec = 0
  /\ att = [a \in Attempts |-> NoAttempt]
  /\ boardLock = 0 /\ fence = [state |-> "none", boot |-> 0]
  /\ boot = 1 /\ stray = NoStray /\ taken = FALSE
  /\ scpTaken = FALSE /\ enables = [r \in RecordIds |-> 0]
  /\ left \in Budgets

(***************************************************************************)
(* Steps of an attempt.                                                    *)
(***************************************************************************)
Spent(n) == left.faults >= n /\ left' = [left EXCEPT !.faults = @ - n]
\* The attempt goes on where only it can: the place is the single-use
\* continuation, which no other process or attempt can hold.
On(a, pc) == [att EXCEPT ![a].pc = pc]
Goto2(a, pc) == att' = On(a, pc)
\* A failure the attempt keeps as its result.
Failed(a, pc) == [att EXCEPT ![a].pc = pc, ![a].primary = TRUE]
Fail(a, pc) == att' = Failed(a, pc)

\* A journal event: compare-and-set on revision and phase, then one durable
\* write.  A write that fails, before or after it took effect, makes the
\* attempt uncertain: nothing may follow but its end.  n faults were met
\* on the way to the event.
Event(a, r, j, after, n) ==
  LET new == [journals EXCEPT ![r] = [j EXCEPT !.rev = journals[r].rev + 1]]
  IN  \/ Spent(n) /\ journals' = new /\ att' = after
      \/ /\ Spent(n + 1) /\ journals' \in {journals, new}
         /\ att' = [att EXCEPT ![a].pc = "final", ![a].primary = TRUE]
Becomes(r, p) == [journals[r] EXCEPT !.phase = p]

\* A read of the verification state returns it, or nothing it can rely on.
Reads == {verif, "unknown"}
ReadCost(s) == IF s = "unknown" THEN 1 ELSE 0

\* A command that sets the verification state.  It is confirmed, and took
\* effect.  Or it failed, with or without effect.  Or it failed and its
\* session could not be reaped, so that the effect may still come.
Confirmed(v) == verif' = v /\ taken' = (v = "off") /\ UNCHANGED stray
Unconfirmed(a, v, said) ==
  \/ verif' = v /\ taken' = (v = "off") /\ UNCHANGED stray
  \/ UNCHANGED <<verif, taken, stray>>
  \/ /\ said = "failed" /\ stray = NoStray
     /\ stray' = [by |-> a, effect |-> v] /\ UNCHANGED <<verif, taken>>

(***************************************************************************)
(* Admission: the request, the board lock, the session fence, and what     *)
(* is owed on the board.                                                   *)
(***************************************************************************)
\* A recorded undeploy and the two repairs copy the journal before the lock.
Request(a, k, r) ==
  /\ att[a].pc = "idle" /\ a <= left.slots
  /\ CASE k \in {"install", "force"} -> r = 0
       [] k = "uninstall" -> r \in 1..lastRec \ ended
       [] k = "recover" -> r \in Obligations /\ Cardinality(Obligations) = 1
       [] OTHER -> r \in RecordIds /\ journals[r].phase = "indeterminate"
  /\ IF k \in {"recover", "reconcile"} THEN UNCHANGED left
     ELSE left.jobs > 0 /\ left' = [left EXCEPT !.jobs = @ - 1]
  /\ k = "install" => lastRec < MaxRec
  /\ att' = [att EXCEPT ![a] = [NoAttempt EXCEPT
       !.pc = "admit", !.kind = k, !.rec = r,
       !.seen = IF r = 0 THEN NoJournal ELSE journals[r]]]
  /\ UNCHANGED <<device, records, custody>>

\* Identity discovery fails, or the lock stays taken: the attempt ends.
Refuse(a) ==
  /\ att[a].pc = "admit"
  /\ IF boardLock # 0 THEN Spent(0) ELSE Spent(1)
  /\ Goto2(a, "idle") /\ UNCHANGED <<device, records, custody>>

\* Mutant: the fence of an attempt that ended unreaped is taken over.
AdmitFence_Takeover(a) ==
  /\ att[a].pc = "admit" /\ boardLock = 0
  /\ boardLock' = a /\ fence' = [state |-> "active", boot |-> boot]
  /\ att' = [att EXCEPT ![a].pc = "bind", ![a].owned = TRUE]
  /\ UNCHANGED <<device, records, boot, left>>
\* Mutant: the session starts without waiting for the board's lock.
AdmitFence_NoLock(a) ==
  /\ att[a].pc = "admit"
  /\ boardLock' = a /\ fence' = [state |-> "active", boot |-> boot]
  /\ att' = [att EXCEPT ![a].pc = "bind", ![a].owned = TRUE]
  /\ UNCHANGED <<device, records, boot, left>>
\* The fence is admitted under the lock, unless an active one of this boot
\* says that a session of an earlier attempt may still live.
AdmitFence(a) ==
  /\ att[a].pc = "admit" /\ boardLock = 0
  /\ IF fence = [state |-> "active", boot |-> boot]
     THEN Goto2(a, "idle") /\ UNCHANGED <<boardLock, fence>>
     ELSE /\ boardLock' = a /\ fence' = [state |-> "active", boot |-> boot]
          /\ att' = [att EXCEPT ![a].pc = "bind", ![a].owned = TRUE]
  /\ UNCHANGED <<device, records, boot, left>>

\* The identity is read again, the copy made before the lock is compared,
\* and an obligation of the board comes before the attempt's own work.
Bind(a) ==
  LET m == att[a]
      stale == m.rec # 0 /\ journals[m.rec] # m.seen
      here == [att EXCEPT ![a].primary = stale]
  IN
  /\ m.pc = "bind" /\ UNCHANGED <<device, records, custody>>
  /\ \/ Spent(1) /\ Fail(a, "final")
     \/ /\ Spent(0)
        /\ IF m.kind \in {"recover", "reconcile"}
           THEN IF stale THEN Fail(a, "final")
                ELSE att' = [att EXCEPT ![a].back = "self", ![a].at = m.rec,
                       ![a].pc = IF m.kind = "recover" THEN "recover"
                                 ELSE "reconcile"]
           ELSE IF Obligations = {}
                THEN att' = [here EXCEPT ![a].pc = "ready"]
           ELSE LET r == CHOOSE x \in Obligations : TRUE IN
                IF \/ Cardinality(Obligations) > 1
                   \/ m.kind = "force" /\ journals[r].phase = "restore_intent"
                THEN Fail(a, "final")
                ELSE att' = [here EXCEPT ![a].pc = "recover", ![a].at = r,
                                         ![a].back = "predecessor"]

(***************************************************************************)
(* Recovery of a journal: called for a predecessor's obligation, by        *)
(* recover_board, when the application is deployed, and at the end of a    *)
(* recipe that left the journal unresolved.  A cancellation does not stop  *)
(* it.                                                                     *)
(***************************************************************************)
\* Where the caller goes on, given the code recovery returned.
Returned(a, code) ==
  LET ok == code = 0
      pc == CASE att[a].back = "predecessor" -> IF ok THEN "ready" ELSE "final"
              [] att[a].back = "deployed" -> IF ok THEN "recipe" ELSE "end"
              [] att[a].back = "cleanup" -> "finish"
              [] att[a].back = "finish" -> "tidy"
              [] OTHER -> "final"
  IN  [att EXCEPT ![a].pc = pc,
         ![a].primary = @ \/ (~ok /\ att[a].back # "cleanup")]

\* Mutant: a removal that failed is taken for one that is not needed.
RemoveSource_Assume(a, back, failed) ==
  /\ \/ Spent(0) /\ srcFile' = FALSE
     \/ Spent(1) /\ srcFile' \in {srcFile, FALSE}
  /\ att' = back
  /\ journals' = [journals EXCEPT ![att[a].at].pending = FALSE]
  /\ UNCHANGED <<verif, scp, stray, taken, scpTaken, enables, claims, ended,
                 lastRec, custody>>
\* What was left of the instruction file goes first.
RemoveSource(a, back, failed) ==
  /\ \/ /\ srcFile' = FALSE
        /\ Event(a, att[a].at, [journals[att[a].at] EXCEPT !.pending = FALSE],
                 back, 0)
     \/ /\ Spent(1) /\ srcFile' \in {srcFile, FALSE}
        /\ att' = failed /\ UNCHANGED journals
  /\ UNCHANGED <<verif, scp, stray, taken, scpTaken, enables, claims, ended,
                 lastRec, custody>>
RecoverSource(a) ==
  /\ att[a].pc = "recover" /\ journals[att[a].at].pending
  /\ RemoveSource(a, att, Returned(a, 4))

\* Mutant: a recovered probe is left for the next attempt.
RecoverSettled_Leave(a) ==
  LET j == journals[att[a].at] IN
  /\ att[a].pc = "recover" /\ ~j.pending
  /\ j.phase \notin {"disable_intent", "disabled_confirmed", "installing"}
  /\ j.phase = "restore_intent" => j.error
  /\ att' = Returned(a, CASE j.phase \notin Unresolved -> 0
                          [] j.phase = "indeterminate" -> 3
                          [] OTHER -> 4)
  /\ UNCHANGED <<device, records, custody, left>>
\* What a journal alone decides: nothing is owed; only an operator can
\* tell; the one enable that was allowed has been used up; the process that
\* held the ownership probe is gone.
RecoverSettled(a) ==
  LET j == journals[att[a].at] IN
  /\ att[a].pc = "recover" /\ ~j.pending
  /\ \/ /\ j.phase \notin Unresolved
        /\ att' = Returned(a, 0) /\ UNCHANGED <<journals, left>>
     \/ /\ j.phase = "indeterminate"
        /\ att' = Returned(a, 3) /\ UNCHANGED <<journals, left>>
     \/ /\ j.phase = "restore_intent" /\ j.error
        /\ att' = Returned(a, 4) /\ UNCHANGED <<journals, left>>
     \/ /\ j.phase = "ownership_probe"
        /\ Event(a, att[a].at, [j EXCEPT !.phase = "indeterminate",
                                         !.error = TRUE], Returned(a, 3), 0)
  /\ UNCHANGED <<device, claims, ended, lastRec, custody>>

\* Mutant: an interrupted disable is taken for one that never happened.
RecoverIntent_Forget(a) ==
  LET r == att[a].at IN
  /\ att[a].pc = "recover" /\ ~journals[r].pending
  /\ journals[r].phase \in {"disable_intent", "restore_intent"}
  /\ journals[r].phase = "restore_intent" => ~journals[r].error
  /\ Event(a, r, Becomes(r, "relinquished"), Returned(a, 0), 0)
  /\ UNCHANGED <<device, claims, ended, lastRec, custody>>
\* Mutant: a restore intent that is found is carried out.
RecoverIntent_Replay(a) ==
  LET r == att[a].at IN
  /\ att[a].pc = "recover" /\ ~journals[r].pending
  /\ journals[r].phase \in {"disable_intent", "restore_intent"}
  /\ journals[r].phase = "restore_intent" => ~journals[r].error
  /\ \E s \in Reads :
       CASE s = "on" -> Event(a, r, Becomes(r, "relinquished"), Returned(a, 0), 0)
         [] s # "on" /\ journals[r].phase = "restore_intent" ->
              Spent(ReadCost(s)) /\ Goto2(a, "enable") /\ UNCHANGED journals
         [] OTHER -> Event(a, r, Becomes(r, "indeterminate"), Returned(a, 3),
                           ReadCost(s))
  /\ UNCHANGED <<device, claims, ended, lastRec, custody>>
\* An intent of a process that is gone: the command may have been sent or
\* not.  Enabled now, nothing is owed; otherwise it cannot be told.
RecoverIntent(a) ==
  LET r == att[a].at IN
  /\ att[a].pc = "recover" /\ ~journals[r].pending
  /\ journals[r].phase \in {"disable_intent", "restore_intent"}
  /\ journals[r].phase = "restore_intent" => ~journals[r].error
  /\ \E s \in Reads :
       IF s = "on"
       THEN Event(a, r, Becomes(r, "relinquished"), Returned(a, 0), 0)
       ELSE Event(a, r, [Becomes(r, "indeterminate") EXCEPT !.error = TRUE],
                  Returned(a, 3), ReadCost(s))
  /\ UNCHANGED <<device, claims, ended, lastRec, custody>>

\* This controller turned verification off and knows it did.
RecoverProbe(a) ==
  LET r == att[a].at IN
  /\ att[a].pc = "recover" /\ ~journals[r].pending
  /\ journals[r].phase \in {"disabled_confirmed", "installing"}
  /\ Event(a, r, Becomes(r, "ownership_probe"), On(a, "probe"), 0)
  /\ UNCHANGED <<device, claims, ended, lastRec, custody>>
Probe(a) ==
  LET r == att[a].at IN
  /\ att[a].pc = "probe"
  /\ \E s \in Reads :
       CASE s = "unknown" -> Event(a, r, [journals[r] EXCEPT !.error = TRUE],
                                   Returned(a, 4), 1)
         [] s = "on"  -> Event(a, r, Becomes(r, "relinquished"),
                               Returned(a, 0), 0)
         [] s = "off" -> Event(a, r, Becomes(r, "restore_intent"),
                               On(a, "enable"), 0)
  /\ UNCHANGED <<device, claims, ended, lastRec, custody>>

\* The one enable command of the transaction.
SendEnable(a) ==
  LET r == att[a].at IN
  /\ att[a].pc = "enable"
  /\ enables' = [enables EXCEPT ![r] = @ + 1]
  /\ \/ /\ Confirmed("on") /\ Spent(0)
        /\ Goto2(a, "readback") /\ UNCHANGED journals
     \/ /\ Unconfirmed(a, "on", "failed")
        /\ Event(a, r, [journals[r] EXCEPT !.error = TRUE], Returned(a, 4), 1)
  /\ UNCHANGED <<scp, srcFile, scpTaken, claims, ended, lastRec, custody>>

Readback(a) ==
  LET r == att[a].at IN
  /\ att[a].pc = "readback"
  /\ \E s \in Reads :
       IF s = "on" THEN Event(a, r, Becomes(r, "restored"), Returned(a, 0), 0)
       ELSE Event(a, r, [journals[r] EXCEPT !.error = TRUE], Returned(a, 4),
                  ReadCost(s))
  /\ UNCHANGED <<device, claims, ended, lastRec, custody>>

\* The operator says the board was put right: a fresh read must agree.
Reconcile(a) ==
  LET r == att[a].at IN
  /\ att[a].pc = "reconcile"
  /\ \E s \in Reads :
       IF s = "on" THEN Event(a, r, Becomes(r, "relinquished"), On(a, "final"), 0)
       ELSE /\ Spent(ReadCost(s)) /\ Fail(a, "final") /\ UNCHANGED journals
  /\ UNCHANGED <<device, claims, ended, lastRec, custody>>

(***************************************************************************)
(* Installation: the record and its journal, the SCP server, the disable,  *)
(* the application, the instructions.  The recipe is a child process that  *)
(* asks for one step after the other; the controller admits them in order. *)
(***************************************************************************)
Steps == <<"fetch", "begin_install", "app_install", "deployed", "activate",
           "stage_instructions", "start", "save">>
Removal == <<"remove_app", "cleanup", "save">>
Admitted(a, s) ==
  LET order == IF att[a].kind = "install" THEN Steps ELSE Removal IN
  /\ att[a].pc = "recipe" /\ ~att[a].primary
  /\ att[a].rank < (IF att[a].kind = "install" THEN 8 ELSE 3)
  /\ order[att[a].rank + 1] = s
\* The step was carried out: the recipe may ask for the next one.
Passed(a) == [att EXCEPT ![a].rank = @ + 1]
Does(a, pc) == [att EXCEPT ![a].rank = @ + 1, ![a].pc = pc]

\* Predecessors are settled: prepare authorises the record of an undeploy,
\* or makes the record of an installation, whose first read opens a journal.
Ready(a) ==
  LET m == att[a] IN
  /\ m.pc = "ready"
  /\ \/ /\ m.primary \/ (m.kind = "uninstall" /\ m.rec \in ended)
        /\ Fail(a, "final") /\ UNCHANGED <<lastRec, left>>
     \/ /\ ~m.primary /\ m.kind \in {"uninstall", "force"}
        /\ m.kind = "uninstall" => m.rec \notin ended
        /\ Goto2(a, "recipe") /\ UNCHANGED <<lastRec, left>>
     \/ /\ ~m.primary /\ m.kind = "install"
        /\ \/ /\ lastRec' = lastRec + 1 /\ UNCHANGED left
              /\ att' = [att EXCEPT ![a].pc = "journal", ![a].rec = lastRec + 1,
                                    ![a].at = lastRec + 1]
           \/ Spent(1) /\ Fail(a, "final") /\ UNCHANGED lastRec
  /\ UNCHANGED <<device, journals, claims, ended, custody>>

iox_begin(a) ==
  LET r == att[a].rec IN
  /\ att[a].pc = "journal"
  /\ \/ \E s \in Reads, m \in Markers :
          /\ Obligations = {} /\ Spent(ReadCost(s)) /\ Goto2(a, "recipe")
          /\ journals' = [journals EXCEPT ![r] = [NoJournal EXCEPT
               !.phase = "observed", !.prior = s, !.marker = m]]
     \/ /\ IF Obligations = {} THEN Spent(1) ELSE Spent(0)
        /\ Fail(a, "final") /\ UNCHANGED journals
  /\ UNCHANGED <<device, claims, ended, lastRec, custody>>

\* The recipe stops, asks out of order, is cancelled, or a step fails.
RecipeEnds(a) ==
  /\ att[a].pc = "recipe" /\ Spent(1) /\ Fail(a, "end")
  /\ UNCHANGED <<device, records, custody>>

\* Before the first download: who turned the SCP server on is written down
\* before it is turned on.  With a shared directory it is not needed.
PrepareScp(a) ==
  LET r == att[a].rec
      other == \E x \in RecordIds \ {r} : claims[x] \in ClaimHeld
  IN
  /\ Admitted(a, "fetch") /\ Spent(0)
  /\ \/ other /\ Fail(a, "end") /\ UNCHANGED claims
     \/ ~other /\ att' = Passed(a) /\ UNCHANGED claims
     \/ /\ ~other
        /\ claims' = [claims EXCEPT ![r] =
             IF scp THEN "preserved" ELSE "enable_intent"]
        /\ att' = IF scp THEN Passed(a) ELSE On(a, "scp")
  /\ UNCHANGED <<device, journals, ended, lastRec, custody>>
\* Mutant: a claim is dropped when the enable was not confirmed.
EnableScp_Drop(a) ==
  LET r == att[a].rec IN
  /\ att[a].pc = "scp" /\ scp' = TRUE /\ scpTaken' = TRUE
  /\ \/ /\ Spent(0) /\ claims' = [claims EXCEPT ![r] = "enabled"]
        /\ att' = Does(a, "recipe")
     \/ /\ Spent(1) /\ claims' = [claims EXCEPT ![r] = "none"]
        /\ Fail(a, "end")
  /\ UNCHANGED <<verif, srcFile, stray, taken, enables, journals, ended,
                 lastRec, custody>>
EnableScp(a) ==
  LET r == att[a].rec IN
  /\ att[a].pc = "scp"
  /\ \/ /\ Spent(0) /\ scp' = TRUE /\ scpTaken' = TRUE
        /\ claims' = [claims EXCEPT ![r] = "enabled"]
        /\ att' = Does(a, "recipe")
     \/ /\ Spent(1) /\ UNCHANGED claims
        /\ \/ scp' = TRUE /\ scpTaken' = TRUE
           \/ UNCHANGED <<scp, scpTaken>>
        /\ Fail(a, "end")
  /\ UNCHANGED <<verif, srcFile, stray, taken, enables, journals, ended,
                 lastRec, custody>>

\* Nothing to turn off, or a reason not to: the journal ends unchanged.
BeginUnchanged(a) ==
  LET r == att[a].rec
      j == journals[r]
  IN
  /\ Admitted(a, "begin_install") /\ j.phase = "observed"
  /\ \/ /\ j.marker \/ j.prior = "off"
        /\ Event(a, r, Becomes(r, "unchanged"), Passed(a), 0)
     \/ /\ ~j.marker /\ j.prior = "unknown"
        /\ Event(a, r, Becomes(r, "unchanged"), Failed(a, "end"), 0)
     \/ /\ ~j.marker /\ j.prior = "on"
        /\ \E s \in Reads \ {"on"} :
             Event(a, r, Becomes(r, "unchanged"), Failed(a, "end"), ReadCost(s))
  /\ UNCHANGED <<device, claims, ended, lastRec, custody>>

\* Read again as enabled: the intent is durable before the command goes out.
\* A transient answer of the device allows two more tries, each after a read.
DisableIntent(a) ==
  LET r == att[a].rec
      j == journals[r]
  IN
  /\ \/ /\ Admitted(a, "begin_install") /\ j.phase = "observed"
        /\ ~j.marker /\ j.prior = "on"
     \/ att[a].pc = "retry" /\ j.phase = "disable_intent"
  /\ verif = "on"
  /\ Event(a, r, Becomes(r, "disable_intent"),
           [att EXCEPT ![a].pc = "send", ![a].sends = @ + 1], 0)
  /\ UNCHANGED <<device, claims, ended, lastRec, custody>>
RetryRefused(a) ==
  /\ att[a].pc = "retry"
  /\ \E s \in Reads \ {"on"} : Spent(ReadCost(s))
  /\ Fail(a, "end") /\ UNCHANGED <<device, records, custody>>

SendDisable(a) ==
  /\ att[a].pc = "send"
  /\ \/ Confirmed("off") /\ Spent(0) /\ Goto2(a, "confirm")
     \/ /\ Unconfirmed(a, "off", "transient") /\ Spent(1)
        /\ IF att[a].sends = 3 THEN Fail(a, "end") ELSE Goto2(a, "retry")
     \/ Unconfirmed(a, "off", "failed") /\ Spent(1) /\ Fail(a, "end")
  /\ UNCHANGED <<scp, srcFile, scpTaken, enables, records, custody>>

ConfirmDisable(a) ==
  LET r == att[a].rec IN
  /\ att[a].pc = "confirm"
  /\ \E s \in Reads :
       IF s = "off"
       THEN Event(a, r, Becomes(r, "disabled_confirmed"), On(a, "installing"), 0)
       ELSE Spent(ReadCost(s)) /\ Fail(a, "end") /\ UNCHANGED journals
  /\ UNCHANGED <<device, claims, ended, lastRec, custody>>
Installing(a) ==
  LET r == att[a].rec IN
  /\ att[a].pc = "installing"
  /\ Event(a, r, Becomes(r, "installing"), Does(a, "recipe"), 0)
  /\ UNCHANGED <<device, claims, ended, lastRec, custody>>

\* Steps that only change the application on the device.
AppStep(a) ==
  /\ \E s \in {"app_install", "activate", "start", "remove_app", "cleanup"} :
       Admitted(a, s)
  /\ att' = Passed(a) /\ UNCHANGED <<device, records, custody, left>>

\* Mutant: restoring is left to the end of the recipe.
Deployed_Later(a) ==
  /\ Admitted(a, "deployed") /\ att' = Passed(a)
  /\ UNCHANGED <<device, records, custody, left>>
\* The application is deployed: verification is restored before it starts.
Deployed(a) ==
  /\ Admitted(a, "deployed")
  /\ att' = [att EXCEPT ![a].rank = @ + 1, ![a].pc = "recover",
                        ![a].back = "deployed"]
  /\ UNCHANGED <<device, records, custody, left>>

\* The instruction file: the intent to remove it is durable before it is
\* published and fetched.
StageIntent(a) ==
  LET r == att[a].rec IN
  /\ Admitted(a, "stage_instructions") /\ journals[r].phase \in Terminal
  /\ Event(a, r, [journals[r] EXCEPT !.pending = TRUE], On(a, "stage"), 0)
  /\ UNCHANGED <<device, claims, ended, lastRec, custody>>
StageFetch(a) ==
  /\ att[a].pc = "stage"
  /\ \/ Spent(0) /\ srcFile' = TRUE /\ Goto2(a, "unstage")
     \/ Spent(1) /\ srcFile' \in {srcFile, TRUE} /\ Fail(a, "unstage")
  /\ UNCHANGED <<verif, scp, stray, taken, scpTaken, enables, records, custody>>
StageRemove(a) ==
  /\ att[a].pc = "unstage"
  /\ RemoveSource(a, IF att[a].primary THEN On(a, "end")
                     ELSE Does(a, "recipe"),
                  Failed(a, "end"))

\* The last step of both recipes.  A recorded undeploy first gives the SCP
\* server back, with no application left that may use it.
Save(a) ==
  LET r == att[a].rec
      held == att[a].kind = "uninstall" /\ claims[r] \in ClaimHeld
      off == held /\ scp
  IN
  /\ Admitted(a, "save")
  /\ \/ /\ ~(off /\ claims[r] = "enable_intent") /\ Spent(0)
        /\ scp' = (scp /\ ~off) /\ scpTaken' = (scpTaken /\ ~off)
        /\ claims' = IF held THEN [claims EXCEPT ![r] = "restored"] ELSE claims
        /\ att' = Does(a, "end")
     \/ /\ off /\ claims[r] = "enable_intent" /\ Spent(0)
        /\ Fail(a, "end") /\ UNCHANGED <<scp, scpTaken, claims>>
     \/ /\ off /\ claims[r] = "enabled" /\ Spent(1)
        /\ scp' = FALSE /\ scpTaken' = FALSE
        /\ Fail(a, "end") /\ UNCHANGED claims
  /\ UNCHANGED <<verif, srcFile, stray, taken, enables, journals, ended,
                 lastRec, custody>>

(***************************************************************************)
(* The end of a recipe and of an attempt.                                  *)
(***************************************************************************)
\* The recipe asks for its cleanup, and then to finish; one that died
\* before is finished by the controller.
Cleanup(a) ==
  LET r == att[a].rec
      owed == att[a].kind = "install" /\ journals[r].phase \in Unresolved
  IN
  /\ att[a].pc \in {"end", "finish"}
  /\ \/ /\ owed
        /\ att' = [att EXCEPT ![a].pc = "recover", ![a].at = r,
             ![a].back = IF att[a].pc = "end" THEN "cleanup" ELSE "finish"]
     \/ att[a].pc = "end" /\ Goto2(a, "finish")
     \/ att[a].pc = "finish" /\ ~owed /\ Goto2(a, "tidy")
  /\ UNCHANGED <<device, records, custody, left>>
TidySource(a) ==
  /\ att[a].pc = "tidy" /\ att[a].kind = "install"
  /\ journals[att[a].rec].phase \notin Unresolved
  /\ journals[att[a].rec].pending
  /\ RemoveSource(a, On(a, "final"), Failed(a, "final"))
TidyNothing(a) ==
  /\ att[a].pc = "tidy"
  /\ att[a].kind = "install" => \/ journals[att[a].rec].phase \in Unresolved
                                \/ ~journals[att[a].rec].pending
  /\ Goto2(a, "final") /\ UNCHANGED <<device, records, custody, left>>

\* Shutdown of the server: every wait and every command of the attempt
\* raises, recovery included; its thread only cleans up.
ShutdownAttempt(a) ==
  /\ att[a].pc \notin {"idle", "admit", "final"} /\ Spent(1)
  /\ att' = [att EXCEPT ![a].pc = "final", ![a].primary = TRUE]
  /\ UNCHANGED <<device, records, custody>>

\* Mutant: the lock is kept with the session that could not be reaped.
Finalize_Keep(a) ==
  LET m == att[a] IN
  /\ m.pc = "final"
  /\ \/ /\ Spent(0) /\ fence' = [fence EXCEPT !.state = "reaped"]
        /\ stray' = IF stray.by = a THEN NoStray ELSE stray
        /\ boardLock' = 0
     \/ /\ Spent(IF stray.by = a THEN 0 ELSE 1) /\ UNCHANGED fence
        /\ stray' = IF stray.by = a THEN [stray EXCEPT !.by = 0] ELSE stray
        /\ UNCHANGED boardLock
  /\ att' = [att EXCEPT ![a] = NoAttempt]
  /\ UNCHANGED <<verif, scp, srcFile, taken, scpTaken, enables, records, boot>>
\* Reaping, the fence, the retirement of a forced teardown's records, and
\* the release of the lock.  An unreaped session keeps the fence active.
Finalize(a) ==
  LET m == att[a]
      success == ~m.primary /\ m.kind \in {"uninstall", "force"}
  IN
  /\ m.pc = "final"
  /\ \/ /\ Spent(0) /\ fence' = [fence EXCEPT !.state = "reaped"]
        /\ stray' = IF stray.by = a THEN NoStray ELSE stray
        /\ ended' = CASE success /\ m.kind = "force" -> 1..lastRec
                      [] success /\ m.kind = "uninstall" -> ended \cup {m.rec}
                      [] OTHER -> ended
     \/ /\ Spent(IF stray.by = a THEN 0 ELSE 1) /\ UNCHANGED <<fence, ended>>
        /\ stray' = IF stray.by = a THEN [stray EXCEPT !.by = 0] ELSE stray
  /\ boardLock' = 0 /\ att' = [att EXCEPT ![a] = NoAttempt]
  /\ UNCHANGED <<verif, scp, srcFile, taken, scpTaken, enables, journals,
                 claims, lastRec, boot>>

(***************************************************************************)
(* The world around the controller.                                        *)
(***************************************************************************)
\* The container restarts: every process of it is gone, the files stay.
RestartContainer ==
  /\ left.crash > 0 /\ left' = [left EXCEPT !.crash = @ - 1]
  /\ boot' = boot + 1 /\ boardLock' = 0 /\ stray' = NoStray
  /\ att' = [a \in Attempts |-> NoAttempt]
  /\ UNCHANGED <<verif, scp, srcFile, taken, scpTaken, enables, records, fence>>

\* The command of an unreaped session arrives after all.  One that comes when
\* every journal was settled is nobody's obligation any more: what keeps it from
\* coming is the fence, and the ghost does not count it.
StrayLands ==
  /\ stray # NoStray /\ stray' = NoStray /\ verif' = stray.effect
  /\ taken' = IF verif = stray.effect THEN taken
              ELSE stray.effect = "off"
                   /\ \E r \in RecordIds : journals[r].phase \in Unresolved
  /\ UNCHANGED <<scp, srcFile, scpTaken, enables, records, att, custody, left>>

\* The operator changes the device by hand.
Operator ==
  /\ left.toggles > 0 /\ left' = [left EXCEPT !.toggles = @ - 1]
  /\ \/ verif' = (IF verif = "on" THEN "off" ELSE "on") /\ taken' = FALSE
        /\ UNCHANGED <<scp, scpTaken>>
     \/ scp' = ~scp /\ scpTaken' = FALSE /\ UNCHANGED <<verif, taken>>
  /\ UNCHANGED <<srcFile, stray, enables, records, att, custody>>

AttemptStep(a) ==
  \/ Refuse(a) \/ AdmitFence(a) \/ Bind(a)
  \/ RecoverSource(a) \/ RecoverSettled(a) \/ RecoverIntent(a)
  \/ RecoverProbe(a) \/ Probe(a) \/ SendEnable(a) \/ Readback(a) \/ Reconcile(a)
  \/ Ready(a) \/ iox_begin(a) \/ RecipeEnds(a) \/ PrepareScp(a) \/ EnableScp(a)
  \/ BeginUnchanged(a) \/ DisableIntent(a) \/ RetryRefused(a) \/ SendDisable(a)
  \/ ConfirmDisable(a) \/ Installing(a) \/ AppStep(a) \/ Deployed(a)
  \/ StageIntent(a) \/ StageFetch(a) \/ StageRemove(a) \/ Save(a)
  \/ Cleanup(a) \/ TidySource(a) \/ TidyNothing(a) \/ ShutdownAttempt(a)
  \/ Finalize(a)

IoxNext ==
  \/ \E a \in Attempts : AttemptStep(a)
  \/ \E a \in Attempts, k \in Kinds, r \in 0..MaxRec : Request(a, k, r)
  \/ RestartContainer \/ StrayLands \/ Operator

IoxSpec == IoxInit /\ [][IoxNext]_ioxVars

(***************************************************************************)
(* Properties.                                                             *)
(***************************************************************************)
\* The variables have the values their comments promise.
IoxTypeOK ==
  /\ verif \in {"on", "off"} /\ scp \in BOOLEAN /\ srcFile \in BOOLEAN
  /\ \A r \in RecordIds :
       /\ journals[r].phase \in Unresolved \cup Terminal \cup {"none", "observed"}
       /\ claims[r] \in ClaimHeld \cup {"none", "preserved", "restored"}
       /\ r > lastRec => journals[r] = NoJournal
  /\ ended \subseteq 1..lastRec /\ boardLock \in Attempts \cup {0}
  /\ \A a \in Attempts : att[a].owned => boardLock = a

\* Verification that the controller turned off while a transaction was open (a late
\* command of a session it could not reap included) is owed in a journal, over
\* every crash, failed write, lost answer and change by the operator: a
\* terminal phase is only written after a read that found it on
\* (_recover_journal_owned, iox_event).
TurnedOffIsOwed ==
  taken => \E r \in RecordIds : journals[r].phase \in Unresolved

\* One transaction sends at most one enable, whatever was recovered how
\* often ("the one allowed enable send").
EnableSentOnce == \A r \in RecordIds : enables[r] <= 1

\* A board has at most one obligation, which recovery relies on: it refuses
\* to choose between two (iox_begin, _recover_obligations).
OneObligation ==
  Cardinality({r \in RecordIds : journals[r].phase \in Unresolved
                                 \/ journals[r].pending}) <= 1

\* While the instruction file is on the device's flash, a journal says so
\* (_stage_instructions, _remove_instruction_source).
SourceIsRecorded == srcFile => \E r \in RecordIds : journals[r].pending

\* No attempt works on the board beside a session of an earlier attempt
\* that was never reaped (_admit_fence, _finalize).
NoSessionBesideStray ==
  (stray # NoStray /\ stray.by = 0) => \A a \in Attempts : ~att[a].owned

\* An SCP server that is on because of IRIS is claimed by a record
\* (_prepare_scp, _restore_scp).
ScpOnIsClaimed == scpTaken => \E r \in RecordIds : claims[r] \in ClaimHeld

\* The message of _scp_state tells the operator to complete the recorded
\* undeploy of the deployment that owns SCP: its record can still have one.
ClaimCanBeReleased ==
  \A r \in RecordIds : claims[r] \in ClaimHeld => r \notin ended

\* The application is only started with verification restored: the app
\* steps after "deployed" never run while the disable is still owed.
StartsVerified ==
  \A a \in Attempts :
    (att[a].pc = "recipe" /\ att[a].kind = "install" /\ att[a].rank >= 4
     /\ att'[a].pc = "recipe" /\ att'[a].rank > att[a].rank)
    => journals[att[a].rec].phase \in Terminal

\* The board's fence names a session that may still live: only a restart of
\* the container ends it.
Fenced == fence = [state |-> "active", boot |-> boot] /\ boardLock = 0

\* Attempts end and give the board back (_finalize on every path).  Holds again and
\* again.
BoardIsReleased == boardLock = 0

\* Whatever an attempt leaves owed is settled by later ones, except that a
\* fence keeps everyone out, that only the operator can tell and has not
\* turned verification on, or that the one enable failed.  Holds again and again.
ObligationsSettle ==
  \/ Obligations = {} \/ Fenced
  \/ \E r \in RecordIds : \/ journals[r].phase = "indeterminate" /\ verif = "off"
                          \/ journals[r].phase = "restore_intent" /\ journals[r].error

\* docs: a cut-off attempt leaves the journal in phase indeterminate, which
\* the operator can reconcile once verification is on again.
CutOffIsReconcilable ==
  Obligations # {} ~>
    Obligations = {} \/ Fenced \/ verif = "off"

\* What holds in every state of a board and its journals.
BoardSafe ==
  /\ IoxTypeOK
  /\ TurnedOffIsOwed
  /\ EnableSentOnce
  /\ OneObligation
  /\ SourceIsRecorded
  /\ NoSessionBesideStray
  /\ ScpOnIsClaimed
=============================================================================
