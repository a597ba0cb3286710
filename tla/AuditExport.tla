---------------------------- MODULE AuditExport ----------------------------
(***************************************************************************)
(* The export of the audit trail to a host of the operator's               *)
(* (audit_export.py and its calls in management_api.py): the destination,  *)
(* in a settings file, and its password, in the secrets store, are two     *)
(* files; both are saved and cleared under one lock of the process, and    *)
(* read together under it by the exports that an operator starts and by    *)
(* the daily one.  An export runs without the lock and then records its    *)
(* result in the settings.  The process may die anywhere.                  *)
(***************************************************************************)
EXTENDS Integers, FiniteSets

CONSTANTS
    Sites,          \* destinations
    Passwords,
    ExportJobs,     \* slots of exports: 0 is the daily one
    ExportPlans     \* what operators do and outside events: a set of budgets

ASSUME ExportAssumption == 0 \in ExportJobs

VARIABLES
    settings,   \* the file: [there, site, auto, ran], site "none" when not configured
    secret,     \* the stored password, or "none"
    saver,      \* the request that changes them, and its step; it holds the lock
    export,     \* the exports
    service,    \* [closing, drained]: the shutdown
    agreed,     \* history: the pairs of destination and password operators asked for
    used,       \* history: the pairs that were used
    eleft       \* events left

exportVars == <<settings, secret, saver, export, service, agreed, used, eleft>>

NoSettings == [there |-> FALSE, site |-> "none", auto |-> FALSE, ran |-> FALSE]
NoSave == [pc |-> "none", site |-> "none", pw |-> "none", auto |-> FALSE]
NoExport == [pc |-> "none", site |-> "none", pw |-> "none"]
ExportEvents == {"save", "keep", "clear", "run", "fault", "crash", "stop"}

ExportInit ==
    /\ settings = NoSettings /\ secret = "none" /\ saver = NoSave
    /\ export = [j \in ExportJobs |-> NoExport]
    /\ service = [closing |-> FALSE, drained |-> FALSE]
    /\ agreed = {} /\ used = {}
    /\ eleft \in ExportPlans

Left(e) == eleft[e] > 0
Uses(e) == eleft' = [eleft EXCEPT ![e] = @ - 1]
Works(ok) == IF ok THEN UNCHANGED eleft ELSE Left("fault") /\ Uses("fault")
SettingsFree == saver.pc = "none"
Configured(s) == s.site # "none"

----------------------------------------------------------------------------
(* Saving: with a password, the settings are emptied before it is stored.   *)

\* Without one, only over settings that work.
\* Mutant: whatever password is stored is taken.
NeedsPassword_Stored == secret = "none"
NeedsPassword == ~Configured(settings)
\* Mutant: the password is stored at once.
FirstStep_Secret(pw) == IF pw = "none" THEN "write" ELSE "secret"
FirstStep(pw) == IF pw = "none" THEN "write" ELSE "pause"

SaveBegin(site, pw, auto) ==
    LET e == IF pw = "none" THEN "keep" ELSE "save" IN
    /\ ~service.closing /\ SettingsFree /\ Left(e) /\ Uses(e)
    /\ IF pw = "none" /\ NeedsPassword THEN UNCHANGED <<saver, agreed>>
       ELSE /\ saver' = [pc |-> FirstStep(pw), site |-> site, pw |-> pw, auto |-> auto]
            /\ agreed' = agreed \cup
                 IF pw # "none" THEN {<<site, pw>>}
                 ELSE {<<site, q>> : q \in {r \in Passwords : <<settings.site, r>> \in agreed
                                                              /\ r = secret}}
    /\ UNCHANGED <<settings, secret, export, service, used>>

SavePause(ok) ==
    /\ saver.pc = "pause" /\ Works(ok)
    /\ settings' = IF ok THEN [NoSettings EXCEPT !.there = TRUE, !.ran = settings.ran] ELSE settings
    /\ saver' = IF ok THEN [saver EXCEPT !.pc = "secret"] ELSE NoSave
    /\ UNCHANGED <<secret, export, service, agreed, used>>

SaveSecret(ok) ==
    /\ saver.pc = "secret" /\ Works(ok)
    /\ secret' = IF ok THEN saver.pw ELSE secret
    /\ saver' = IF ok THEN [saver EXCEPT !.pc = "write"] ELSE NoSave
    /\ UNCHANGED <<settings, export, service, agreed, used>>

SaveWrite(ok) ==
    /\ saver.pc = "write" /\ Works(ok)
    /\ settings' = IF ok THEN [there |-> TRUE, site |-> saver.site, auto |-> saver.auto,
                               ran |-> settings.ran]
                   ELSE settings
    /\ saver' = NoSave
    /\ UNCHANGED <<secret, export, service, agreed, used>>

\* Clearing: the settings first.
ClearBegin ==
    /\ ~service.closing /\ SettingsFree /\ Left("clear") /\ Uses("clear")
    /\ settings' = NoSettings
    /\ saver' = [NoSave EXCEPT !.pc = "forget"]
    /\ UNCHANGED <<secret, export, service, agreed, used>>

ClearSecret(ok) ==
    /\ saver.pc = "forget" /\ Works(ok)
    /\ secret' = IF ok THEN "none" ELSE secret
    /\ saver' = NoSave
    /\ UNCHANGED <<settings, export, service, agreed, used>>

----------------------------------------------------------------------------
(* Exports.                                                                 *)

\* The destination and its password are read together, under the lock.  An operator
\* starts an export; the daily one wakes up when it is due.
StartExport(j) ==
    /\ j # 0 /\ export[j].pc = "none" /\ Left("run") /\ Uses("run") /\ SettingsFree
    /\ IF service.closing \/ ~Configured(settings) \/ secret = "none" THEN UNCHANGED export
       ELSE export' = [export EXCEPT ![j] = [pc |-> "run", site |-> settings.site, pw |-> secret]]
    /\ UNCHANGED <<settings, secret, saver, service, agreed, used>>

ExportDue ==
    /\ export[0].pc = "none" /\ ~service.closing /\ SettingsFree
    /\ settings.auto /\ ~settings.ran
    /\ export' = [export EXCEPT ![0] = [pc |-> "run", site |-> settings.site, pw |-> secret]]
    /\ UNCHANGED <<settings, secret, saver, service, agreed, used, eleft>>

\* A day passes.
DayPasses ==
    /\ settings.ran /\ SettingsFree /\ ~service.drained /\ Left("run") /\ Uses("run")
    /\ settings' = [settings EXCEPT !.ran = FALSE]
    /\ UNCHANGED <<secret, saver, export, service, agreed, used>>

\* The trail is encrypted and copied, or something in it fails.
RunExport(j) ==
    /\ export[j].pc = "run"
    /\ used' = IF export[j].pw = "none" \/ export[j].site = "none" THEN used
               ELSE used \cup {<<export[j].site, export[j].pw>>}
    /\ export' = [export EXCEPT ![j].pc = "record"]
    /\ UNCHANGED <<settings, secret, saver, service, agreed, eleft>>

\* The result joins the settings as they are by then, if there are any.
\* Mutant: the settings the export ran with are written back.
WithResult_Own(j) == [there |-> TRUE, site |-> export[j].site, auto |-> settings.auto, ran |-> TRUE]
WithResult(j) == IF settings.there THEN [settings EXCEPT !.ran = TRUE] ELSE settings
RecordResult(j, ok) ==
    /\ export[j].pc = "record" /\ SettingsFree /\ Works(ok)
    /\ settings' = IF ok THEN WithResult(j) ELSE settings
    /\ export' = [export EXCEPT ![j].pc = IF j = 0 THEN "none" ELSE "done"]
    /\ UNCHANGED <<secret, saver, service, agreed, used>>

\* The job leaves the set of the running ones, and may be dropped.
JobEnds(j) ==
    /\ export[j].pc = "done"
    /\ export' = [export EXCEPT ![j] = NoExport]
    /\ UNCHANGED <<settings, secret, saver, service, agreed, used, eleft>>

\* The service stops: it takes no new export and waits for the running ones; the
\* daily one's thread is waited for too.
CloseExports ==
    /\ ~service.closing /\ Left("stop") /\ Uses("stop")
    /\ service' = [service EXCEPT !.closing = TRUE]
    /\ UNCHANGED <<settings, secret, saver, export, agreed, used>>
\* Mutant: jobs that only have their result to record are not waited for.
Active_Running(j) == export[j].pc = "run"
Active(j) == export[j].pc # "none"
DrainExports ==
    /\ service.closing /\ ~service.drained
    /\ \A j \in ExportJobs : ~Active(j)
    /\ SettingsFree
    /\ service' = [service EXCEPT !.drained = TRUE]
    /\ UNCHANGED <<settings, secret, saver, export, agreed, used, eleft>>

ProcessDies ==
    /\ Left("crash") /\ Uses("crash") /\ ~service.drained
    /\ saver' = NoSave /\ export' = [j \in ExportJobs |-> NoExport]
    /\ service' = [closing |-> FALSE, drained |-> FALSE]
    /\ UNCHANGED <<settings, secret, agreed, used>>

ExportSteps ==
    \/ ExportDue \/ DrainExports
    \/ \E ok \in BOOLEAN : SavePause(ok) \/ SaveSecret(ok) \/ SaveWrite(ok) \/ ClearSecret(ok)
    \/ \E j \in ExportJobs : RunExport(j) \/ JobEnds(j) \/ \E ok \in BOOLEAN : RecordResult(j, ok)
ExportNext ==
    \/ ExportSteps \/ ClearBegin \/ DayPasses \/ CloseExports \/ ProcessDies
    \/ \E site \in Sites, pw \in Passwords \cup {"none"}, auto \in BOOLEAN : SaveBegin(site, pw, auto)
    \/ \E j \in ExportJobs : StartExport(j)

----------------------------------------------------------------------------
(* What the export promises.                                                *)

\* A password goes only where an operator sent it: with the destination it was saved
\* with, or one that was later saved over a working configuration without a password
\* of its own; whatever failed or crashed between the two files (save_configuration).
PasswordsGoWhereSent == used \subseteq agreed

\* After a drain that found everything at rest no export runs and the files stay as
\* they are: a backup may be taken (drain_exports).
DrainIsFinal ==
    service.drained => /\ settings' = settings /\ secret' = secret
                       /\ \A j \in ExportJobs : export'[j].pc = "none"

\* An export changes neither the destination nor whether it is automatic, however
\* late its result comes (_record_result).
ResultsChangeNoDestination ==
    (saver.pc = "none" /\ saver'.pc = "none")
        => settings'.site = settings.site /\ settings'.auto = settings.auto

\* A shutdown is drained.
ExportsRest == service.closing => service.drained
=============================================================================
