-------------------------- MODULE AnnounceRotation --------------------------
(***************************************************************************)
(* Rotation of the seeder's announce credential: the command               *)
(* rotate-seeder-announce and its --recover form                           *)
(* (src/server/rotate_seeder_announce.py), the credential records it       *)
(* rotates (src/server/secrets_store.py), the encrypt-first persistence of *)
(* these (src/server/secretfs.py) and the relaunch of the seeder after a   *)
(* container restart (src/server/seed-launch.sh, reseed_input.py).         *)
(*                                                                         *)
(* A credential is the number of its generation.  A torrent's canonical    *)
(* file holds "old" or "new" bytes: the announce URL is all that a         *)
(* replacement changes, so the info hash is the same and aria2 holds at    *)
(* most one download of it.  Every call of aria2 and every write of a file *)
(* may fail before or after its effect, as long as RotFaults allows.       *)
(***************************************************************************)
EXTENDS Integers, FiniteSetsExt

CONSTANTS
  NumTorrents,  \* published images that are not quarantined
  MaxGen,       \* bound: credentials minted
  PrevCap,      \* SEEDER_PREV_CAP
  RotFaults,    \* bound: failed calls and writes
  RotCrashes    \* bound: killed commands and container restarts

ASSUME AnnounceAssumption ==
  /\ NumTorrents \in Nat \ {0} /\ MaxGen \in Nat \ {0} /\ PrevCap \in Nat
  /\ RotFaults \in Nat /\ RotCrashes \in Nat

Torrents == 1..NumTorrents
Gens == 1..MaxGen

VARIABLES
  vault,     \* the seeder's records in secrets.json ("plain") and its
             \* ciphertext ("enc"): current generation, previous ones
  lapsed,    \* previous generations past SEEDER_PREV_TTL
  canonical, \* bytes of <state>/torrents/<image>.torrent
  backup,    \* bytes in seeder-rotation-recovery/
  seeding,   \* aria2: its global header and the download of each torrent
  manifest,  \* seeder-rotation-recovery.json
  gate,      \* identity-compatible-ready exists
  rot,       \* the running command
  rotLeft    \* faults and crashes still allowed

rotVars == <<vault, lapsed, canonical, backup, seeding, manifest, gate, rot, rotLeft>>

NoDownload == [bytes |-> "none", cred |-> 0]
NoManifest == [phase |-> "none", frozen |-> FALSE, claimed |-> FALSE,
               affected |-> [t \in Torrents |-> "none"]]
NoCommand == [pc |-> "off", at |-> 1, cred |-> 0, class |-> "none", clean |-> FALSE,
              affected |-> [t \in Torrents |-> "none"]]

\* The two copies of the store, the torrents, their backups, the seeder, the
\* manifest and the command keep their shape.
AnnounceTypeOK ==
  /\ vault \in [{"enc", "plain"} -> [cur : Gens, prev : SUBSET Gens]]
  /\ lapsed \subseteq Gens
  /\ canonical \in [Torrents -> {"old", "new"}]
  /\ backup \in [Torrents -> {"none", "old", "new"}]
  /\ seeding \in [header : Gens, act : [Torrents -> [bytes : {"none", "old", "new"}, cred : 0..MaxGen]]]
  /\ manifest \in [phase : {"none", "started", "secret_rotated", "seeder_credential_updated",
                            "rolling_back", "rolled_back", "hard_no_go", "double_failure",
                            "swarm_probe_failed", "complete", "repair_needed", "recovered"},
                   frozen : BOOLEAN, claimed : BOOLEAN,
                   affected : [Torrents -> {"none", "ok", "bad"}]]
  /\ gate \in BOOLEAN
  /\ rot.pc \in {"off", "backup", "secret", "header", "prepare", "remove", "add", "readd", "undo",
                 "verdict", "probe", "gate", "recover", "restore"}
  /\ rot.at \in Torrents
  /\ rotLeft \in [faults : 0..RotFaults, crashes : 0..RotCrashes]

AnnounceInit ==
  /\ vault = [f \in {"enc", "plain"} |-> [cur |-> 1, prev |-> {}]]
  /\ lapsed = {}
  /\ canonical = [t \in Torrents |-> "old"]
  /\ backup = [t \in Torrents |-> "none"]
  /\ seeding = [header |-> 1, act |-> [t \in Torrents |-> [bytes |-> "old", cred |-> 1]]]
  /\ manifest = NoManifest
  /\ gate = FALSE
  /\ rot = NoCommand
  /\ rotLeft = [faults |-> RotFaults, crashes |-> RotCrashes]

-----------------------------------------------------------------------------
(* Outcomes.  "ok"; "fail": an exception and nothing changed; "lost": an    *)
(* exception after the effect (a lost answer, or a failed manifest write    *)
(* behind the call).                                                        *)
Outcome(o) == IF o = "ok" THEN UNCHANGED rotLeft
              ELSE rotLeft.faults > 0 /\ rotLeft' = [rotLeft EXCEPT !.faults = @ - 1]

\* An exception no handler of the rotation catches: main() answers
\* "refused", code 2, and leaves the manifest as it is.
Refused == rot' = NoCommand

Prev(s) == s.prev \ lapsed
Accepted(c) == c = vault.plain.cur \/ c \in Prev(vault.plain)

\* aria2 refuses a second download of an info hash; the process-wide header
\* wins over the per-download one.
AriaAdd(a, t, b) == [a EXCEPT !.act[t] = [bytes |-> b, cred |-> a.header]]
AriaHas(a, t) == a.act[t] # NoDownload
AriaRemove(a, t) == [a EXCEPT !.act[t] = NoDownload]

\* Mutant (Rotated_NoOverlap): the rotated-out credential is not kept.
\* rotate_announce: expired previous records go, at most PrevCap may remain,
\* the current one becomes a previous, a fresh one is minted.
CanRotate(s) == Cardinality(Prev(s)) < PrevCap
Rotated_NoOverlap(s, c) == [cur |-> c, prev |-> Prev(s)]
Rotated(s, c) == [cur |-> c, prev |-> Prev(s) \cup {s.cur}]
Fresh == 1 + Max(UNION {{vault[f].cur} \cup vault[f].prev : f \in {"enc", "plain"}})

-----------------------------------------------------------------------------
\* main without --recover: no manifest on disk, and every published image
\* uniquely active at the seeder (discover_targets).
Discover ==
  /\ rot.pc = "off" /\ manifest = NoManifest /\ Fresh \in Gens
  /\ \A t \in Torrents : AriaHas(seeding, t)
  /\ rot' = [NoCommand EXCEPT !.pc = "backup"]
  /\ UNCHANGED <<vault, lapsed, canonical, backup, seeding, manifest, gate, rotLeft>>

\* rotate_seeder_announce: the exact bytes of every torrent are copied aside
\* and the manifest is written before anything else.
BackUpOf(copied) ==
  /\ rot.pc = "backup"
  /\ \E o \in {"ok", "fail"} :
       /\ Outcome(o)
       /\ IF o = "ok"
            THEN /\ backup' = [t \in Torrents |-> IF t \in copied THEN canonical[t] ELSE backup[t]]
                 /\ manifest' = [NoManifest EXCEPT !.phase = "started", !.frozen = TRUE]
                 /\ rot' = [rot EXCEPT !.pc = "secret"]
            ELSE Refused /\ UNCHANGED <<backup, manifest>>
  /\ UNCHANGED <<vault, lapsed, canonical, seeding, gate>>

\* Mutant: only the first torrent is backed up before the manifest.
BackUp_First == BackUpOf({1})
BackUp == BackUpOf(Torrents)

\* persist_store: the ciphertext first, then the plain file; when the second
\* write fails the ciphertext is made again from the old plain file, which
\* may fail too ("enc_only").
Persisted(new, o, files) ==
  CASE o = "fail" -> vault
    [] o = "enc_only" -> [vault EXCEPT !.enc = new]
    [] OTHER -> [f \in {"enc", "plain"} |-> IF f \in files THEN new ELSE vault[f]]

\* The credential is rotated under the store lock.
RotateSecretTo(files) ==
  /\ rot.pc = "secret"
  /\ IF ~CanRotate(vault.plain)
       THEN Refused /\ UNCHANGED <<vault, manifest, rotLeft>>
       ELSE LET new == Rotated(vault.plain, Fresh) IN
            \E o \in {"ok", "fail", "enc_only", "lost"} :
              /\ Outcome(o)
              /\ vault' = Persisted(new, o, files)
              /\ IF o = "ok"
                   THEN /\ manifest' = [manifest EXCEPT !.phase = "secret_rotated"]
                        /\ rot' = [rot EXCEPT !.pc = "header", !.cred = Fresh]
                   ELSE Refused /\ UNCHANGED manifest
  /\ UNCHANGED <<lapsed, canonical, backup, seeding, gate>>

\* Mutant: the ciphertext is left to a later writer.
RotateSecret_PlainOnly == RotateSecretTo({"plain"})
RotateSecret == RotateSecretTo({"enc", "plain"})

\* seeder_set_credential: aria2's process-wide header.
SetCredential ==
  /\ rot.pc = "header"
  /\ \E o \in {"ok", "fail", "lost"} :
       /\ Outcome(o)
       /\ seeding' = IF o = "fail" THEN seeding ELSE [seeding EXCEPT !.header = rot.cred]
       /\ IF o = "ok"
            THEN /\ manifest' = [manifest EXCEPT !.phase = "seeder_credential_updated"]
                 /\ rot' = [rot EXCEPT !.pc = "prepare"]
            ELSE Refused /\ UNCHANGED manifest
  /\ UNCHANGED <<vault, lapsed, canonical, backup, gate>>

-----------------------------------------------------------------------------
(* One torrent: rot.at.                                                     *)

\* The replacement bytes; a failure undoes the torrents before this one.
\* A canonical file that cannot be written ends the command.
PrepareReplacement ==
  /\ rot.pc = "prepare"
  /\ \E o \in {"ok", "fail", "unwritten"} :
       /\ Outcome(o)
       /\ CASE o = "ok" -> /\ canonical' = [canonical EXCEPT ![rot.at] = "new"]
                           /\ rot' = [rot EXCEPT !.pc = "remove"]
            [] o = "fail" -> /\ rot' = [rot EXCEPT !.pc = "undo", !.class = "double_failure"]
                             /\ UNCHANGED canonical
            [] o = "unwritten" -> Refused /\ UNCHANGED canonical
  /\ UNCHANGED <<vault, lapsed, backup, seeding, manifest, gate>>

\* forceRemove of the old download.  Any exception is an uncertain result:
\* the old bytes return to the canonical file and the torrent is not added
\* again.
RemoveOldAs(report) ==
  /\ rot.pc = "remove"
  /\ \E o \in {"ok", "fail", "lost"} :
       /\ Outcome(o)
       /\ seeding' = IF o = "fail" THEN seeding ELSE AriaRemove(seeding, rot.at)
       /\ IF o = "ok"
            THEN /\ rot' = [rot EXCEPT !.pc = "add"]
                 /\ UNCHANGED <<canonical, manifest>>
            ELSE /\ canonical' = [canonical EXCEPT ![rot.at] = backup[rot.at]]
                 /\ manifest' = [manifest EXCEPT !.phase = "rolling_back"]
                 /\ rot' = [rot EXCEPT !.pc = "undo", !.class = "remove_failed", !.affected[rot.at] = report]
  /\ UNCHANGED <<vault, lapsed, backup, gate>>

\* Mutant: after an uncertain removal the torrent is reported restored.
RemoveOld_Hopeful == RemoveOldAs("ok")
RemoveOld == RemoveOldAs("bad")

\* addTorrent of the new bytes; after an exception the old bytes return to
\* the canonical file.
AddNewUpTo(last) ==
  /\ rot.pc = "add"
  /\ \E o \in {"ok", "fail", "lost"} :
       /\ Outcome(o)
       /\ seeding' = IF o = "fail" THEN seeding ELSE AriaAdd(seeding, rot.at, "new")
       /\ IF o = "ok"
            THEN /\ rot' = IF rot.at = last THEN [rot EXCEPT !.pc = "probe"]
                           ELSE [rot EXCEPT !.pc = "prepare", !.at = @ + 1]
                 /\ UNCHANGED <<canonical, manifest>>
            ELSE /\ canonical' = [canonical EXCEPT ![rot.at] = backup[rot.at]]
                 /\ manifest' = [manifest EXCEPT !.phase = "rolling_back"]
                 /\ rot' = [rot EXCEPT !.pc = "readd"]
  /\ UNCHANGED <<vault, lapsed, backup, gate>>

\* Mutant: one torrent too many.
AddNew_Past == AddNewUpTo(NumTorrents + 1)
AddNew == AddNewUpTo(NumTorrents)

\* The old bytes are added again; aria2 refuses when the addition that
\* seemed to fail was made.
ReAddOld ==
  /\ rot.pc = "readd"
  /\ \E o \in IF AriaHas(seeding, rot.at) THEN {"refused"} ELSE {"ok", "fail", "lost"} :
       /\ IF o = "refused" THEN UNCHANGED rotLeft ELSE Outcome(o)
       /\ seeding' = IF o \in {"ok", "lost"} THEN AriaAdd(seeding, rot.at, backup[rot.at]) ELSE seeding
       /\ rot' = [rot EXCEPT !.pc = "undo", !.clean = (o = "ok"),
                             !.class = IF o = "ok" THEN "new_add_failed" ELSE "double_failure",
                             !.affected[rot.at] = IF o = "ok" THEN "ok" ELSE "bad"]
  /\ UNCHANGED <<vault, lapsed, canonical, backup, manifest, gate>>

-----------------------------------------------------------------------------
(* _hard_no_go: the torrents before rot.at were applied; rot.at counts down.*)

\* The bytes of an applied torrent return, its download is removed and the
\* old bytes are added; what fails ("half": after the removal) is reported.
UndoApplied ==
  /\ rot.pc = "undo"
  /\ IF rot.at = 1
       THEN /\ rot' = [rot EXCEPT !.pc = "verdict"]
            /\ UNCHANGED <<canonical, seeding, rotLeft>>
       ELSE LET t == rot.at - 1 IN
            \E o \in {"ok", "fail", "half", "lost"} :
              /\ Outcome(o)
              /\ canonical' = [canonical EXCEPT ![t] = backup[t]]
              /\ seeding' = CASE o = "fail" -> seeding
                           [] o = "half" -> AriaRemove(seeding, t)
                           [] OTHER -> AriaAdd(seeding, t, backup[t])
              /\ rot' = [rot EXCEPT !.at = t, !.affected[t] = IF o = "ok" THEN "ok" ELSE "bad"]
  /\ UNCHANGED <<vault, lapsed, backup, manifest, gate>>

\* A clean rollback is an ordinary result; everything else stays frozen.
Verdict ==
  /\ rot.pc = "verdict"
  /\ \E o \in {"ok", "fail"} :
       /\ Outcome(o)
       /\ LET clean == rot.clean /\ \A t \in Torrents : rot.affected[t] # "bad" IN
          manifest' = IF o = "fail" THEN manifest
                      ELSE [manifest EXCEPT
                              !.phase = IF clean THEN "rolled_back"
                                        ELSE IF rot.class = "remove_failed" THEN "hard_no_go" ELSE "double_failure",
                              !.frozen = ~clean, !.claimed = FALSE, !.affected = rot.affected]
  /\ Refused
  /\ UNCHANGED <<vault, lapsed, canonical, backup, seeding, gate>>

-----------------------------------------------------------------------------
\* is_seeder_serving: the tracker saw the seeder, with its current
\* credential, announce exactly these torrents after the additions.
Serving == \A t \in Torrents : AriaHas(seeding, t) /\ seeding.act[t].cred = vault.plain.cur

\* The swarm probe, polled _SWARM_RETRIES times, then the last manifest
\* write: "lost" is a failed write of the verdict.
SwarmProbe ==
  /\ rot.pc = "probe"
  /\ \E o \in {"ok", "fail", "lost"} :
       /\ Outcome(o)
       /\ CASE o = "ok" /\ Serving ->
                 /\ manifest' = [manifest EXCEPT !.phase = "complete", !.claimed = TRUE]
                 /\ rot' = [rot EXCEPT !.pc = "gate"]
            [] o = "lost" -> Refused /\ UNCHANGED manifest
            [] OTHER ->
                 /\ manifest' = [manifest EXCEPT !.phase = "swarm_probe_failed", !.frozen = TRUE, !.claimed = FALSE]
                 /\ Refused
  /\ UNCHANGED <<vault, lapsed, canonical, backup, seeding, gate>>

\* main: the identity-compatible-ready checkpoint of a proven rotation.
OpenGate ==
  /\ rot.pc = "gate"
  /\ gate' = TRUE
  /\ Refused
  /\ UNCHANGED <<vault, lapsed, canonical, backup, seeding, manifest, rotLeft>>

-----------------------------------------------------------------------------
\* Mutant: a rotation that stopped before its second write has nothing to undo.
Recoverable_Late == manifest # NoManifest /\ manifest.phase \notin {"complete", "recovered", "started"}

\* recover_rotation accepts a manifest that is not terminal and whose backups
\* carry the digests it recorded.
Recoverable == manifest # NoManifest /\ manifest.phase \notin {"complete", "recovered"}

RepairNeeded == manifest' = [manifest EXCEPT !.phase = "repair_needed", !.frozen = TRUE, !.claimed = FALSE]

\* main with --recover: the current credential of the store goes to aria2's
\* global header, and the checkpoint is withdrawn.
RecoverBegin ==
  /\ rot.pc = "off" /\ Recoverable /\ \A t \in Torrents : backup[t] # "none"
  /\ \E o \in {"ok", "fail", "lost"} :
       /\ Outcome(o)
       /\ seeding' = IF o = "fail" THEN seeding ELSE [seeding EXCEPT !.header = vault.plain.cur]
       /\ IF o = "ok"
            THEN /\ gate' = FALSE
                 /\ rot' = [NoCommand EXCEPT !.pc = "restore"]
                 /\ UNCHANGED manifest
            ELSE RepairNeeded /\ Refused /\ UNCHANGED gate
  /\ UNCHANGED <<vault, lapsed, canonical, backup>>

\* One row: its old bytes, every active download of its hash removed, the old
\* bytes added and their status read back.
RestoreRow ==
  /\ rot.pc = "restore"
  /\ \E o \in {"ok", "fail", "half", "lost"} :
       /\ Outcome(o)
       /\ canonical' = [canonical EXCEPT ![rot.at] = backup[rot.at]]
       /\ seeding' = CASE o = "fail" -> seeding
                    [] o = "half" -> AriaRemove(seeding, rot.at)
                    [] OTHER -> AriaAdd(seeding, rot.at, backup[rot.at])
       /\ CASE o # "ok" -> RepairNeeded /\ Refused
            [] o = "ok" /\ rot.at < NumTorrents -> rot' = [rot EXCEPT !.at = @ + 1] /\ UNCHANGED manifest
            [] OTHER -> /\ manifest' = [manifest EXCEPT !.phase = "recovered", !.frozen = TRUE, !.claimed = FALSE]
                        /\ Refused
  /\ UNCHANGED <<vault, lapsed, backup, gate>>

-----------------------------------------------------------------------------
(* The world.                                                               *)

\* The command is killed.
KillCommand ==
  /\ rot.pc # "off" /\ rotLeft.crashes > 0
  /\ rot' = NoCommand
  /\ rotLeft' = [rotLeft EXCEPT !.crashes = @ - 1]
  /\ UNCHANGED <<vault, lapsed, canonical, backup, seeding, manifest, gate>>

\* reseed_input.build: the torrents of the catalog, with the bytes on disk.
Reseeded(c) == [t \in Torrents |-> [bytes |-> canonical[t], cred |-> c]]

\* The container restarts: the plain store is decrypted again, and
\* seed-launch.sh starts aria2 with the current credential in its global
\* header and with every published, not quarantined torrent of the catalog.
RelaunchSeeder ==
  /\ rotLeft.crashes > 0
  /\ rotLeft' = [rotLeft EXCEPT !.crashes = @ - 1]
  /\ vault' = [vault EXCEPT !.plain = vault.enc]
  /\ seeding' = [header |-> vault.enc.cur, act |-> Reseeded(vault.enc.cur)]
  /\ rot' = NoCommand
  /\ UNCHANGED <<lapsed, canonical, backup, manifest, gate>>

\* The operator moves a terminal manifest away; the freeze is lifted.
ArchiveManifest ==
  /\ rot.pc = "off" /\ manifest.phase \in {"complete", "recovered"}
  /\ manifest' = NoManifest
  /\ UNCHANGED <<vault, lapsed, canonical, backup, seeding, gate, rot, rotLeft>>

\* A previous credential reaches SEEDER_PREV_TTL.  The window (30 days) is
\* taken to be longer than a frozen maintenance.
Lapse(c) ==
  /\ rot.pc = "off" /\ manifest.phase \in {"none", "complete", "recovered"}
  /\ c \in Prev(vault.plain)
  /\ lapsed' = lapsed \cup {c}
  /\ UNCHANGED <<vault, canonical, backup, seeding, manifest, gate, rot, rotLeft>>

AnnounceNext ==
  \/ Discover \/ BackUp \/ RotateSecret \/ SetCredential
  \/ PrepareReplacement \/ RemoveOld \/ AddNew \/ ReAddOld
  \/ UndoApplied \/ Verdict \/ SwarmProbe \/ OpenGate
  \/ RecoverBegin \/ RestoreRow
  \/ KillCommand \/ RelaunchSeeder \/ ArchiveManifest
  \/ \E c \in Gens : Lapse(c)

\* A command that runs goes on; the operator of a frozen maintenance runs
\* --recover until it succeeds (the message of every failed run says so).
AnnounceFairness ==
  /\ WF_rotVars(rot.pc # "off" /\ AnnounceNext)
  /\ WF_rotVars(RecoverBegin)

AnnounceSpec == AnnounceInit /\ [][AnnounceNext]_rotVars /\ AnnounceFairness

-----------------------------------------------------------------------------
\* The bytes a torrent had before the rotation can be had back at any moment
\* until the manifest is terminal: the backup was taken before the first
\* change (rotate_seeder_announce, "preserve old bytes").
OldBytesKept ==
  Recoverable => \A t \in Torrents : /\ backup[t] # "none"
                                     /\ canonical[t] \in {backup[t], "new"}

\* served_claimed is written only when every torrent announces with the
\* credential that is current in both copies of the store, and the claim
\* stays true whatever restarts (rotate_seeder_announce, is_seeder_serving).
ClaimIsServed ==
  manifest.claimed => /\ Serving /\ vault.enc = vault.plain
                      /\ seeding.header = vault.plain.cur
                      /\ \A t \in Torrents : seeding.act[t].bytes = canonical[t]

\* A torrent that the seeder does not hold after a command ended in a no-go is
\* reported with restore_readd_ok false, and a clean rollback leaves none
\* (_hard_no_go: "any False means serving repair is still required").
NoGoIsReported ==
  (rot.pc = "off" /\ manifest.phase \in {"rolled_back", "hard_no_go", "double_failure"}) =>
    \A t \in Torrents : AriaHas(seeding, t) \/ manifest.affected[t] = "bad"

\* A download of the seeder never carries a credential that the tracker
\* rejects: rotated-out generations keep their window until every torrent
\* moved to the new one (rotate_announce, SEEDER_PREV_CAP).
DownloadsAccepted ==
  \A t \in Torrents : AriaHas(seeding, t) => Accepted(seeding.act[t].cred)

\* An interrupted or failed rotation ends with every published torrent at the
\* seeder again, under a terminal manifest (recover_rotation).
RotationRecovers ==
  (manifest # NoManifest) ~>
    (manifest.phase \in {"none", "complete", "recovered"} /\ \A t \in Torrents : AriaHas(seeding, t))

\* What holds in every state of a rotation.
AnnounceSafe ==
  /\ AnnounceTypeOK
  /\ OldBytesKept
  /\ ClaimIsServed
  /\ NoGoIsReported
  /\ DownloadsAccepted
=============================================================================
