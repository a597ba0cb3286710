---------------------------- MODULE PeersProofs ----------------------------
(***************************************************************************)
(* What the tracker's reconciler keeps for any devices, addresses, policy  *)
(* edits, failures and restarts: the shape of its files, and a memory of   *)
(* aria2 that is true whenever the next pass relies on it; that no         *)
(* operation of the outbox is acknowledged before its audit record is      *)
(* written; and that addresses are blocked and released for a reason.      *)
(* First, what the rotation of the seeder's announce credential keeps for  *)
(* any number of torrents, credentials, faults and crashes: the old bytes, *)
(* the truth of its claims and verdicts, and credentials the tracker       *)
(* accepts.                                                                *)
(***************************************************************************)
EXTENDS MCPeers, FiniteSetTheorems, WellFoundedInduction, TLAPS

----------------------------------------------------------------------------
(* The rotation: its inductive invariant.                                  *)

Phases == {"none", "started", "secret_rotated", "seeder_credential_updated",
           "rolling_back", "rolled_back", "hard_no_go", "double_failure",
           "swarm_probe_failed", "complete", "repair_needed", "recovered"}
Pcs == {"off", "backup", "secret", "header", "prepare", "remove", "add", "readd", "undo",
        "verdict", "probe", "gate", "recover", "restore"}
Reports == [Torrents -> {"none", "ok", "bad"}]
Downloads == [bytes : {"none", "old", "new"}, cred : 0..MaxGen]
Stores == [cur : Gens, prev : SUBSET Gens]
Seedings == [header : Gens, act : [Torrents -> Downloads]]
Manifests == [phase : Phases, frozen : BOOLEAN, claimed : BOOLEAN, affected : Reports]
Commands == [pc : Pcs, at : Torrents, cred : 0..MaxGen, clean : BOOLEAN, affected : Reports,
             class : {"none", "double_failure", "remove_failed", "new_add_failed"}]

\* AnnounceTypeOK with the locals of the command.
RotTypes ==
  /\ vault \in [{"enc", "plain"} -> Stores]
  /\ lapsed \in SUBSET Gens
  /\ canonical \in [Torrents -> {"old", "new"}]
  /\ backup \in [Torrents -> {"none", "old", "new"}]
  /\ seeding \in Seedings
  /\ manifest \in Manifests
  /\ gate \in BOOLEAN
  /\ rot \in Commands
  /\ rotLeft \in [faults : 0..RotFaults, crashes : 0..RotCrashes]

\* Credentials are minted in order.  The ciphertext is never behind the plain
\* store, and only a credential that was rotated out can lapse.
Ages ==
  /\ \A f \in {"enc", "plain"} : \A c \in vault[f].prev : c < vault[f].cur
  /\ vault.plain.cur <= vault.enc.cur
  /\ \A c \in lapsed : c < vault.plain.cur

Resting == {"none", "complete", "recovered"}
Applying == {"prepare", "remove", "add", "readd", "undo", "verdict", "probe"}

\* What the position of the command says of the manifest and of the store.
Position ==
  /\ manifest.phase = "none" => manifest = NoManifest
  /\ manifest.phase = "complete" <=> manifest.claimed
  /\ rot.pc \in {"backup", "secret"} => vault.enc.cur < MaxGen
  /\ rot.pc \in {"backup", "secret", "header"} => rot.at = 1
  /\ rot.pc = "backup" => manifest = NoManifest
  /\ rot.pc = "secret" => manifest.phase = "started"
  /\ rot.pc = "header" => rot.cred = vault.plain.cur
  /\ rot.pc \in Applying \cup {"header"} =>
       /\ vault.enc = vault.plain
       /\ manifest.phase \in {"secret_rotated", "seeder_credential_updated", "rolling_back"}
  /\ rot.pc = "gate" => manifest.phase = "complete"
  /\ rot.pc = "restore" => Recoverable
  /\ rot.pc # "recover"

\* The credential aria2 announces new downloads with is the store's, except
\* between a rotation of the store and the command that follows it up.
HeaderIsCurrent ==
  manifest.phase \in Resting \/ rot.pc \in Applying \cup {"secret", "restore"}
    => seeding.header = vault.plain.cur

\* No download announces with an older credential while no rotation is open,
\* nor one that recovery has put back.
CurrentDownloads ==
  \A t \in Torrents :
    manifest.phase \in Resting \/ (rot.pc = "restore" /\ t < rot.at) =>
      ~AriaHas(seeding, t) \/ seeding.act[t].cred = vault.plain.cur

\* Which torrents the seeder holds while the command works on rot.at.
Held ==
  \A t \in Torrents :
    /\ rot.pc \in {"backup", "secret", "header", "prepare", "remove", "probe"} => AriaHas(seeding, t)
    /\ rot.pc \in {"add", "readd"} /\ t # rot.at => AriaHas(seeding, t)
    /\ rot.pc \in {"undo", "verdict"} => \/ AriaHas(seeding, t)
                                         \/ rot.affected[t] = "bad" /\ (rot.pc = "undo" => t >= rot.at)
    /\ manifest.phase \in {"rolled_back", "hard_no_go", "double_failure"} =>
         AriaHas(seeding, t) \/ manifest.affected[t] = "bad"

\* The torrents the command has moved to the new bytes.
Applied ==
  \A t \in Torrents :
    /\ rot.pc = "probe" \/ (rot.pc \in {"prepare", "remove", "add"} /\ t < rot.at) =>
         seeding.act[t].bytes = "new" /\ canonical[t] = "new"
    /\ rot.pc \in {"remove", "add"} /\ t = rot.at => canonical[t] = "new"

RotInductive ==
  /\ RotTypes
  /\ Ages
  /\ Position
  /\ HeaderIsCurrent
  /\ CurrentDownloads
  /\ Held
  /\ Applied
  /\ OldBytesKept
  /\ ClaimIsServed
  /\ DownloadsAccepted

----------------------------------------------------------------------------
(* Types of the updates.                                                   *)

LEMMA TypesMatch == RotTypes => AnnounceTypeOK
  BY DEF RotTypes, AnnounceTypeOK, Stores, Seedings, Downloads, Manifests, Commands, Reports,
         Phases, Pcs

\* The newest credential of both copies is the ciphertext's.
LEMMA FreshIsNext ==
    ASSUME RotTypes, Ages
    PROVE  Fresh = vault.enc.cur + 1
  <1> DEFINE S == UNION {{vault[f].cur} \cup vault[f].prev : f \in {"enc", "plain"}}
  <1>1. /\ vault["enc"] \in Stores /\ vault["plain"] \in Stores
        /\ S = {vault["enc"].cur} \cup vault["enc"].prev
                 \cup {vault["plain"].cur} \cup vault["plain"].prev
    BY DEF RotTypes
  <1>2. S \subseteq Int /\ vault.enc.cur \in S /\ \A c \in S : c <= vault.enc.cur
    BY <1>1 DEF Ages, Gens, Stores
  <1>3. \A x \in S : (\A y \in S : x >= y) => x = vault.enc.cur
    BY <1>2
  <1>4. Max(S) = vault.enc.cur
    BY <1>2, <1>3 DEF Max
  <1>5. vault.enc.cur \in Int
    BY <1>2
  <1>6. Fresh = 1 + Max(S)
    BY DEF Fresh
  <1> QED
    BY <1>4, <1>5, <1>6

\* The seeder's updates.
LEMMA SeedingTyped ==
    ASSUME NEW a \in Seedings, NEW t \in Torrents
    PROVE  /\ AriaRemove(a, t) \in Seedings
           /\ \A b \in {"none", "old", "new"} : AriaAdd(a, t, b) \in Seedings
  <1>1. \A d \in Downloads : [a EXCEPT !.act[t] = d] \in Seedings
    BY DEF Seedings
  <1>2. /\ NoDownload \in Downloads
        /\ \A b \in {"none", "old", "new"} : [bytes |-> b, cred |-> a.header] \in Downloads
    BY AnnounceAssumption DEF Seedings, Downloads, NoDownload, Gens
  <1> QED
    BY <1>1, <1>2 DEF AriaAdd, AriaRemove

\* The constant records.
LEMMA NothingTyped == NoManifest \in Manifests /\ NoCommand \in Commands
  BY AnnounceAssumption DEF Manifests, NoManifest, Phases, Commands, NoCommand, Reports, Pcs, Torrents

\* A report of one torrent.
LEMMA ReportTyped ==
    ASSUME NEW r \in Commands, NEW t \in Torrents, NEW v \in {"ok", "bad"}
    PROVE  [r.affected EXCEPT ![t] = v] \in Reports
  BY DEF Commands, Reports

\* The budget of faults.
LEMMA OutcomeTyped ==
    ASSUME RotTypes, NEW o, Outcome(o)
    PROVE  rotLeft' \in [faults : 0..RotFaults, crashes : 0..RotCrashes]
  BY AnnounceAssumption DEF RotTypes, Outcome

\* Every action keeps the types.
LEMMA RotTypeStep ==
    ASSUME RotTypes, Ages, Position, OldBytesKept, [AnnounceNext]_rotVars
    PROVE  RotTypes'
  <1> USE NothingTyped
  <1>0. /\ 1 \in Torrents /\ Gens \subseteq 0..MaxGen /\ NumTorrents \in Nat /\ MaxGen \in Nat
        /\ vault.plain \in Stores /\ vault.enc \in Stores
        /\ seeding \in Seedings /\ manifest \in Manifests /\ rot \in Commands
        /\ seeding.header \in Gens /\ vault.plain.cur \in Gens /\ vault.enc.cur \in Gens
        /\ rot.at \in Torrents /\ rot.affected \in Reports /\ rot.cred \in 0..MaxGen
    BY AnnounceAssumption DEF RotTypes, Gens, Torrents, Stores, Seedings, Commands
  <1>1. CASE Discover
    <2>1. rot' \in Commands
      BY <1>1, <1>0 DEF Discover, Commands, Pcs
    <2> QED
      BY <1>1, <2>1 DEF Discover, RotTypes
  <1>2. CASE BackUp
    <2>1. rot' \in Commands
      BY <1>2, <1>0 DEF BackUp, BackUpOf, Commands, Pcs, Refused
    <2>2. manifest' \in Manifests
      BY <1>2, <1>0 DEF BackUp, BackUpOf, Manifests, Phases
    <2>3. backup' \in [Torrents -> {"none", "old", "new"}]
      BY <1>2, <1>0 DEF BackUp, BackUpOf, RotTypes
    <2>4. rotLeft' \in [faults : 0..RotFaults, crashes : 0..RotCrashes]
      BY <1>2, <1>0, OutcomeTyped DEF BackUp, BackUpOf
    <2> QED
      BY <1>2, <2>1, <2>2, <2>3, <2>4 DEF BackUp, BackUpOf, RotTypes
  <1>3. CASE RotateSecret
    <2>1. Fresh \in Gens
      BY <1>3, <1>0, FreshIsNext DEF RotateSecret, RotateSecretTo, Position, Gens
    <2>2. Rotated(vault.plain, Fresh) \in Stores
      BY <1>3, <1>0, <2>1 DEF RotateSecret, RotateSecretTo, Rotated, Prev, Stores
    <2>3. rot' \in {NoCommand, [rot EXCEPT !.pc = "header", !.cred = Fresh]}
      BY <1>3, <1>0 DEF RotateSecret, RotateSecretTo, Refused
    <2>4. \A g \in Gens : [rot EXCEPT !.pc = "header", !.cred = g] \in Commands
      BY <1>0, NothingTyped DEF Commands, Pcs
    <2>5. rot' \in Commands
      BY <1>0, <2>1, <2>3, <2>4, NothingTyped
    <2>6. manifest' \in Manifests
      BY <1>3, <1>0 DEF RotateSecret, RotateSecretTo, Manifests, Phases
    <2>7. vault' \in [{"enc", "plain"} -> Stores]
      BY <1>3, <1>0, <2>2 DEF RotateSecret, RotateSecretTo, Persisted, RotTypes
    <2>8. rotLeft' \in [faults : 0..RotFaults, crashes : 0..RotCrashes]
      BY <1>3, <1>0, OutcomeTyped DEF RotateSecret, RotateSecretTo, RotTypes
    <2> QED
      BY <1>3, <2>1, <2>2, <2>3, <2>4, <2>5, <2>6, <2>7, <2>8 DEF RotateSecret, RotateSecretTo, RotTypes
  <1>4. CASE SetCredential
    <2>1. rot' \in Commands
      BY <1>4, <1>0 DEF SetCredential, Commands, Pcs, Refused
    <2>2. manifest' \in Manifests
      BY <1>4, <1>0 DEF SetCredential, Manifests, Phases
    <2>3. rot.cred \in Gens
      BY <1>4, <1>0 DEF SetCredential, Position
    <2>4. seeding' \in Seedings
      BY <1>4, <1>0, <2>3 DEF SetCredential, Seedings
    <2>5. rotLeft' \in [faults : 0..RotFaults, crashes : 0..RotCrashes]
      BY <1>4, <1>0, OutcomeTyped DEF SetCredential
    <2> QED
      BY <1>4, <2>1, <2>2, <2>3, <2>4, <2>5 DEF SetCredential, RotTypes
  <1>5. CASE PrepareReplacement
    <2>1. rot' \in Commands
      BY <1>5, <1>0 DEF PrepareReplacement, Commands, Pcs, Refused
    <2>2. canonical' \in [Torrents -> {"old", "new"}]
      BY <1>5, <1>0 DEF PrepareReplacement, RotTypes
    <2>3. rotLeft' \in [faults : 0..RotFaults, crashes : 0..RotCrashes]
      BY <1>5, <1>0, OutcomeTyped DEF PrepareReplacement
    <2> QED
      BY <1>5, <2>1, <2>2, <2>3 DEF PrepareReplacement, RotTypes
  <1>6. CASE RemoveOld
    <2>1. [rot.affected EXCEPT ![rot.at] = "bad"] \in Reports
      BY <1>6, <1>0, ReportTyped DEF RemoveOld, RemoveOldAs
    <2>2. rot' \in Commands
      BY <1>6, <1>0, <2>1, ZenonT(60) DEF RemoveOld, RemoveOldAs, Commands, Pcs
    <2>3. manifest' \in Manifests
      BY <1>6, <1>0 DEF RemoveOld, RemoveOldAs, Manifests, Phases
    <2>4. AriaRemove(seeding, rot.at) \in Seedings /\ AriaAdd(seeding, rot.at, "new") \in Seedings
      BY <1>0, SeedingTyped
    <2>5. seeding' \in Seedings
      BY <1>6, <1>0, <2>4 DEF RemoveOld, RemoveOldAs
    <2>6. backup[rot.at] \in {"old", "new"}
      BY <1>6, <1>0 DEF RemoveOld, RemoveOldAs, OldBytesKept, Recoverable, Position, Applying, NoManifest, RotTypes
    <2>7. canonical' \in [Torrents -> {"old", "new"}]
      BY <1>6, <1>0, <2>6 DEF RemoveOld, RemoveOldAs, RotTypes
    <2>8. rotLeft' \in [faults : 0..RotFaults, crashes : 0..RotCrashes]
      BY <1>6, <1>0, OutcomeTyped DEF RemoveOld, RemoveOldAs
    <2> QED
      BY <1>6, <2>1, <2>2, <2>3, <2>4, <2>5, <2>6, <2>7, <2>8 DEF RemoveOld, RemoveOldAs, RotTypes
  <1>7. CASE AddNew
    <2>1. rot.at # NumTorrents => rot.at + 1 \in Torrents
      BY <1>7, <1>0 DEF AddNew, AddNewUpTo, Torrents
    <2>2. rot' \in Commands
      BY <1>7, <1>0, <2>1, ZenonT(60) DEF AddNew, AddNewUpTo, Commands, Pcs
    <2>3. manifest' \in Manifests
      BY <1>7, <1>0 DEF AddNew, AddNewUpTo, Manifests, Phases
    <2>4. AriaRemove(seeding, rot.at) \in Seedings /\ AriaAdd(seeding, rot.at, "new") \in Seedings
      BY <1>0, SeedingTyped
    <2>5. seeding' \in Seedings
      BY <1>7, <1>0, <2>4 DEF AddNew, AddNewUpTo
    <2>6. backup[rot.at] \in {"old", "new"}
      BY <1>7, <1>0 DEF AddNew, AddNewUpTo, OldBytesKept, Recoverable, Position, Applying, NoManifest, RotTypes
    <2>7. canonical' \in [Torrents -> {"old", "new"}]
      BY <1>7, <1>0, <2>6 DEF AddNew, AddNewUpTo, RotTypes
    <2>8. rotLeft' \in [faults : 0..RotFaults, crashes : 0..RotCrashes]
      BY <1>7, <1>0, OutcomeTyped DEF AddNew, AddNewUpTo
    <2> QED
      BY <1>7, <2>1, <2>2, <2>3, <2>4, <2>5, <2>6, <2>7, <2>8 DEF AddNew, AddNewUpTo, RotTypes
  <1>8. CASE ReAddOld
    <2>1. \A v \in {"ok", "bad"} : [rot.affected EXCEPT ![rot.at] = v] \in Reports
      BY <1>8, <1>0, ReportTyped DEF ReAddOld
    <2>2. rot' \in Commands
      BY <1>8, <1>0, <2>1 DEF ReAddOld, Commands, Pcs
    <2>3. backup[rot.at] \in {"none", "old", "new"}
      BY <1>8, <1>0 DEF ReAddOld, RotTypes
    <2>4. AriaAdd(seeding, rot.at, backup[rot.at]) \in Seedings
      BY <1>0, <2>3, SeedingTyped
    <2>5. seeding' \in Seedings
      BY <1>8, <1>0, <2>4 DEF ReAddOld
    <2>6. rotLeft' \in [faults : 0..RotFaults, crashes : 0..RotCrashes]
      BY <1>8, <1>0, OutcomeTyped DEF ReAddOld, RotTypes
    <2> QED
      BY <1>8, <2>1, <2>2, <2>3, <2>4, <2>5, <2>6 DEF ReAddOld, RotTypes
  <1>9. CASE UndoApplied
    <2>1. rot.at # 1 => rot.at - 1 \in Torrents
      BY <1>9, <1>0 DEF UndoApplied, Torrents
    <2>2. \A t \in Torrents, v \in {"ok", "bad"} : [rot.affected EXCEPT ![t] = v] \in Reports
      BY <1>9, <1>0, ReportTyped DEF UndoApplied
    <2>3. rot' \in Commands
      BY <1>9, <1>0, <2>1, <2>2, ZenonT(60) DEF UndoApplied, Commands, Pcs
    <2>4. \A t \in Torrents : backup[t] \in {"old", "new"}
      BY <1>9, <1>0 DEF UndoApplied, OldBytesKept, Recoverable, Position, Applying, NoManifest, RotTypes
    <2>5. \A t \in Torrents : AriaAdd(seeding, t, backup[t]) \in Seedings /\ AriaRemove(seeding, t) \in Seedings
      BY <1>0, <2>4, SeedingTyped
    <2>6. seeding' \in Seedings
      BY <1>9, <1>0, <2>1, <2>5 DEF UndoApplied
    <2>7. canonical' \in [Torrents -> {"old", "new"}]
      BY <1>9, <1>0, <2>1, <2>4 DEF UndoApplied, RotTypes
    <2>8. rotLeft' \in [faults : 0..RotFaults, crashes : 0..RotCrashes]
      BY <1>9, <1>0, OutcomeTyped DEF UndoApplied, RotTypes
    <2> QED
      BY <1>9, <2>1, <2>2, <2>3, <2>4, <2>5, <2>6, <2>7, <2>8 DEF UndoApplied, RotTypes
  <1>10. CASE Verdict
    <2>1. rot' \in Commands
      BY <1>10, <1>0 DEF Verdict, Refused
    <2>2. manifest' \in Manifests
      BY <1>10, <1>0 DEF Verdict, Manifests, Phases
    <2>3. rotLeft' \in [faults : 0..RotFaults, crashes : 0..RotCrashes]
      BY <1>10, <1>0, OutcomeTyped DEF Verdict
    <2> QED
      BY <1>10, <2>1, <2>2, <2>3 DEF Verdict, RotTypes
  <1>11. CASE SwarmProbe
    <2>1. rot' \in Commands
      BY <1>11, <1>0 DEF SwarmProbe, Commands, Pcs, Refused
    <2>2. manifest' \in Manifests
      BY <1>11, <1>0 DEF SwarmProbe, Manifests, Phases
    <2>3. rotLeft' \in [faults : 0..RotFaults, crashes : 0..RotCrashes]
      BY <1>11, <1>0, OutcomeTyped DEF SwarmProbe
    <2> QED
      BY <1>11, <2>1, <2>2, <2>3 DEF SwarmProbe, RotTypes
  <1>12. CASE OpenGate
    <2>1. rot' \in Commands
      BY <1>12, <1>0 DEF OpenGate, Refused
    <2> QED
      BY <1>12, <2>1 DEF OpenGate, RotTypes, Refused
  <1>13. CASE RecoverBegin
    <2>1. rot' \in Commands
      BY <1>13, <1>0 DEF RecoverBegin, RepairNeeded, Commands, Pcs, Refused
    <2>2. manifest' \in Manifests
      BY <1>13, <1>0 DEF RecoverBegin, RepairNeeded, Manifests, Phases
    <2>3. seeding' \in Seedings
      BY <1>13, <1>0 DEF RecoverBegin, RepairNeeded, Seedings
    <2>4. gate' \in BOOLEAN
      BY <1>13, <1>0 DEF RecoverBegin, RepairNeeded, RotTypes
    <2>5. rotLeft' \in [faults : 0..RotFaults, crashes : 0..RotCrashes]
      BY <1>13, <1>0, OutcomeTyped DEF RecoverBegin, RepairNeeded
    <2> QED
      BY <1>13, <2>1, <2>2, <2>3, <2>4, <2>5 DEF RecoverBegin, RepairNeeded, RotTypes
  <1>14. CASE RestoreRow
    <2>1. rot.at < NumTorrents => rot.at + 1 \in Torrents
      BY <1>14, <1>0 DEF RestoreRow, RepairNeeded, Torrents
    <2>2. rot' \in Commands
      BY <1>14, <1>0, <2>1 DEF RestoreRow, RepairNeeded, Commands, Pcs, Refused
    <2>3. manifest' \in Manifests
      BY <1>14, <1>0 DEF RestoreRow, RepairNeeded, Manifests, Phases
    <2>4. backup[rot.at] \in {"old", "new"}
      BY <1>14, <1>0 DEF RestoreRow, RepairNeeded, OldBytesKept, Position, RotTypes
    <2>5. AriaAdd(seeding, rot.at, backup[rot.at]) \in Seedings /\ AriaRemove(seeding, rot.at) \in Seedings
      BY <1>0, <2>4, SeedingTyped
    <2>6. seeding' \in Seedings
      BY <1>14, <1>0, <2>5 DEF RestoreRow, RepairNeeded
    <2>7. canonical' \in [Torrents -> {"old", "new"}]
      BY <1>14, <1>0, <2>4 DEF RestoreRow, RepairNeeded, RotTypes
    <2>8. rotLeft' \in [faults : 0..RotFaults, crashes : 0..RotCrashes]
      BY <1>14, <1>0, OutcomeTyped DEF RestoreRow, RepairNeeded
    <2> QED
      BY <1>14, <2>1, <2>2, <2>3, <2>4, <2>5, <2>6, <2>7, <2>8 DEF RestoreRow, RepairNeeded, RotTypes
  <1>15. CASE KillCommand
    <2>1. rotLeft' \in [faults : 0..RotFaults, crashes : 0..RotCrashes]
      BY <1>15, <1>0, AnnounceAssumption DEF KillCommand, RotTypes
    <2> QED
      BY <1>15, <2>1 DEF KillCommand, RotTypes, Refused
  <1>16. CASE RelaunchSeeder
    <2>1. Reseeded(vault.enc.cur) \in [Torrents -> Downloads]
      BY <1>16, <1>0 DEF RelaunchSeeder, Reseeded, Downloads, RotTypes, Gens
    <2>2. seeding' \in Seedings
      BY <1>16, <1>0, <2>1 DEF RelaunchSeeder, Seedings
    <2>3. vault' \in [{"enc", "plain"} -> Stores]
      BY <1>16, <1>0 DEF RelaunchSeeder, RotTypes
    <2>4. rotLeft' \in [faults : 0..RotFaults, crashes : 0..RotCrashes]
      BY <1>16, <1>0, AnnounceAssumption DEF RelaunchSeeder, RotTypes
    <2> QED
      BY <1>16, <2>1, <2>2, <2>3, <2>4 DEF RelaunchSeeder, RotTypes
  <1>17. CASE ArchiveManifest
    BY <1>17 DEF ArchiveManifest, RotTypes
  <1>18. ASSUME NEW c \in Gens, Lapse(c) PROVE RotTypes'
    BY <1>18 DEF Lapse, RotTypes
  <1>19. CASE UNCHANGED rotVars
    BY <1>19 DEF rotVars, RotTypes
  <1> QED
    BY <1>1, <1>2, <1>3, <1>4, <1>5, <1>6, <1>7, <1>8, <1>9, <1>10, <1>11, <1>12, <1>13, <1>14, <1>15, <1>16, <1>17, <1>18, <1>19 DEF AnnounceNext

----------------------------------------------------------------------------
(* What the updates change.                                                *)

\* A removal touches one download and not the header.
LEMMA RemoveAt ==
    ASSUME NEW a \in Seedings, NEW t \in Torrents
    PROVE  /\ AriaRemove(a, t).header = a.header
           /\ \A u \in Torrents :
                /\ AriaRemove(a, t).act[u] = IF u = t THEN NoDownload ELSE a.act[u]
                /\ AriaHas(AriaRemove(a, t), u) <=> u # t /\ AriaHas(a, u)
  <1>1. \A d : /\ [a EXCEPT !.act[t] = d].header = a.header
               /\ \A u \in Torrents : [a EXCEPT !.act[t] = d].act[u] = IF u = t THEN d ELSE a.act[u]
    BY DEF Seedings
  <1> QED
    BY <1>1 DEF AriaRemove, AriaHas

\* So does an addition, and the torrent has a download then.
LEMMA AddAt ==
    ASSUME NEW a \in Seedings, NEW t \in Torrents, NEW b
    PROVE  /\ AriaAdd(a, t, b).header = a.header
           /\ \A u \in Torrents :
                /\ AriaAdd(a, t, b).act[u] = IF u = t THEN [bytes |-> b, cred |-> a.header] ELSE a.act[u]
                /\ AriaHas(AriaAdd(a, t, b), u) <=> u = t \/ AriaHas(a, u)
  <1>1. \A d : /\ [a EXCEPT !.act[t] = d].header = a.header
               /\ \A u \in Torrents : [a EXCEPT !.act[t] = d].act[u] = IF u = t THEN d ELSE a.act[u]
    BY DEF Seedings
  <1>2. a.header # 0
    BY AnnounceAssumption DEF Seedings, Gens
  <1> QED
    BY <1>1, <1>2 DEF AriaAdd, AriaHas, NoDownload

\* One step of the rollback.
LEMMA UndoEffect ==
    ASSUME RotTypes, UndoApplied
    PROVE  \/ /\ rot.at = 1 /\ rot' = [rot EXCEPT !.pc = "verdict"]
              /\ UNCHANGED <<canonical, seeding>>
           \/ \E t \in Torrents, v \in {"ok", "bad"} :
                /\ rot.at # 1 /\ t = rot.at - 1
                /\ canonical' = [canonical EXCEPT ![t] = backup[t]]
                /\ rot' = [rot EXCEPT !.at = t, !.affected[t] = v]
                /\ \/ seeding' = AriaAdd(seeding, t, backup[t])
                   \/ v = "bad" /\ seeding' \in {seeding, AriaRemove(seeding, t)}
  <1>1. rot.at # 1 => rot.at - 1 \in Torrents
    BY AnnounceAssumption DEF RotTypes, Commands, Torrents
  <1>2. CASE rot.at = 1
    BY <1>2 DEF UndoApplied
  <1>3. CASE rot.at # 1
    <2>1. PICK o \in {"ok", "fail", "half", "lost"} :
            /\ canonical' = [canonical EXCEPT ![rot.at - 1] = backup[rot.at - 1]]
            /\ seeding' = CASE o = "fail" -> seeding
                           [] o = "half" -> AriaRemove(seeding, rot.at - 1)
                           [] OTHER -> AriaAdd(seeding, rot.at - 1, backup[rot.at - 1])
            /\ rot' = [rot EXCEPT !.at = rot.at - 1,
                                  !.affected[rot.at - 1] = IF o = "ok" THEN "ok" ELSE "bad"]
      BY <1>3 DEF UndoApplied
    <2>2. PICK t \in Torrents : t = rot.at - 1
      BY <1>1, <1>3
    <2>3. PICK v \in {"ok", "bad"} : v = IF o = "ok" THEN "ok" ELSE "bad"
      OBVIOUS
    <2>4. rot' = [rot EXCEPT !.at = t, !.affected[t] = v]
      BY <2>1, <2>2, <2>3
    <2>5. \/ seeding' = AriaAdd(seeding, t, backup[t])
          \/ v = "bad" /\ seeding' \in {seeding, AriaRemove(seeding, t)}
      BY <2>1, <2>2, <2>3
    <2> QED
      BY <1>3, <2>1, <2>2, <2>4, <2>5
  <1> QED
    BY <1>2, <1>3

\* Credentials keep their order.
LEMMA AgesStep ==
    ASSUME RotTypes, Ages, Position, [AnnounceNext]_rotVars
    PROVE  Ages'
  <1>0. /\ vault.plain \in Stores /\ vault.enc \in Stores
        /\ vault.plain.cur \in Int /\ vault.enc.cur \in Int
        /\ vault.plain.prev \subseteq Int /\ vault.enc.prev \subseteq Int /\ lapsed \subseteq Int
    BY DEF RotTypes, Stores, Gens
  <1>1. CASE RotateSecret
    <2>1. Fresh = vault.enc.cur + 1
      BY FreshIsNext
    <2>2. LET new == Rotated(vault.plain, Fresh)
          IN  new.cur = Fresh /\ (\A c \in new.prev : c < Fresh)
      BY <1>0, <2>1 DEF Rotated, Prev, Ages
    <2>3. /\ \/ vault'.enc = vault.enc /\ vault'.plain = vault.plain
             \/ vault'.enc = Rotated(vault.plain, Fresh) /\ vault'.plain = vault.plain
             \/ vault'.enc = Rotated(vault.plain, Fresh) /\ vault'.plain = Rotated(vault.plain, Fresh)
          /\ lapsed' = lapsed
      BY <1>1 DEF RotateSecret, RotateSecretTo, Persisted, RotTypes
    <2> QED
      BY <1>0, <2>1, <2>2, <2>3 DEF Ages
  <1>2. CASE RelaunchSeeder
    <2>1. vault'.enc = vault.enc /\ vault'.plain = vault.enc /\ lapsed' = lapsed
      BY <1>2 DEF RelaunchSeeder, RotTypes
    <2> QED
      BY <1>0, <2>1 DEF Ages
  <1>3. ASSUME NEW c \in Gens, Lapse(c) PROVE Ages'
    BY <1>0, <1>3 DEF Lapse, Ages, Prev
  <1>4. ASSUME UNCHANGED <<vault, lapsed>> PROVE Ages'
    BY <1>4 DEF Ages
  <1>5. \/ RotateSecret \/ RelaunchSeeder \/ (\E c \in Gens : Lapse(c)) \/ UNCHANGED <<vault, lapsed>>
    BY DEF AnnounceNext, rotVars, Discover, BackUp, BackUpOf, SetCredential, PrepareReplacement,
           RemoveOld, RemoveOldAs, AddNew, AddNewUpTo, ReAddOld, UndoApplied, Verdict, SwarmProbe,
           OpenGate, RecoverBegin, RestoreRow, KillCommand, ArchiveManifest
  <1> QED
    BY <1>1, <1>2, <1>3, <1>4, <1>5

\* The command's position.
LEMMA PositionStep ==
    ASSUME RotTypes, Ages, Position, [AnnounceNext]_rotVars
    PROVE  Position'
  <1> USE DEF Refused, Position, Applying, Recoverable
  <1>0. /\ rot \in Commands /\ manifest \in Manifests /\ vault.enc.cur \in Int /\ vault.plain \in Stores
        /\ NoManifest.phase = "none" /\ NoManifest.claimed = FALSE /\ NoManifest \in Manifests
        /\ NoCommand.pc = "off" /\ NoCommand \in Commands
    BY NothingTyped DEF RotTypes, NoManifest, NoCommand, Stores, Gens
  <1>1. CASE Discover
    <2>1. vault.enc.cur < MaxGen
      BY <1>1, <1>0, FreshIsNext, AnnounceAssumption DEF Discover, Gens
    <2>2. rot'.pc = "backup" /\ rot'.at = 1 /\ manifest = NoManifest /\ UNCHANGED <<vault, manifest>>
      BY <1>1, <1>0 DEF Discover, NoCommand
    <2> QED
      BY <1>0, <2>1, <2>2
  <1>2. CASE BackUp
    <2>1. \/ rot' = NoCommand /\ UNCHANGED <<vault, manifest>>
          \/ /\ rot' = [rot EXCEPT !.pc = "secret"] /\ vault' = vault
             /\ manifest' = [NoManifest EXCEPT !.phase = "started", !.frozen = TRUE]
      BY <1>2 DEF BackUp, BackUpOf
    <2>2. LET m == [NoManifest EXCEPT !.phase = "started", !.frozen = TRUE]
          IN  m.phase = "started" /\ m.claimed = FALSE
      BY <1>0 DEF Manifests
    <2>3. [rot EXCEPT !.pc = "secret"].pc = "secret" /\ [rot EXCEPT !.pc = "secret"].at = rot.at
      BY <1>0 DEF Commands
    <2> QED
      BY <1>2, <1>0, <2>1, <2>2, <2>3 DEF BackUp, BackUpOf
  <1>3. CASE RotateSecret
    <2>1. \/ rot' = NoCommand /\ manifest' = manifest
          \/ /\ rot' = [rot EXCEPT !.pc = "header", !.cred = Fresh]
             /\ manifest' = [manifest EXCEPT !.phase = "secret_rotated"]
             /\ vault'.enc = Rotated(vault.plain, Fresh) /\ vault'.plain = Rotated(vault.plain, Fresh)
      BY <1>3 DEF RotateSecret, RotateSecretTo, Persisted
    <2>2. rot.pc = "secret" /\ Rotated(vault.plain, Fresh).cur = Fresh
      BY <1>3 DEF RotateSecret, RotateSecretTo, Rotated
    <2> QED
      BY <1>0, <2>1, <2>2 DEF Manifests, Commands
  <1>4. CASE SetCredential
    BY <1>4, <1>0 DEF SetCredential, Commands, Manifests
  <1>5. CASE PrepareReplacement
    BY <1>5, <1>0 DEF PrepareReplacement, Commands, Manifests
  <1>6. CASE RemoveOld
    BY <1>6, <1>0, ZenonT(60) DEF RemoveOld, RemoveOldAs, Commands, Manifests
  <1>7. CASE AddNew
    BY <1>7, <1>0 DEF AddNew, AddNewUpTo, Commands, Manifests
  <1>8. CASE ReAddOld
    BY <1>8, <1>0 DEF ReAddOld, Commands, Manifests
  <1>9. CASE UndoApplied
    BY <1>9, <1>0 DEF UndoApplied, Commands, Manifests
  <1>10. CASE Verdict
    BY <1>10, <1>0 DEF Verdict, Commands, Manifests
  <1>11. CASE SwarmProbe
    BY <1>11, <1>0 DEF SwarmProbe, Commands, Manifests
  <1>12. CASE OpenGate
    BY <1>12, <1>0 DEF OpenGate, Commands, Manifests
  <1>13. CASE RecoverBegin
    BY <1>13, <1>0 DEF RecoverBegin, RepairNeeded, Commands, Manifests
  <1>14. CASE RestoreRow
    BY <1>14, <1>0 DEF RestoreRow, RepairNeeded, Commands, Manifests
  <1>15. CASE KillCommand
    BY <1>15, <1>0 DEF KillCommand, Commands, Manifests
  <1>16. CASE RelaunchSeeder
    BY <1>16, <1>0 DEF RelaunchSeeder, Commands, Manifests
  <1>17. CASE ArchiveManifest
    BY <1>17, <1>0 DEF ArchiveManifest, Commands, Manifests
  <1>18. ASSUME NEW c \in Gens, Lapse(c) PROVE Position'
    BY <1>18, <1>0 DEF Lapse, Commands, Manifests
  <1>19. CASE UNCHANGED rotVars
    BY <1>19, <1>0 DEF rotVars, Commands, Manifests
  <1> QED
    BY <1>1, <1>2, <1>3, <1>4, <1>5, <1>6, <1>7, <1>8, <1>9, <1>10, <1>11, <1>12, <1>13, <1>14, <1>15, <1>16, <1>17, <1>18, <1>19 DEF AnnounceNext


\* Facts every case below starts from.
LEMMA Facts ==
    ASSUME RotTypes
    PROVE  /\ rot \in Commands /\ manifest \in Manifests /\ seeding \in Seedings
           /\ rot.at \in Torrents /\ Torrents \subseteq Int /\ 1 \in Torrents
           /\ \A t \in Torrents : t >= 1 /\ t <= NumTorrents
           /\ NumTorrents \in Int
           /\ vault.plain \in Stores /\ vault.enc \in Stores
           /\ NoManifest.phase = "none" /\ NoManifest.claimed = FALSE /\ NoManifest \in Manifests
           /\ NoCommand.pc = "off" /\ NoCommand \in Commands
           /\ \A t \in Torrents : backup[t] \in {"none", "old", "new"} /\ canonical[t] \in {"old", "new"}
  BY NothingTyped, AnnounceAssumption
  DEF RotTypes, Commands, Torrents, NoManifest, NoCommand

\* What a step does to aria2's header.
LEMMA SeedingHeader ==
    ASSUME RotTypes, NEW t \in Torrents
    PROVE  /\ AriaRemove(seeding, t).header = seeding.header
           /\ AriaAdd(seeding, t, "new").header = seeding.header
           /\ AriaAdd(seeding, t, backup[t]).header = seeding.header
  <1>1. seeding \in Seedings /\ backup[t] \in {"none", "old", "new"}
    BY Facts
  <1>2. AriaRemove(seeding, t).header = seeding.header
    BY <1>1, RemoveAt
  <1>3. \A b : AriaAdd(seeding, t, b).header = seeding.header
    BY <1>1 DEF AriaAdd, Seedings
  <1> QED
    BY <1>1, <1>2, <1>3

\* The rollback leaves the header alone.
LEMMA UndoHeader ==
    ASSUME RotTypes, UndoApplied
    PROVE  seeding'.header = seeding.header
  <1>1. \A t \in Torrents : /\ AriaRemove(seeding, t).header = seeding.header
                            /\ AriaAdd(seeding, t, backup[t]).header = seeding.header
    BY SeedingHeader
  <1> QED
    BY <1>1, UndoEffect

\* The header follows the store.
LEMMA HeaderStep ==
    ASSUME RotTypes, Position, HeaderIsCurrent, [AnnounceNext]_rotVars
    PROVE  HeaderIsCurrent'
  <1> USE Facts DEF Refused, Position, Applying, Resting, HeaderIsCurrent, Commands, Manifests
  <1>0. \A t \in Torrents : /\ AriaRemove(seeding, t).header = seeding.header
                            /\ AriaAdd(seeding, t, "new").header = seeding.header
                            /\ AriaAdd(seeding, t, backup[t]).header = seeding.header
    BY SeedingHeader
  <1>1. CASE Discover
    BY <1>1, <1>0 DEF Discover, Recoverable
  <1>2. CASE BackUp
    BY <1>2, <1>0 DEF BackUp, BackUpOf, Recoverable
  <1>3. CASE RotateSecret
    <2>1. manifest'.phase \in {"started", "secret_rotated"} /\ rot'.pc \in {"off", "header"}
      BY <1>3 DEF RotateSecret, RotateSecretTo
    <2> QED
      BY <2>1
  <1>4. CASE SetCredential
    BY <1>4, <1>0 DEF SetCredential, Seedings, Recoverable
  <1>5. CASE PrepareReplacement
    BY <1>5, <1>0 DEF PrepareReplacement, Recoverable
  <1>6. CASE RemoveOld
    BY <1>6, <1>0 DEF RemoveOld, RemoveOldAs, Recoverable
  <1>7. CASE AddNew
    BY <1>7, <1>0 DEF AddNew, AddNewUpTo, Recoverable
  <1>8. CASE ReAddOld
    BY <1>8, <1>0 DEF ReAddOld, Recoverable
  <1>9. CASE UndoApplied
    <2>1. seeding'.header = seeding.header
      BY <1>9, UndoHeader
    <2> QED
      BY <1>9, <2>1 DEF UndoApplied
  <1>10. CASE Verdict
    BY <1>10, <1>0 DEF Verdict, Recoverable
  <1>11. CASE SwarmProbe
    BY <1>11, <1>0 DEF SwarmProbe, Recoverable
  <1>12. CASE OpenGate
    BY <1>12, <1>0 DEF OpenGate, Recoverable
  <1>13. CASE RecoverBegin
    BY <1>13, <1>0, ZenonT(60) DEF RecoverBegin, RepairNeeded, Seedings, Recoverable
  <1>14. CASE RestoreRow
    BY <1>14, <1>0 DEF RestoreRow, RepairNeeded, Recoverable
  <1>15. CASE KillCommand
    BY <1>15, <1>0 DEF KillCommand, Recoverable
  <1>16. CASE RelaunchSeeder
    BY <1>16 DEF RelaunchSeeder, RotTypes
  <1>17. CASE ArchiveManifest
    BY <1>17, <1>0 DEF ArchiveManifest, Recoverable
  <1>18. ASSUME NEW c \in Gens, Lapse(c) PROVE HeaderIsCurrent'
    BY <1>18, <1>0 DEF Lapse, Recoverable
  <1>19. CASE UNCHANGED rotVars
    BY <1>19, <1>0 DEF rotVars, Recoverable
  <1> QED
    BY <1>1, <1>2, <1>3, <1>4, <1>5, <1>6, <1>7, <1>8, <1>9, <1>10, <1>11, <1>12, <1>13, <1>14, <1>15, <1>16, <1>17, <1>18, <1>19 DEF AnnounceNext


\* What a step does to the downloads.
LEMMA SeedingRows ==
    ASSUME RotTypes, NEW t \in Torrents, NEW u \in Torrents
    PROVE  /\ AriaRemove(seeding, t).act[u] = IF u = t THEN NoDownload ELSE seeding.act[u]
           /\ AriaHas(AriaRemove(seeding, t), u) <=> u # t /\ AriaHas(seeding, u)
           /\ \A b :
                /\ AriaAdd(seeding, t, b).act[u].bytes = IF u = t THEN b ELSE seeding.act[u].bytes
                /\ AriaAdd(seeding, t, b).act[u].cred = IF u = t THEN seeding.header ELSE seeding.act[u].cred
                /\ AriaHas(AriaAdd(seeding, t, b), u) <=> u = t \/ AriaHas(seeding, u)
  <1>1. seeding \in Seedings
    BY Facts
  <1>2. /\ AriaRemove(seeding, t).act[u] = IF u = t THEN NoDownload ELSE seeding.act[u]
        /\ AriaHas(AriaRemove(seeding, t), u) <=> u # t /\ AriaHas(seeding, u)
    BY <1>1, RemoveAt
  <1>3. ASSUME NEW b
        PROVE  /\ AriaAdd(seeding, t, b).act[u].bytes = IF u = t THEN b ELSE seeding.act[u].bytes
               /\ AriaAdd(seeding, t, b).act[u].cred = IF u = t THEN seeding.header ELSE seeding.act[u].cred
               /\ AriaHas(AriaAdd(seeding, t, b), u) <=> u = t \/ AriaHas(seeding, u)
    <2>1. /\ AriaAdd(seeding, t, b).act[u] = IF u = t THEN [bytes |-> b, cred |-> seeding.header]
                                                      ELSE seeding.act[u]
          /\ AriaHas(AriaAdd(seeding, t, b), u) <=> u = t \/ AriaHas(seeding, u)
      BY <1>1, AddAt
    <2> QED
      BY <2>1
  <1> QED
    BY <1>2, <1>3

\* One row of a recovery.
LEMMA RestoreEffect ==
    ASSUME RotTypes, RestoreRow
    PROVE  /\ canonical' = [canonical EXCEPT ![rot.at] = backup[rot.at]]
           /\ \/ /\ manifest' = [manifest EXCEPT !.phase = "repair_needed", !.frozen = TRUE, !.claimed = FALSE]
                 /\ manifest'.phase = "repair_needed" /\ manifest'.claimed = FALSE
                 /\ rot' = NoCommand
              \/ /\ seeding' = AriaAdd(seeding, rot.at, backup[rot.at])
                 /\ \/ /\ rot.at < NumTorrents /\ manifest' = manifest
                       /\ rot'.pc = "restore" /\ rot'.at = rot.at + 1
                    \/ /\ rot.at = NumTorrents /\ rot' = NoCommand
                       /\ manifest'.phase = "recovered" /\ manifest'.claimed = FALSE
  <1>1. PICK o \in {"ok", "fail", "half", "lost"} :
          /\ seeding' = CASE o = "fail" -> seeding
                         [] o = "half" -> AriaRemove(seeding, rot.at)
                         [] OTHER -> AriaAdd(seeding, rot.at, backup[rot.at])
          /\ CASE o # "ok" -> RepairNeeded /\ Refused
               [] o = "ok" /\ rot.at < NumTorrents -> rot' = [rot EXCEPT !.at = @ + 1] /\ UNCHANGED manifest
               [] OTHER -> /\ manifest' = [manifest EXCEPT !.phase = "recovered", !.frozen = TRUE, !.claimed = FALSE]
                           /\ Refused
    BY DEF RestoreRow
  <1>2. \A p \in {"repair_needed", "recovered"} :
           LET m == [manifest EXCEPT !.phase = p, !.frozen = TRUE, !.claimed = FALSE]
           IN  m.phase = p /\ m.claimed = FALSE
    BY Facts DEF Manifests
  <1>3. rot.at \in Int /\ NumTorrents \in Int /\ rot.at <= NumTorrents
    BY Facts
  <1>4. canonical' = [canonical EXCEPT ![rot.at] = backup[rot.at]]
    BY DEF RestoreRow
  <1>5. CASE o # "ok"
    BY <1>1, <1>2, <1>4, <1>5 DEF RepairNeeded, Refused
  <1>6. CASE o = "ok" /\ rot.at < NumTorrents
    <2>1. rot' = [rot EXCEPT !.at = @ + 1] /\ manifest' = manifest /\ rot.pc = "restore"
      BY <1>1, <1>6 DEF RestoreRow
    <2>2. rot'.pc = "restore" /\ rot'.at = rot.at + 1
      BY <2>1, Facts DEF Commands
    <2> QED
      BY <1>1, <1>4, <1>6, <2>1, <2>2
  <1>7. CASE o = "ok" /\ rot.at = NumTorrents
    <2>1. /\ manifest' = [manifest EXCEPT !.phase = "recovered", !.frozen = TRUE, !.claimed = FALSE]
          /\ rot' = NoCommand /\ seeding' = AriaAdd(seeding, rot.at, backup[rot.at])
      BY <1>1, <1>3, <1>7 DEF Refused
    <2>2. manifest'.phase = "recovered" /\ manifest'.claimed = FALSE
      BY <1>2, <2>1
    <2> QED
      BY <1>4, <1>7, <2>1, <2>2
  <1>8. o # "ok" \/ (o = "ok" /\ rot.at < NumTorrents) \/ (o = "ok" /\ rot.at = NumTorrents)
    BY <1>3
  <1> QED
    BY <1>5, <1>6, <1>7, <1>8

\* Downloads outside of a rotation.
LEMMA DownloadsStep ==
    ASSUME RotTypes, Position, HeaderIsCurrent, CurrentDownloads, [AnnounceNext]_rotVars
    PROVE  CurrentDownloads'
  <1>r. RestoreRow =>
          \/ manifest'.phase = "repair_needed" /\ rot' = NoCommand
          \/ /\ seeding' = AriaAdd(seeding, rot.at, backup[rot.at])
             /\ \/ manifest' = manifest /\ rot'.pc = "restore" /\ rot'.at = rot.at + 1
                \/ rot.at = NumTorrents /\ rot' = NoCommand
    BY RestoreEffect
  <1> USE Facts DEF Position, Applying, Resting, CurrentDownloads, Commands, Manifests
  <1>1. CASE Discover
    BY <1>1 DEF Discover, Refused, AriaHas
  <1>2. CASE BackUp
    <2>1. \/ manifest'.phase = "started" /\ rot'.pc # "restore"
          \/ rot' = NoCommand /\ UNCHANGED <<manifest>>
      BY <1>2 DEF BackUp, BackUpOf, Refused
    <2> QED
      BY <1>2, <2>1 DEF BackUp, BackUpOf, AriaHas
  <1>3. CASE RotateSecret
    <2>1. manifest'.phase \in {"started", "secret_rotated"} /\ rot'.pc # "restore"
      BY <1>3 DEF RotateSecret, RotateSecretTo, Refused
    <2> QED
      BY <2>1
  <1>4. CASE SetCredential
    <2>1. manifest'.phase \in {"secret_rotated", "seeder_credential_updated", "rolling_back"} /\ rot'.pc # "restore"
      BY <1>4 DEF SetCredential, Refused
    <2> QED
      BY <2>1
  <1>5. CASE PrepareReplacement
    <2>1. manifest'.phase \in {"secret_rotated", "seeder_credential_updated", "rolling_back"} /\ rot'.pc # "restore"
      BY <1>5 DEF PrepareReplacement, Refused
    <2> QED
      BY <2>1
  <1>6. CASE RemoveOld
    <2>1. manifest'.phase \in {"secret_rotated", "seeder_credential_updated", "rolling_back"} /\ rot'.pc # "restore"
      BY <1>6, ZenonT(60) DEF RemoveOld, RemoveOldAs, Refused
    <2> QED
      BY <2>1
  <1>7. CASE AddNew
    <2>1. manifest'.phase \in {"secret_rotated", "seeder_credential_updated", "rolling_back"} /\ rot'.pc # "restore"
      BY <1>7, ZenonT(60) DEF AddNew, AddNewUpTo, Refused
    <2> QED
      BY <2>1
  <1>8. CASE ReAddOld
    <2>1. manifest'.phase \in {"secret_rotated", "seeder_credential_updated", "rolling_back"} /\ rot'.pc # "restore"
      BY <1>8 DEF ReAddOld, Refused
    <2> QED
      BY <2>1
  <1>9. CASE UndoApplied
    <2>1. manifest'.phase \in {"secret_rotated", "seeder_credential_updated", "rolling_back"} /\ rot'.pc # "restore"
      BY <1>9, UndoEffect DEF UndoApplied, Refused
    <2> QED
      BY <2>1
  <1>10. CASE Verdict
    <2>1. manifest'.phase \in {"secret_rotated", "seeder_credential_updated", "rolling_back", "rolled_back", "hard_no_go", "double_failure"} /\ rot'.pc # "restore"
      BY <1>10 DEF Verdict, Refused
    <2> QED
      BY <2>1
  <1>11. CASE SwarmProbe
    <2>1. /\ \/ Serving /\ rot'.pc = "gate"
             \/ rot' = NoCommand /\ manifest' = manifest
             \/ rot' = NoCommand /\ manifest'.phase = "swarm_probe_failed"
          /\ UNCHANGED <<vault, seeding>> /\ rot.pc = "probe"
      BY <1>11 DEF SwarmProbe, Refused
    <2> QED
      BY <2>1 DEF Serving, AriaHas
  <1>12. CASE OpenGate
    BY <1>12 DEF OpenGate, Refused, AriaHas
  <1>13. CASE RecoverBegin
    <2>1. manifest'.phase \notin Resting
      BY <1>13 DEF RecoverBegin, RepairNeeded, Recoverable
    <2>2. rot'.pc = "restore" => rot'.at = 1
      BY <1>13 DEF RecoverBegin, NoCommand, Refused
    <2> QED
      BY <2>1, <2>2
  <1>14. CASE RestoreRow
    <2>1. \A u \in Torrents : seeding' = AriaAdd(seeding, rot.at, backup[rot.at]) =>
            /\ AriaHas(seeding', u) <=> u = rot.at \/ AriaHas(seeding, u)
            /\ seeding'.act[u].cred = IF u = rot.at THEN seeding.header ELSE seeding.act[u].cred
      BY SeedingRows
    <2>2. seeding.header = vault.plain.cur
      BY <1>14 DEF RestoreRow, HeaderIsCurrent
    <2>3. rot.pc = "restore" /\ vault' = vault /\ manifest.phase \notin Resting
      BY <1>14 DEF RestoreRow, Recoverable
    <2> QED
      BY <1>14, <1>r, <2>1, <2>2, <2>3
  <1>15. CASE KillCommand
    BY <1>15 DEF KillCommand, Refused, AriaHas
  <1>16. CASE RelaunchSeeder
    <2>1. vault'.plain = vault.enc /\ rot'.pc = "off"
          /\ \A t \in Torrents : seeding'.act[t].cred = vault.enc.cur
      BY <1>16 DEF RelaunchSeeder, Reseeded, RotTypes
    <2> QED
      BY <2>1
  <1>17. CASE ArchiveManifest
    BY <1>17 DEF ArchiveManifest, Refused, AriaHas
  <1>18. ASSUME NEW c \in Gens, Lapse(c) PROVE CurrentDownloads'
    BY <1>18 DEF Lapse, AriaHas
  <1>19. CASE UNCHANGED rotVars
    BY <1>19 DEF rotVars, AriaHas
  <1> QED
    BY <1>1, <1>2, <1>3, <1>4, <1>5, <1>6, <1>7, <1>8, <1>9, <1>10, <1>11, <1>12, <1>13, <1>14, <1>15, <1>16, <1>17, <1>18, <1>19 DEF AnnounceNext


\* The removal of a torrent.
LEMMA RemoveEffect ==
    ASSUME RotTypes, RemoveOld
    PROVE  /\ rot.pc = "remove" /\ rot'.at = rot.at /\ UNCHANGED <<vault, lapsed, backup>>
           /\ \/ /\ rot'.pc = "add" /\ seeding' = AriaRemove(seeding, rot.at)
                 /\ UNCHANGED <<canonical, manifest>>
              \/ /\ rot'.pc = "undo" /\ rot'.affected = [rot.affected EXCEPT ![rot.at] = "bad"]
                 /\ seeding' \in {seeding, AriaRemove(seeding, rot.at)}
                 /\ canonical' = [canonical EXCEPT ![rot.at] = backup[rot.at]]
                 /\ manifest' = [manifest EXCEPT !.phase = "rolling_back"]
  BY Facts DEF RemoveOld, RemoveOldAs, Commands

\* The addition of the new bytes.
LEMMA AddEffect ==
    ASSUME RotTypes, AddNew
    PROVE  /\ rot.pc = "add" /\ UNCHANGED <<vault, lapsed, backup>>
           /\ \/ /\ \/ rot.at = NumTorrents /\ rot'.pc = "probe" /\ rot'.at = rot.at
                    \/ rot.at < NumTorrents /\ rot'.pc = "prepare" /\ rot'.at = rot.at + 1
                 /\ seeding' = AriaAdd(seeding, rot.at, "new")
                 /\ UNCHANGED <<canonical, manifest>>
              \/ /\ rot'.pc = "readd" /\ rot'.at = rot.at
                 /\ seeding' \in {seeding, AriaAdd(seeding, rot.at, "new")}
                 /\ canonical' = [canonical EXCEPT ![rot.at] = backup[rot.at]]
                 /\ manifest' = [manifest EXCEPT !.phase = "rolling_back"]
  <1>1. PICK o \in {"ok", "fail", "lost"} :
          /\ seeding' = IF o = "fail" THEN seeding ELSE AriaAdd(seeding, rot.at, "new")
          /\ IF o = "ok"
               THEN /\ rot' = IF rot.at = NumTorrents THEN [rot EXCEPT !.pc = "probe"]
                              ELSE [rot EXCEPT !.pc = "prepare", !.at = @ + 1]
                    /\ UNCHANGED <<canonical, manifest>>
               ELSE /\ canonical' = [canonical EXCEPT ![rot.at] = backup[rot.at]]
                    /\ manifest' = [manifest EXCEPT !.phase = "rolling_back"]
                    /\ rot' = [rot EXCEPT !.pc = "readd"]
    BY DEF AddNew, AddNewUpTo
  <1>2. rot.pc = "add" /\ UNCHANGED <<vault, lapsed, backup>>
    BY DEF AddNew, AddNewUpTo
  <1>3. rot \in Commands /\ (rot.at = NumTorrents \/ rot.at < NumTorrents)
    BY Facts
  <1>4. CASE o = "ok" /\ rot.at = NumTorrents
    BY <1>1, <1>2, <1>3, <1>4 DEF Commands
  <1>5. CASE o = "ok" /\ rot.at # NumTorrents
    BY <1>1, <1>2, <1>3, <1>5 DEF Commands
  <1>6. CASE o # "ok"
    BY <1>1, <1>2, <1>3, <1>6 DEF Commands
  <1> QED
    BY <1>4, <1>5, <1>6

\* The addition of the old bytes after a failed one.
LEMMA ReAddEffect ==
    ASSUME RotTypes, ReAddOld
    PROVE  /\ rot.pc = "readd" /\ rot'.pc = "undo" /\ rot'.at = rot.at
           /\ UNCHANGED <<vault, lapsed, backup, canonical, manifest>>
           /\ \E v \in {"ok", "bad"} :
                /\ rot'.affected = [rot.affected EXCEPT ![rot.at] = v]
                /\ \/ seeding' = AriaAdd(seeding, rot.at, backup[rot.at])
                   \/ v = "bad" /\ seeding' = seeding
  <1>1. PICK o \in {"refused", "ok", "fail", "lost"} :
          /\ seeding' = IF o \in {"ok", "lost"} THEN AriaAdd(seeding, rot.at, backup[rot.at]) ELSE seeding
          /\ rot' = [rot EXCEPT !.pc = "undo", !.clean = (o = "ok"),
                                !.class = IF o = "ok" THEN "new_add_failed" ELSE "double_failure",
                                !.affected[rot.at] = IF o = "ok" THEN "ok" ELSE "bad"]
    BY DEF ReAddOld
  <1>2. /\ rot'.pc = "undo" /\ rot'.at = rot.at
        /\ rot'.affected = [rot.affected EXCEPT ![rot.at] = IF o = "ok" THEN "ok" ELSE "bad"]
    BY <1>1, Facts DEF Commands
  <1>3. rot.pc = "readd" /\ UNCHANGED <<vault, lapsed, backup, canonical, manifest>>
    BY DEF ReAddOld
  <1> QED
    BY <1>1, <1>2, <1>3

\* One step of the rollback, field by field.
LEMMA UndoFields ==
    ASSUME RotTypes, UndoApplied
    PROVE  /\ rot.pc = "undo" /\ UNCHANGED <<vault, lapsed, backup, manifest>>
           /\ \/ /\ rot.at = 1 /\ rot'.pc = "verdict" /\ rot'.at = rot.at /\ rot'.affected = rot.affected
                 /\ UNCHANGED <<canonical, seeding>>
              \/ \E t \in Torrents, v \in {"ok", "bad"} :
                   /\ t = rot.at - 1 /\ rot'.pc = "undo" /\ rot'.at = t
                   /\ rot'.affected = [rot.affected EXCEPT ![t] = v]
                   /\ canonical' = [canonical EXCEPT ![t] = backup[t]]
                   /\ \/ seeding' = AriaAdd(seeding, t, backup[t])
                      \/ v = "bad" /\ seeding' \in {seeding, AriaRemove(seeding, t)}
  <1>1. rot.pc = "undo" /\ UNCHANGED <<vault, lapsed, backup, manifest>>
    BY DEF UndoApplied
  <1>2. CASE rot.at = 1 /\ rot' = [rot EXCEPT !.pc = "verdict"] /\ UNCHANGED <<canonical, seeding>>
    BY <1>1, <1>2, Facts DEF Commands
  <1>3. ASSUME NEW t \in Torrents, NEW v \in {"ok", "bad"},
               rot.at # 1, t = rot.at - 1,
               canonical' = [canonical EXCEPT ![t] = backup[t]],
               rot' = [rot EXCEPT !.at = t, !.affected[t] = v],
               \/ seeding' = AriaAdd(seeding, t, backup[t])
               \/ v = "bad" /\ seeding' \in {seeding, AriaRemove(seeding, t)}
        PROVE  rot'.pc = "undo" /\ rot'.at = t /\ rot'.affected = [rot.affected EXCEPT ![t] = v]
    BY <1>1, <1>3, Facts DEF Commands
  <1> QED
    BY <1>1, <1>2, <1>3, UndoEffect

\* What the seeder holds.
LEMMA HeldStep ==
    ASSUME RotTypes, Position, Held, [AnnounceNext]_rotVars
    PROVE  Held'
  <1>0. /\ rot \in Commands /\ manifest \in Manifests /\ rot.at \in Torrents /\ Torrents \subseteq Int
        /\ rot.affected \in Reports /\ manifest.affected \in Reports
        /\ NoCommand.pc = "off" /\ NoManifest.phase = "none"
    BY Facts DEF Commands, Manifests
  <1>s. \A t, u \in Torrents :
           /\ AriaHas(AriaRemove(seeding, t), u) <=> u # t /\ AriaHas(seeding, u)
           /\ \A b : AriaHas(AriaAdd(seeding, t, b), u) <=> u = t \/ AriaHas(seeding, u)
    BY SeedingRows
  <1>1. CASE Discover
    <2>1. rot'.pc = "backup"
      BY <1>1, NothingTyped DEF Discover, Commands
    <2> QED
      BY <1>1, <1>0, <2>1 DEF Discover, Held, AriaHas
  <1>2. CASE BackUp
    <2>1. /\ rot'.pc \in {"off", "secret"} /\ rot.pc = "backup" /\ seeding' = seeding
          /\ manifest' = manifest \/ manifest'.phase = "started"
      BY <1>2, <1>0, NothingTyped DEF BackUp, BackUpOf, Refused, Commands, Manifests
    <2> QED
      BY <2>1 DEF Held, AriaHas
  <1>3. CASE RotateSecret
    <2>1. /\ rot'.pc \in {"off", "header"} /\ rot.pc = "secret" /\ seeding' = seeding
          /\ manifest' = manifest \/ manifest'.phase = "secret_rotated"
      BY <1>3, <1>0 DEF RotateSecret, RotateSecretTo, Refused, Commands, Manifests
    <2> QED
      BY <2>1 DEF Held, AriaHas
  <1>4. CASE SetCredential
    <2>1. /\ rot'.pc \in {"off", "prepare"} /\ rot.pc = "header"
          /\ manifest' = manifest \/ manifest'.phase = "seeder_credential_updated"
      BY <1>4, <1>0 DEF SetCredential, Refused, Commands, Manifests
    <2>2. seeding'.act = seeding.act
      BY <1>4, Facts DEF SetCredential, Seedings
    <2> QED
      BY <2>1, <2>2 DEF Held, AriaHas
  <1>5. CASE PrepareReplacement
    <2>1. /\ rot'.pc \in {"off", "remove", "undo"} /\ rot.pc = "prepare"
          /\ UNCHANGED <<manifest, seeding>>
      BY <1>5, <1>0 DEF PrepareReplacement, Refused, Commands
    <2> QED
      BY <2>1 DEF Held, AriaHas
  <1>6. CASE RemoveOld
    <2>1. \A t \in Torrents : t # rot.at => (AriaHas(seeding', t) <=> AriaHas(seeding, t))
      BY <1>6, <1>0, <1>s, RemoveEffect
    <2>2. rot'.pc = "undo" => /\ rot'.affected[rot.at] = "bad"
                              /\ manifest'.phase = "rolling_back"
      BY <1>6, <1>0, RemoveEffect DEF Reports, Manifests
    <2> QED
      BY <1>6, <1>0, <2>1, <2>2, RemoveEffect DEF Held, Position, Applying
  <1>7. CASE AddNew
    <2>1. \A t \in Torrents : t # rot.at => (AriaHas(seeding', t) <=> AriaHas(seeding, t))
      BY <1>7, <1>0, <1>s, AddEffect
    <2>2. rot'.pc # "readd" => AriaHas(seeding', rot.at)
      BY <1>7, <1>0, <1>s, AddEffect
    <2>3. manifest'.phase \notin {"rolled_back", "hard_no_go", "double_failure"}
      BY <1>7, <1>0, AddEffect DEF Manifests, Position, Applying
    <2> QED
      BY <1>7, <1>0, <2>1, <2>2, <2>3, AddEffect DEF Held
  <1>8. CASE ReAddOld
    <2>0. PICK v \in {"ok", "bad"} :
                /\ rot'.affected = [rot.affected EXCEPT ![rot.at] = v]
                /\ \/ seeding' = AriaAdd(seeding, rot.at, backup[rot.at])
                   \/ v = "bad" /\ seeding' = seeding
      BY <1>8, ReAddEffect
    <2>a. rot.pc = "readd"
      BY <1>8, ReAddEffect
    <2>b. \A u \in Torrents : AriaHas(AriaAdd(seeding, rot.at, backup[rot.at]), u)
                               <=> u = rot.at \/ AriaHas(seeding, u)
      BY <1>0, <1>s
    <2>c. \A u \in Torrents : u # rot.at => AriaHas(seeding, u)
      BY <2>a DEF Held
    <2>1. \A t \in Torrents : t # rot.at => AriaHas(seeding', t)
      BY <2>0, <2>b, <2>c
    <2>2. AriaHas(seeding', rot.at) \/ rot'.affected[rot.at] = "bad"
      BY <1>0, <2>0, <2>b DEF Reports
    <2>3. manifest'.phase \notin {"rolled_back", "hard_no_go", "double_failure"}
      BY <1>8, <1>0, ReAddEffect DEF Position, Applying
    <2> QED
      BY <1>8, <1>0, <2>1, <2>2, <2>3, ReAddEffect DEF Held
  <1>9. CASE UndoApplied
    <2>1. manifest'.phase \notin {"rolled_back", "hard_no_go", "double_failure"}
      BY <1>9, <1>0, UndoFields DEF Position, Applying
    <2>2. CASE rot'.pc = "verdict" /\ UNCHANGED seeding /\ rot'.affected = rot.affected /\ rot.at = 1
      BY <1>9, <1>0, <2>1, <2>2, UndoFields DEF Held, AriaHas
    <2>3. ASSUME NEW t \in Torrents, NEW v \in {"ok", "bad"},
                 t = rot.at - 1, rot'.pc = "undo", rot'.at = t,
                 rot'.affected = [rot.affected EXCEPT ![t] = v],
                 \/ seeding' = AriaAdd(seeding, t, backup[t])
                 \/ v = "bad" /\ seeding' \in {seeding, AriaRemove(seeding, t)}
          PROVE  Held'
      <3>1. \A u \in Torrents : u # t => /\ AriaHas(seeding', u) <=> AriaHas(seeding, u)
                                         /\ rot'.affected[u] = rot.affected[u]
        BY <1>0, <1>s, <2>3 DEF Reports
      <3>2. AriaHas(seeding', t) \/ rot'.affected[t] = "bad"
        BY <1>0, <1>s, <2>3 DEF Reports
      <3>3. rot.pc = "undo"
        BY <1>9, UndoFields
      <3>4. ASSUME NEW u \in Torrents
            PROVE  AriaHas(seeding', u) \/ (rot'.affected[u] = "bad" /\ u >= rot'.at)
        <4>1. CASE u = t
          BY <1>0, <2>3, <3>2, <4>1
        <4>2. CASE u # t
          <5>1. AriaHas(seeding, u) \/ (rot.affected[u] = "bad" /\ u >= rot.at)
            BY <3>3 DEF Held
          <5> QED
            <6>1. u \in Int /\ rot.at \in Int
              BY <1>0
            <6>2. AriaHas(seeding', u) \/ (rot'.affected[u] = "bad" /\ u >= rot.at)
              BY <3>1, <4>2, <5>1
            <6> QED
              BY <2>3, <6>1, <6>2
        <4> QED
          BY <4>1, <4>2
      <3> QED
        BY <2>1, <2>3, <3>4 DEF Held
    <2> QED
      BY <1>9, <2>2, <2>3, UndoFields
  <1>10. CASE Verdict
    <2>1. PICK o \in {"ok", "fail"}, p \in Phases, f \in BOOLEAN :
             manifest' = IF o = "fail" THEN manifest
                         ELSE [manifest EXCEPT !.phase = p, !.frozen = f, !.claimed = FALSE,
                                               !.affected = rot.affected]
      BY <1>10 DEF Verdict, Phases
    <2>2. manifest' = manifest \/ manifest'.affected = rot.affected
      BY <1>0, <2>1 DEF Manifests
    <2>3. rot.pc = "verdict" /\ seeding' = seeding /\ rot'.pc = "off"
      BY <1>10, <1>0 DEF Verdict, Refused
    <2> QED
      BY <2>2, <2>3 DEF Held, AriaHas
  <1>11. CASE SwarmProbe
    <2>1. rot'.pc \in {"off", "gate"} /\ seeding' = seeding /\ rot.pc = "probe"
      BY <1>11, <1>0 DEF SwarmProbe, Refused, Commands
    <2> QED
      BY <2>1 DEF Held, AriaHas
  <1>12. CASE OpenGate
    BY <1>12, <1>0 DEF OpenGate, Refused, Held, AriaHas
  <1>13. CASE RecoverBegin
    <2>1. /\ rot'.pc \in {"off", "restore"}
          /\ manifest' = manifest \/ manifest'.phase = "repair_needed"
      BY <1>13, <1>0, NothingTyped DEF RecoverBegin, RepairNeeded, Refused, Commands, Manifests
    <2>2. seeding'.act = seeding.act
      BY <1>13, Facts DEF RecoverBegin, Seedings
    <2> QED
      BY <2>1, <2>2 DEF Held, AriaHas
  <1>14. CASE RestoreRow
    <2>1. CASE manifest'.phase = "repair_needed" /\ rot' = NoCommand
      BY <1>0, <2>1 DEF Held
    <2>2. CASE /\ seeding' = AriaAdd(seeding, rot.at, backup[rot.at])
               /\ manifest' = manifest /\ rot'.pc = "restore"
      BY <1>0, <1>s, <2>2 DEF Held
    <2>3. CASE rot' = NoCommand /\ manifest'.phase = "recovered"
      BY <1>0, <2>3 DEF Held
    <2>4. \/ manifest'.phase = "repair_needed" /\ rot' = NoCommand
          \/ /\ seeding' = AriaAdd(seeding, rot.at, backup[rot.at])
             /\ \/ manifest' = manifest /\ rot'.pc = "restore"
                \/ rot' = NoCommand /\ manifest'.phase = "recovered"
      BY <1>14, RestoreEffect
    <2> QED
      BY <2>1, <2>2, <2>3, <2>4
  <1>15. CASE KillCommand
    BY <1>15, <1>0 DEF KillCommand, Held, AriaHas
  <1>16. CASE RelaunchSeeder
    <2>1. rot' = NoCommand /\ \A t \in Torrents : AriaHas(seeding', t)
      BY <1>16 DEF RelaunchSeeder, Reseeded, AriaHas, NoDownload, RotTypes
    <2> QED
      BY <1>0, <2>1 DEF Held
  <1>17. CASE ArchiveManifest
    BY <1>17, <1>0 DEF ArchiveManifest, Held, AriaHas
  <1>18. ASSUME NEW c \in Gens, Lapse(c) PROVE Held'
    BY <1>18 DEF Lapse, Held, AriaHas
  <1>19. CASE UNCHANGED rotVars
    BY <1>19 DEF rotVars, Held, AriaHas
  <1> QED
    BY <1>1, <1>2, <1>3, <1>4, <1>5, <1>6, <1>7, <1>8, <1>9, <1>10, <1>11, <1>12, <1>13, <1>14, <1>15, <1>16, <1>17, <1>18, <1>19 DEF AnnounceNext


\* The addition of bytes b to torrent t, seen from u.
LEMMA SeedingAdded ==
    ASSUME RotTypes, NEW t \in Torrents, NEW u \in Torrents, NEW b
    PROVE  /\ AriaAdd(seeding, t, b).act[u].bytes = IF u = t THEN b ELSE seeding.act[u].bytes
           /\ AriaAdd(seeding, t, b).act[u].cred = IF u = t THEN seeding.header ELSE seeding.act[u].cred
           /\ AriaHas(AriaAdd(seeding, t, b), u) <=> u = t \/ AriaHas(seeding, u)
  BY SeedingRows

\* The torrents that were moved.
LEMMA AppliedStep ==
    ASSUME RotTypes, Position, Applied, [AnnounceNext]_rotVars
    PROVE  Applied'
  <1>0. /\ rot \in Commands /\ rot.at \in Torrents /\ Torrents \subseteq Int /\ NoCommand.pc = "off"
        /\ \A u \in Torrents : u \in Int /\ u >= 1 /\ u <= NumTorrents
        /\ canonical \in [Torrents -> {"old", "new"}] /\ NumTorrents \in Int
    BY Facts DEF RotTypes
  <1>1. CASE Discover
    <2>1. rot'.pc \notin {"prepare", "remove", "add", "probe"}
      BY <1>1, <1>0, NothingTyped DEF Discover, Commands
    <2> QED
      BY <2>1 DEF Applied
  <1>2. CASE BackUp
    <2>1. rot'.pc \notin {"prepare", "remove", "add", "probe"}
      BY <1>2, <1>0 DEF BackUp, BackUpOf, Refused, Commands
    <2> QED
      BY <2>1 DEF Applied
  <1>3. CASE RotateSecret
    <2>1. rot'.pc \notin {"prepare", "remove", "add", "probe"}
      BY <1>3, <1>0 DEF RotateSecret, RotateSecretTo, Refused, Commands
    <2> QED
      BY <2>1 DEF Applied
  <1>4. CASE SetCredential
    <2>1. rot'.pc = "off" \/ (rot'.pc = "prepare" /\ rot'.at = 1)
      BY <1>4, <1>0 DEF SetCredential, Refused, Commands, Position
    <2> QED
      BY <1>0, <2>1 DEF Applied
  <1>5. CASE PrepareReplacement
    <2>1. \/ rot'.pc \in {"off", "undo"}
          \/ /\ rot'.pc = "remove" /\ rot'.at = rot.at
             /\ canonical' = [canonical EXCEPT ![rot.at] = "new"]
      BY <1>5, <1>0 DEF PrepareReplacement, Refused, Commands
    <2>2. rot.pc = "prepare" /\ seeding' = seeding
      BY <1>5 DEF PrepareReplacement
    <2> QED
      BY <1>0, <2>1, <2>2 DEF Applied
  <1>6. CASE RemoveOld
    <2>1. CASE rot'.pc = "undo"
      BY <2>1 DEF Applied
    <2>2. CASE rot'.pc = "add" /\ seeding' = AriaRemove(seeding, rot.at) /\ UNCHANGED canonical
      <3>1. \A u \in Torrents : u # rot.at => seeding'.act[u] = seeding.act[u]
        BY <1>0, <2>2, SeedingRows
      <3>2. rot'.at = rot.at /\ rot.pc = "remove"
        BY <1>6, RemoveEffect
      <3> QED
        BY <1>0, <2>2, <3>1, <3>2 DEF Applied
    <2> QED
      BY <1>6, <2>1, <2>2, RemoveEffect
  <1>7. CASE AddNew
    <2>1. CASE rot'.pc = "readd"
      BY <2>1 DEF Applied
    <2>2. CASE /\ seeding' = AriaAdd(seeding, rot.at, "new") /\ UNCHANGED canonical
               /\ \/ rot.at = NumTorrents /\ rot'.pc = "probe" /\ rot'.at = rot.at
                  \/ rot.at < NumTorrents /\ rot'.pc = "prepare" /\ rot'.at = rot.at + 1
      <3>1. \A u \in Torrents : seeding'.act[u].bytes = IF u = rot.at THEN "new" ELSE seeding.act[u].bytes
        <4> TAKE u \in Torrents
        <4>1. AriaAdd(seeding, rot.at, "new").act[u].bytes = IF u = rot.at THEN "new" ELSE seeding.act[u].bytes
          <5>1. rot.at \in Torrents /\ RotTypes
            BY <1>0
          <5> QED
            BY ONLY <5>1, u \in Torrents, SeedingAdded
        <4> QED
          BY <2>2, <4>1
      <3>2. rot.pc = "add"
        BY <1>7, AddEffect
      <3>3. \A u \in Torrents : u <= rot.at => seeding'.act[u].bytes = "new" /\ canonical'[u] = "new"
        <4>1. \A u \in Torrents : /\ u < rot.at => seeding.act[u].bytes = "new" /\ canonical[u] = "new"
                                  /\ u = rot.at => canonical[u] = "new"
          BY <3>2 DEF Applied
        <4> TAKE u \in Torrents
        <4>2. u \in Int /\ rot.at \in Int /\ canonical' = canonical
          BY <1>0, <2>2
        <4>3. CASE u = rot.at
          BY <3>1, <4>1, <4>2, <4>3
        <4>4. CASE u < rot.at
          BY <3>1, <4>1, <4>2, <4>4
        <4> QED
          BY <4>2, <4>3, <4>4
      <3> QED
        <4> SUFFICES ASSUME NEW u \in Torrents,
                            rot'.pc = "probe" \/ (rot'.pc = "prepare" /\ u < rot'.at)
                     PROVE  seeding'.act[u].bytes = "new" /\ canonical'[u] = "new"
          BY <2>2 DEF Applied
        <4>1. u \in Int /\ rot.at \in Int /\ u <= NumTorrents
          BY <1>0
        <4>2. u <= rot.at
          BY <2>2, <4>1
        <4> QED
          BY <3>3, <4>2
    <2> QED
      BY <1>7, <2>1, <2>2, AddEffect
  <1>8. CASE ReAddOld
    BY <1>8, ReAddEffect DEF Applied
  <1>9. CASE UndoApplied
    BY <1>9, UndoFields DEF Applied
  <1>10. CASE Verdict
    <2>1. rot'.pc \notin {"prepare", "remove", "add", "probe"}
      BY <1>10, <1>0 DEF Verdict, Refused, Commands
    <2> QED
      BY <2>1 DEF Applied
  <1>11. CASE SwarmProbe
    <2>1. rot'.pc \notin {"prepare", "remove", "add", "probe"}
      BY <1>11, <1>0 DEF SwarmProbe, Refused, Commands
    <2> QED
      BY <2>1 DEF Applied
  <1>12. CASE OpenGate
    <2>1. rot'.pc \notin {"prepare", "remove", "add", "probe"}
      BY <1>12, <1>0 DEF OpenGate, Refused, Commands
    <2> QED
      BY <2>1 DEF Applied
  <1>13. CASE RecoverBegin
    <2>1. rot'.pc \notin {"prepare", "remove", "add", "probe"}
      BY <1>13, <1>0, NothingTyped DEF RecoverBegin, RepairNeeded, Refused, Commands
    <2> QED
      BY <2>1 DEF Applied
  <1>14. CASE RestoreRow
    <2>1. rot' = NoCommand \/ rot'.pc = "restore"
      BY <1>14, RestoreEffect
    <2> QED
      BY <1>0, <2>1 DEF Applied
  <1>15. CASE KillCommand
    <2>1. rot'.pc \notin {"prepare", "remove", "add", "probe"}
      BY <1>15, <1>0 DEF KillCommand, Commands
    <2> QED
      BY <2>1 DEF Applied
  <1>16. CASE RelaunchSeeder
    <2>1. rot'.pc \notin {"prepare", "remove", "add", "probe"}
      BY <1>16, <1>0 DEF RelaunchSeeder, Commands
    <2> QED
      BY <2>1 DEF Applied
  <1>17. CASE ArchiveManifest
    BY <1>17, <1>0 DEF ArchiveManifest, Applied
  <1>18. ASSUME NEW c \in Gens, Lapse(c) PROVE Applied'
    BY <1>18 DEF Lapse, Applied
  <1>19. CASE UNCHANGED rotVars
    BY <1>19 DEF rotVars, Applied
  <1> QED
    BY <1>1, <1>2, <1>3, <1>4, <1>5, <1>6, <1>7, <1>8, <1>9, <1>10, <1>11, <1>12, <1>13, <1>14, <1>15, <1>16, <1>17, <1>18, <1>19 DEF AnnounceNext

\* The backups.
LEMMA OldBytesStep ==
    ASSUME RotTypes, Position, Position', OldBytesKept, [AnnounceNext]_rotVars
    PROVE  OldBytesKept'
  <1>0. /\ rot.at \in Torrents /\ manifest \in Manifests /\ NoManifest.phase = "none"
        /\ canonical \in [Torrents -> {"old", "new"}]
    BY Facts DEF RotTypes
  <1>a. ASSUME manifest.phase \notin Resting, UNCHANGED backup,
               UNCHANGED canonical
               \/ \E t \in Torrents : canonical' \in {[canonical EXCEPT ![t] = backup[t]],
                                                      [canonical EXCEPT ![t] = "new"]}
        PROVE  OldBytesKept'
    BY <1>0, <1>a DEF OldBytesKept, Recoverable, Resting
  <1>b. ASSUME manifest'.phase \in Resting PROVE OldBytesKept'
    BY <1>b, <1>0 DEF OldBytesKept, Recoverable, Resting, Position
  <1>m. rot.pc \in Applying \cup {"header", "secret"} => manifest.phase \notin Resting
    BY DEF Position, Applying, Resting
  <1>1. CASE Discover
    BY <1>1 DEF Discover, OldBytesKept, Recoverable
  <1>2. CASE BackUp
    <2>1. CASE UNCHANGED <<manifest, backup, canonical>>
      BY <2>1 DEF OldBytesKept, Recoverable
    <2>2. CASE /\ backup' = [t \in Torrents |-> IF t \in Torrents THEN canonical[t] ELSE backup[t]]
               /\ canonical' = canonical
      BY <1>0, <2>2 DEF OldBytesKept
    <2> QED
      BY <1>2, <2>1, <2>2 DEF BackUp, BackUpOf
  <1>3. CASE RotateSecret
    BY <1>3, <1>a, <1>m DEF RotateSecret, RotateSecretTo, Applying
  <1>4. CASE SetCredential
    BY <1>4, <1>a, <1>m DEF SetCredential, Applying
  <1>5. CASE PrepareReplacement
    BY <1>5, <1>0, <1>a, <1>m DEF PrepareReplacement, Applying
  <1>6. CASE RemoveOld
    BY <1>6, <1>0, <1>a, <1>m, RemoveEffect DEF Applying
  <1>7. CASE AddNew
    BY <1>7, <1>0, <1>a, <1>m, AddEffect DEF Applying
  <1>8. CASE ReAddOld
    BY <1>8, <1>a, <1>m, ReAddEffect DEF Applying
  <1>9. CASE UndoApplied
    BY <1>9, <1>a, <1>m, UndoFields DEF Applying
  <1>10. CASE Verdict
    BY <1>10, <1>a, <1>m DEF Verdict, Applying
  <1>11. CASE SwarmProbe
    BY <1>11, <1>a, <1>m DEF SwarmProbe, Applying
  <1>12. CASE OpenGate
    BY <1>12 DEF OpenGate, OldBytesKept, Recoverable
  <1>13. CASE RecoverBegin
    <2>1. manifest.phase \notin Resting
      BY <1>13 DEF RecoverBegin, Recoverable, Resting, Position
    <2> QED
      BY <1>13, <1>a, <2>1 DEF RecoverBegin
  <1>14. CASE RestoreRow
    <2>1. manifest.phase \notin Resting /\ UNCHANGED backup
      BY <1>14 DEF RestoreRow, Position, Recoverable, Resting
    <2> QED
      BY <1>14, <1>0, <1>a, <2>1, RestoreEffect
  <1>15. CASE KillCommand
    BY <1>15 DEF KillCommand, OldBytesKept, Recoverable
  <1>16. CASE RelaunchSeeder
    BY <1>16 DEF RelaunchSeeder, OldBytesKept, Recoverable
  <1>17. CASE ArchiveManifest
    BY <1>17, <1>0, <1>b DEF ArchiveManifest, Resting
  <1>18. ASSUME NEW c \in Gens, Lapse(c) PROVE OldBytesKept'
    BY <1>18 DEF Lapse, OldBytesKept, Recoverable
  <1>19. CASE UNCHANGED rotVars
    BY <1>19 DEF rotVars, OldBytesKept, Recoverable
  <1> QED
    BY <1>1, <1>2, <1>3, <1>4, <1>5, <1>6, <1>7, <1>8, <1>9, <1>10, <1>11, <1>12, <1>13, <1>14, <1>15, <1>16, <1>17, <1>18, <1>19 DEF AnnounceNext

\* The claim that everything is served.
LEMMA ClaimStep ==
    ASSUME RotTypes, Position, Position', HeaderIsCurrent, Applied, ClaimIsServed, [AnnounceNext]_rotVars
    PROVE  ClaimIsServed'
  <1>0. /\ rot \in Commands /\ manifest \in Manifests /\ NoManifest.claimed = FALSE /\ NoManifest \in Manifests
    BY Facts
  <1>n. ASSUME manifest'.phase # "complete" PROVE ClaimIsServed'
    BY <1>n DEF Position, ClaimIsServed
  <1>u. ASSUME UNCHANGED <<manifest, vault, seeding, canonical>> PROVE ClaimIsServed'
    BY <1>u DEF ClaimIsServed, Serving, AriaHas
  <1>p. rot.pc \in Applying \cup {"header", "secret", "restore"} => manifest.phase # "complete"
    BY DEF Position, Applying, Recoverable
  <1>1. CASE Discover
    BY <1>1, <1>u DEF Discover
  <1>2. CASE BackUp
    <2>1. manifest'.phase # "complete"
      BY <1>2, <1>0, NothingTyped DEF BackUp, BackUpOf, Position, NoManifest
    <2> QED
      BY <1>n, <2>1
  <1>3. CASE RotateSecret
    <2>1. manifest'.phase # "complete"
      BY <1>3, <1>0, <1>p DEF RotateSecret, RotateSecretTo, Applying, Manifests
    <2> QED
      BY <1>n, <2>1
  <1>4. CASE SetCredential
    <2>1. manifest'.phase # "complete"
      BY <1>4, <1>0, <1>p DEF SetCredential, Applying, Manifests
    <2> QED
      BY <1>n, <2>1
  <1>5. CASE PrepareReplacement
    <2>1. manifest'.phase # "complete"
      BY <1>5, <1>0, <1>p DEF PrepareReplacement, Applying, Manifests
    <2> QED
      BY <1>n, <2>1
  <1>6. CASE RemoveOld
    <2>1. manifest'.phase # "complete"
      BY <1>6, <1>0, <1>p DEF RemoveOld, RemoveOldAs, Applying, Manifests
    <2> QED
      BY <1>n, <2>1
  <1>7. CASE AddNew
    <2>1. manifest'.phase # "complete"
      BY <1>7, <1>0, <1>p DEF AddNew, AddNewUpTo, Applying, Manifests
    <2> QED
      BY <1>n, <2>1
  <1>8. CASE ReAddOld
    <2>1. manifest'.phase # "complete"
      BY <1>8, <1>0, <1>p DEF ReAddOld, Applying, Manifests
    <2> QED
      BY <1>n, <2>1
  <1>9. CASE UndoApplied
    <2>1. manifest'.phase # "complete"
      BY <1>9, <1>0, <1>p DEF UndoApplied, Applying, Manifests
    <2> QED
      BY <1>n, <2>1
  <1>10. CASE Verdict
    <2>1. manifest'.phase # "complete"
      BY <1>10, <1>0, <1>p DEF Verdict, Applying, Manifests
    <2> QED
      BY <1>n, <2>1
  <1>11. CASE SwarmProbe
    <2>1. /\ rot.pc = "probe" /\ UNCHANGED <<vault, seeding, canonical>>
          /\ Serving \/ manifest' = manifest \/ manifest'.phase = "swarm_probe_failed"
      BY <1>11, <1>0 DEF SwarmProbe, Manifests
    <2>2. CASE Serving
      <3>1. /\ vault.enc = vault.plain /\ seeding.header = vault.plain.cur
            /\ \A t \in Torrents : seeding.act[t].bytes = canonical[t]
        BY <2>1 DEF Position, HeaderIsCurrent, Applied, Applying
      <3> QED
        BY <2>1, <2>2, <3>1 DEF ClaimIsServed, Serving, AriaHas
    <2>3. CASE manifest' = manifest
      BY <2>1, <2>3, <1>u
    <2>4. CASE manifest'.phase = "swarm_probe_failed"
      BY <2>4, <1>n
    <2> QED
      BY <2>1, <2>2, <2>3, <2>4
  <1>12. CASE OpenGate
    BY <1>12, <1>u DEF OpenGate
  <1>13. CASE RecoverBegin
    <2>1. manifest'.phase # "complete"
      BY <1>13, <1>0, <1>p DEF RecoverBegin, RepairNeeded, Recoverable, Applying, Manifests
    <2> QED
      BY <1>n, <2>1
  <1>14. CASE RestoreRow
    <2>1. manifest'.phase # "complete"
      BY <1>14, <1>0, <1>p DEF RestoreRow, RepairNeeded, Applying, Manifests
    <2> QED
      BY <1>n, <2>1
  <1>15. CASE KillCommand
    BY <1>15, <1>u DEF KillCommand
  <1>16. CASE RelaunchSeeder
    <2>1. /\ vault'.enc = vault.enc /\ vault'.plain = vault.enc
          /\ seeding'.header = vault.enc.cur /\ canonical' = canonical
      BY <1>16 DEF RelaunchSeeder, RotTypes
    <2>2. \A t \in Torrents : /\ seeding'.act[t].bytes = canonical[t]
                              /\ seeding'.act[t].cred = vault.enc.cur
                              /\ AriaHas(seeding', t)
      BY <1>16 DEF RelaunchSeeder, Reseeded, AriaHas, NoDownload, RotTypes
    <2> QED
      BY <2>1, <2>2 DEF ClaimIsServed, Serving
  <1>17. CASE ArchiveManifest
    <2>1. manifest'.phase # "complete"
      BY <1>17, <1>0, <1>p DEF ArchiveManifest, NoManifest, Applying, Manifests
    <2> QED
      BY <1>n, <2>1
  <1>18. ASSUME NEW c \in Gens, Lapse(c) PROVE ClaimIsServed'
    BY <1>18, <1>u DEF Lapse
  <1>19. CASE UNCHANGED rotVars
    BY <1>19, <1>u DEF rotVars
  <1> QED
    BY <1>1, <1>2, <1>3, <1>4, <1>5, <1>6, <1>7, <1>8, <1>9, <1>10, <1>11, <1>12, <1>13, <1>14, <1>15, <1>16, <1>17, <1>18, <1>19 DEF AnnounceNext

\* The credentials of the downloads.
LEMMA AcceptedStep ==
    ASSUME RotTypes, Ages, HeaderIsCurrent, CurrentDownloads, DownloadsAccepted, [AnnounceNext]_rotVars
    PROVE  DownloadsAccepted'
  <1>0. /\ rot.at \in Torrents /\ vault.plain \in Stores /\ vault.enc \in Stores
        /\ \A t \in Torrents : backup[t] \in {"none", "old", "new"}
    BY Facts
  <1>h. rot.pc \in Applying \cup {"restore"} => Accepted(seeding.header)
    BY DEF HeaderIsCurrent, Accepted
  <1>s. ASSUME UNCHANGED <<vault, lapsed>>,
               \/ seeding' = seeding
               \/ \E t \in Torrents : seeding' = AriaRemove(seeding, t)
               \/ Accepted(seeding.header) /\ \E t \in Torrents, b \in {"none", "old", "new"} :
                                                 seeding' = AriaAdd(seeding, t, b)
               \/ seeding'.act = seeding.act
        PROVE  DownloadsAccepted'
    <2> SUFFICES ASSUME NEW u \in Torrents, AriaHas(seeding', u) PROVE Accepted(seeding'.act[u].cred)
      BY <1>s DEF DownloadsAccepted, Accepted, Prev
    <2>1. AriaHas(seeding, u) => Accepted(seeding.act[u].cred)
      BY DEF DownloadsAccepted
    <2>2. CASE seeding' = seeding \/ seeding'.act = seeding.act
      BY <2>1, <2>2 DEF AriaHas
    <2>3. ASSUME NEW t \in Torrents, seeding' = AriaRemove(seeding, t)
          PROVE  Accepted(seeding'.act[u].cred)
      BY <2>1, <2>3, SeedingRows
    <2>4. ASSUME NEW t \in Torrents, NEW b \in {"none", "old", "new"},
                 Accepted(seeding.header), seeding' = AriaAdd(seeding, t, b)
          PROVE  Accepted(seeding'.act[u].cred)
      <3>1. /\ seeding'.act[u].cred = IF u = t THEN seeding.header ELSE seeding.act[u].cred
            /\ AriaHas(seeding', u) <=> u = t \/ AriaHas(seeding, u)
        BY <2>4, SeedingAdded
      <3> QED
        BY <2>1, <2>4, <3>1
    <2> QED
      BY <1>s, <2>2, <2>3, <2>4
  <1>1. CASE Discover
    BY <1>1, <1>s DEF Discover
  <1>2. CASE BackUp
    BY <1>2, <1>s DEF BackUp, BackUpOf
  <1>3. CASE RotateSecret
    <2>1. /\ seeding' = seeding /\ lapsed' = lapsed
          /\ \/ vault'.plain = vault.plain
             \/ vault'.plain = Rotated(vault.plain, Fresh)
      BY <1>3 DEF RotateSecret, RotateSecretTo, Persisted, RotTypes
    <2>2. vault.plain.cur \notin lapsed
      BY <1>0 DEF Ages, Stores, Gens, RotTypes
    <2>3. \A c : Accepted(c) => (c = vault'.plain.cur \/ c \in vault'.plain.prev \ lapsed)
      BY <2>1, <2>2 DEF Accepted, Prev, Rotated
    <2> QED
      BY <2>1, <2>3 DEF DownloadsAccepted, Accepted, Prev, AriaHas
  <1>4. CASE SetCredential
    BY <1>4, <1>s, Facts DEF SetCredential, Seedings
  <1>5. CASE PrepareReplacement
    BY <1>5, <1>s DEF PrepareReplacement
  <1>6. CASE RemoveOld
    BY <1>6, <1>0, <1>s DEF RemoveOld, RemoveOldAs
  <1>7. CASE AddNew
    BY <1>7, <1>0, <1>h, <1>s, AddEffect DEF Applying
  <1>8. CASE ReAddOld
    BY <1>8, <1>0, <1>h, <1>s, ReAddEffect DEF Applying
  <1>9. CASE UndoApplied
    BY <1>9, <1>0, <1>h, <1>s, UndoFields DEF Applying
  <1>10. CASE Verdict
    BY <1>10, <1>s DEF Verdict
  <1>11. CASE SwarmProbe
    BY <1>11, <1>s DEF SwarmProbe
  <1>12. CASE OpenGate
    BY <1>12, <1>s DEF OpenGate
  <1>13. CASE RecoverBegin
    BY <1>13, <1>s, Facts DEF RecoverBegin, Seedings
  <1>14. CASE RestoreRow
    <2>1. \/ seeding' \in {seeding, AriaRemove(seeding, rot.at)}
          \/ seeding' = AriaAdd(seeding, rot.at, backup[rot.at])
      BY <1>14 DEF RestoreRow
    <2>2. rot.pc = "restore" /\ UNCHANGED <<vault, lapsed>>
      BY <1>14 DEF RestoreRow
    <2> QED
      BY <1>0, <1>h, <1>s, <2>1, <2>2
  <1>15. CASE KillCommand
    BY <1>15, <1>s DEF KillCommand
  <1>16. CASE RelaunchSeeder
    <2>1. /\ vault'.plain = vault.enc
          /\ \A t \in Torrents : seeding'.act[t].cred = vault.enc.cur
      BY <1>16 DEF RelaunchSeeder, Reseeded, RotTypes
    <2> QED
      BY <2>1 DEF DownloadsAccepted, Accepted
  <1>17. CASE ArchiveManifest
    BY <1>17, <1>s DEF ArchiveManifest
  <1>18. ASSUME NEW c \in Gens, Lapse(c) PROVE DownloadsAccepted'
    <2>1. \A t \in Torrents : AriaHas(seeding, t) => seeding.act[t].cred = vault.plain.cur
      BY <1>18 DEF Lapse, CurrentDownloads, Resting
    <2> QED
      BY <1>18, <2>1 DEF Lapse, DownloadsAccepted, Accepted, AriaHas
  <1>19. CASE UNCHANGED rotVars
    BY <1>19, <1>s DEF rotVars
  <1> QED
    BY <1>1, <1>2, <1>3, <1>4, <1>5, <1>6, <1>7, <1>8, <1>9, <1>10, <1>11, <1>12, <1>13, <1>14, <1>15, <1>16, <1>17, <1>18, <1>19 DEF AnnounceNext

\* The first state.
LEMMA RotInit == AnnounceInit => RotInductive
  <1> SUFFICES ASSUME AnnounceInit PROVE RotInductive
    OBVIOUS
  <1>0. /\ 1 \in Torrents /\ 1 \in Gens /\ 1 \in 0..MaxGen /\ RotFaults \in 0..RotFaults /\ RotCrashes \in 0..RotCrashes
        /\ NoManifest.phase = "none" /\ NoManifest.claimed = FALSE /\ NoCommand.pc = "off"
    BY AnnounceAssumption DEF Torrents, Gens, NoManifest, NoCommand
  <1>1. RotTypes
    BY <1>0, NothingTyped DEF AnnounceInit, RotTypes, Stores, Seedings, Downloads
  <1>2. /\ vault.plain.cur = 1 /\ vault.enc.cur = 1 /\ vault.plain = vault.enc /\ seeding.header = 1
        /\ \A t \in Torrents : seeding.act[t] = [bytes |-> "old", cred |-> 1]
        /\ manifest = NoManifest /\ rot = NoCommand
    BY DEF AnnounceInit
  <1>3. Ages
    BY DEF AnnounceInit, Ages
  <1>4. Position /\ HeaderIsCurrent
    BY <1>0, <1>2 DEF Position, HeaderIsCurrent, Applying, Recoverable
  <1>5. CurrentDownloads /\ DownloadsAccepted
    BY <1>0, <1>2 DEF CurrentDownloads, DownloadsAccepted, Accepted
  <1>6. Held /\ Applied /\ OldBytesKept /\ ClaimIsServed
    BY <1>0, <1>2 DEF Held, Applied, OldBytesKept, Recoverable, ClaimIsServed
  <1> QED
    BY <1>1, <1>3, <1>4, <1>5, <1>6 DEF RotInductive

\* One step.
LEMMA RotStep == RotInductive /\ [AnnounceNext]_rotVars => RotInductive'
  <1> SUFFICES ASSUME RotInductive, [AnnounceNext]_rotVars PROVE RotInductive'
    OBVIOUS
  <1> USE DEF RotInductive
  <1>1. RotTypes'
    BY RotTypeStep
  <1>2. Position'
    BY PositionStep
  <1>3. Ages' /\ HeaderIsCurrent' /\ CurrentDownloads'
    BY AgesStep, HeaderStep, DownloadsStep
  <1>4. Held' /\ Applied'
    BY HeldStep, AppliedStep
  <1>5. OldBytesKept' /\ ClaimIsServed' /\ DownloadsAccepted'
    BY <1>2, OldBytesStep, ClaimStep, AcceptedStep
  <1> QED
    BY <1>1, <1>2, <1>3, <1>4, <1>5

\* What the inductive invariant is for.
LEMMA RotImplies == RotInductive => AnnounceSafe
  <1> SUFFICES ASSUME RotInductive PROVE AnnounceSafe
    OBVIOUS
  <1>1. AnnounceTypeOK
    BY TypesMatch DEF RotInductive
  <1>2. NoGoIsReported
    BY DEF RotInductive, Held, NoGoIsReported
  <1> QED
    BY <1>1, <1>2 DEF RotInductive, AnnounceSafe

\* A rotation of the announce credential keeps its promises in every state,
\* whatever fails and wherever the command or the container is killed: the old
\* bytes can be had back, a claim to serve is true, a lost torrent is reported
\* and no download announces with a rejected credential
\* (rotate_seeder_announce.py, secrets_store.rotate_announce).
THEOREM RotationSafe == AnnounceSpec => []AnnounceSafe
  <1>1. AnnounceSpec => []RotInductive
    BY RotInit, RotStep, PTL DEF AnnounceSpec
  <1> QED
    BY <1>1, RotImplies, PTL

----------------------------------------------------------------------------
(* The tracker: shapes.                                                    *)

Entries == [rev : Nat, id : Nat]
Documents == [rev : Nat, say : [Devices -> Verdicts], qos : {0, 1}, roles : BOOLEAN,
              rolesPresent : BOOLEAN, out : SUBSET Entries, epoch : Nat]
Files == [auth : Documents \cup {Bad, Absent}, lkg : Documents \cup {Bad, Absent},
          ring : SUBSET Documents, watermark : BOOLEAN]
Results == [doc : Documents, closed : BOOLEAN, degraded : BOOLEAN]
Blockable == Ips \ {OriginIp}
Bindings == [ip : Ips, devs : SUBSET Principals]

\* Sessions of aria2 up to the present one.
SeenSession(x) == x = None \/ x \in 1..aria.sess

\* A control file, an application journal and one of its rows.
ControlOK(c) == /\ c = [rev |-> c.rev, mode |-> c.mode, appr |-> c.appr]
                /\ c.appr = None \/ c.appr.bind \in SUBSET Bindings
RowOK(r) == r.list \in SUBSET Ips /\ r.bind \in SUBSET Bindings
JournalOK(a) == /\ DOMAIN a = {"last", "intent", "sharedRev", "shared"}
                /\ a.last = None \/ RowOK(a.last)
OriginOK(o) == /\ DOMAIN o = {"on", "reason", "list", "bind", "hash", "app"}
               /\ o.list = None \/ o.list \in SUBSET Blockable
               /\ o.bind \in SUBSET Bindings
               /\ JournalOK(o.app)

\* What a pass carries from step to step.
CommonOK(p) == /\ p.res \in Results /\ SeenSession(p.sess)
               /\ p.qout \in {"none", "refused", "ok", "fail"}
BlindPass(p) == /\ DOMAIN p = {"blind", "res", "sess", "qos", "qout"}
                /\ p.blind = TRUE /\ CommonOK(p)
FullPass(p) == /\ DOMAIN p = {"blind", "res", "rows", "queue", "live", "waiting", "closed", "mixed",
                              "org", "list", "sess", "out", "force", "qos", "qout"}
               /\ p.blind = FALSE /\ CommonOK(p)
               /\ p.list \in SUBSET Blockable /\ OriginOK(p.org)
               /\ p.out \in {"none", "ok", "failed", "skipped"}
Report(p) == /\ DOMAIN p = {"res", "q", "acked", "st"}
             /\ p.q = [state |-> p.q.state, sess |-> p.q.sess, want |-> p.q.want]
             /\ p.res \in Results /\ p.st.state \in States /\ p.q.state \in States

PassOK ==
    /\ trk.at \in {"qos", "apply"} => BlindPass(trk.p) \/ FullPass(trk.p)
    /\ trk.at \in {"call", "finish"} => FullPass(trk.p)
    /\ trk.at \in {"export", "status"} => Report(trk.p)
    /\ trk.at = "qos" => trk.p.qout = "none"
    /\ trk.at \in {"qos", "apply", "call"} /\ ~trk.p.blind => trk.p.out = "none"

\* The files: the policy and its operations; what was observed; what the
\* operator decided; what was reported.
PolicyOK ==
    /\ pf \in Files
    /\ ops = [last |-> ops.last, exported |-> ops.exported] /\ ops.last \in Nat
ObservedOK ==
    /\ eps \in [Principals -> [Ips -> {"none", "fresh", "old"}]]
    /\ pend \in [Principals -> Ips \cup {None}] /\ live \in SUBSET Ips
    /\ creds \in [revoked : SUBSET Devices, readable : BOOLEAN]
DecidedOK ==
    /\ ctl = Absent \/ ControlOK(ctl)
    /\ app = Absent \/ JournalOK(app)
StatusOK ==
    /\ stat = [state |-> stat.state, list |-> stat.list, sess |-> stat.sess, ack |-> stat.ack]
    /\ stat.state \in States
    /\ qstat = [state |-> qstat.state, sess |-> qstat.sess, want |-> qstat.want]
    /\ qstat.state \in States

\* The processes.
AriaOK ==
    /\ aria = [up |-> aria.up, sess |-> aria.sess, block |-> aria.block, gids |-> aria.gids,
               opt |-> aria.opt]
    /\ aria.up \in BOOLEAN /\ aria.sess \in 1..MaxSession
    /\ ~aria.up => aria.sess < MaxSession
    /\ aria.block \in SUBSET Blockable /\ aria.gids \in SUBSET Gids
TrackerOK ==
    /\ DOMAIN trk = {"at", "known", "lastH", "lastS", "ok", "qH", "qS", "qOk", "p"}
    /\ trk.at \in PassSteps /\ trk.known \in SUBSET Devices
    /\ trk.ok \in BOOLEAN /\ trk.qOk \in BOOLEAN
    /\ SeenSession(trk.lastS) /\ SeenSession(trk.qS)

\* An outbox keeps to its cap and to the operations of its document.
Boxed(doc, last) == /\ IsFiniteSet(doc.out) /\ Cardinality(doc.out) <= OutCap
                    /\ \A e \in doc.out : e.rev <= doc.rev /\ e.id <= last
Kept(f) == ({f.auth, f.lkg} \cup f.ring) \ {Bad, Absent}
Outboxes == \A doc \in Kept(pf) : Boxed(doc, ops.last)

----------------------------------------------------------------------------
(* Memory.                                                                 *)

BlockKnown == trk.ok /\ trk.lastS = Session => aria.block = trk.lastH
QosKnown == trk.qOk /\ trk.qS = Session => \A g \in trk.qH.gids : aria.opt[g] = trk.qH.val

\* What the tracker believes of aria2, and what a call of this pass has done
\* to it meanwhile.
Memory ==
    /\ trk.ok => trk.lastS # None
    /\ trk.qOk => trk.qS # None
    /\ trk.at # "finish" => BlockKnown
    /\ trk.at = "finish" =>
         /\ trk.p.out \in {"none", "skipped"} => BlockKnown
         /\ trk.p.out = "ok" /\ trk.p.sess # None /\ trk.p.sess = Session => aria.block = trk.p.list
    /\ trk.at \notin {"apply", "call", "finish"} => QosKnown
    /\ trk.at \in {"apply", "call", "finish"} =>
         /\ trk.p.qout = "none" => QosKnown
         /\ trk.p.qout = "ok" /\ trk.p.sess # None /\ trk.p.sess = Session =>
              \A g \in trk.p.qos.gids : aria.opt[g] = trk.p.qos.val

BlockInductive == /\ PolicyOK /\ ObservedOK /\ DecidedOK /\ StatusOK /\ Outboxes
                  /\ AriaOK /\ TrackerOK /\ PassOK /\ Memory

----------------------------------------------------------------------------
(* The operators.                                                          *)

\* A policy nobody has edited is a policy document.
LEMMA BaseDocument == base_document \in Documents
  BY DEF base_document, Documents, Verdicts, Entries

\* What is read of the policy files is a document and two flags.
LEMMA LoadedPolicy ==
    ASSUME NEW f \in Files
    PROVE  load_policy(f) \in Results
  <1>1. CASE IsDoc(f.auth)
    <2>1. f.auth \in Documents
      BY <1>1 DEF Files, IsDoc
    <2> QED
      BY <1>1, <2>1 DEF load_policy, Results
  <1>2. CASE ~IsDoc(f.auth) /\ IsDoc(f.lkg)
    <2>1. f.lkg \in Documents
      BY <1>2 DEF Files, IsDoc
    <2> QED
      BY <1>2, <2>1 DEF load_policy, Results
  <1>3. CASE ~IsDoc(f.auth) /\ ~IsDoc(f.lkg)
    BY <1>3, BaseDocument DEF load_policy, Results
  <1> QED
    BY <1>1, <1>2, <1>3

\* Starting a first policy keeps the files well formed and adds no operation.
LEMMA Initialized ==
    ASSUME NEW f \in Files
    PROVE  /\ InitializeIfAbsent(f) \in Files
           /\ InitializeIfAbsent(f).ring = f.ring
           /\ InitializeIfAbsent(f).auth \in {f.auth, base_document}
           /\ InitializeIfAbsent(f).lkg \in {f.lkg, base_document}
  BY BaseDocument DEF InitializeIfAbsent, Files

\* A principal's addresses, one recorded and one forgotten.
LEMMA RecordedRow ==
    ASSUME NEW row \in [Ips -> {"none", "fresh", "old"}], NEW ip, NEW gone
    PROVE  record_endpoint(row, ip, gone) \in [Ips -> {"none", "fresh", "old"}]
  BY DEF record_endpoint

\* The derived list never holds the origin.
LEMMA DerivedBlockable ==
    ASSUME NEW res, NEW dur, NEW pnd, NEW act, NEW rev
    PROVE  derive_denied_set(res, dur, pnd, act, rev).block \in SUBSET Blockable
  <1>1. CASE res.closed
    BY <1>1 DEF derive_denied_set, Blockable
  <1>2. CASE ~res.closed
    BY <1>2 DEF derive_denied_set, ResolvedSet, Blockable
  <1> QED
    BY <1>1, <1>2

\* An observation's addresses may be blocked, and the origin is protected.
LEMMA Observed ==
    ASSUME NEW res, NEW dur, NEW pnd, NEW rev, NEW c
    PROVE  /\ Observe(res, dur, pnd, rev, c).base \in SUBSET Blockable
           /\ Observe(res, dur, pnd, rev, c).bind \in SUBSET Bindings
           /\ OriginIp \in Observe(res, dur, pnd, rev, c).protected
  <1> DEFINE merged == [p \in Principals |->
                     dur[p] \cup {b.ip : b \in {x \in approved_bindings(c) : p \in x.devs}}]
             seen == dur[Seeder] \cup ({pnd[Seeder]} \ {None})
             protected == {OriginIp} \cup seen
             base == derive_denied_set(res, merged, pnd, {}, rev)
             wide == IF res.closed THEN [block |-> {}, shared |-> {}]
                     ELSE ResolvedSet(merged, pnd, OriginDenied(res, rev))
             missing == IF res.closed \/ res.degraded THEN "policy_unavailable"
                        ELSE IF seen = {} THEN "origin_unobserved"
                        ELSE IF OriginIp \notin seen THEN "origin_mismatch" ELSE None
             guarded == {ip \in protected : At(merged, pnd, ip) \cap OriginDenied(res, rev) # {}}
             extra == (wide.block \ base.block) \ (protected \cup wide.shared)
             bind == IF missing # None THEN {}
                     ELSE {[ip |-> ip, devs |-> At(merged, pnd, ip) \cap OriginDenied(res, rev)] :
                              ip \in extra}
  <1>1. base.block \in SUBSET Blockable
    BY DerivedBlockable
  <1>2. wide.block \in SUBSET Ips
    BY DEF ResolvedSet
  <1>3. \A ip : At(merged, pnd, ip) \in SUBSET Principals
    BY DEF At
  <1>4. bind \in SUBSET Bindings
    <2> HIDE DEF merged, wide, base, protected, missing
    <2> QED
      BY <1>2, <1>3 DEF Bindings
  <1>5. Observe(res, dur, pnd, rev, c) =
            [hash |-> policy_hash(res), base |-> base.block, bind |-> bind, missing |-> missing,
             shared |-> wide.shared, protected |-> protected, guarded |-> guarded,
             growth |-> Cardinality(AddressesOf(bind) \ AddressesOf(approved_bindings(c)))]
    BY DEF Observe
  <1> HIDE DEF merged, wide, base, missing, bind, seen, guarded
  <1> QED
    BY <1>1, <1>4, <1>5

\* What a pass prepares for the operator's restrictions.
LEMMA Prepared ==
    ASSUME ctl = Absent \/ ControlOK(ctl), app = Absent \/ JournalOK(app),
           NEW res, NEW dur, NEW pnd, NEW rev, NEW baseline \in SUBSET Blockable
    PROVE  OriginOK(Prepare(res, dur, pnd, rev, baseline))
  <1> DEFINE c == load_control
             a == load_application
             o == Observe(res, dur, pnd, rev, c)
             reason == ViewReason(c, o)
             keep == reason \in Frozen
             bind == IF keep THEN a.last.bind ELSE approved_bindings(c)
             want == IF keep /\ reason # "policy_changed" THEN a.last.list
                     ELSE o.base \cup AddressesOf(bind)
             retained == ((IF a.sharedRev = c.rev THEN a.shared ELSE {}) \cup o.shared)
                            \cap AddressesOf(approved_bindings(c))
             shared == retained \cup o.shared
             list == want \ (shared \cup o.protected)
             newreason == IF reason = None /\ shared # {} /\ c.mode = "enforce"
                          THEN "shared_address" ELSE reason
             newapp == [last |-> a.last, intent |-> a.intent, sharedRev |-> c.rev,
                        shared |-> retained]
             p == Prepare(res, dur, pnd, rev, baseline)
  <1>1. ControlOK(c)
    BY DEF load_control, default_control, ControlOK
  <1>2. JournalOK(a)
    BY DEF load_application, NewApplication, JournalOK
  <1>3. \A r : OriginOK(Unavailable(r))
    BY <1>2 DEF OriginOK, Unavailable
  <1>4. o.base \in SUBSET Blockable /\ OriginIp \in o.protected
    BY Observed
  <1>5. approved_bindings(c) \in SUBSET Bindings
    BY <1>1 DEF approved_bindings, ControlOK
  <1>6. JournalOK(newapp)
    <2> HIDE DEF a, c, retained
    <2> QED
      BY <1>2 DEF JournalOK
  <1>7. \/ \E r : p = Unavailable(r)
        \/ p = [on |-> FALSE, reason |-> None, list |-> baseline, bind |-> {},
                hash |-> o.hash, app |-> a]
        \/ /\ ~(keep /\ a.last = None)
           /\ p = [on |-> TRUE, list |-> list, hash |-> o.hash, reason |-> newreason,
                   bind |-> {b \in bind : b.ip \in list}, app |-> newapp]
    BY DEF Prepare
  <1> HIDE DEF c, a, o, reason, retained, newreason, newapp, p
  <1>8. CASE p = [on |-> FALSE, reason |-> None, list |-> baseline, bind |-> {},
                  hash |-> o.hash, app |-> a]
    BY <1>8, <1>2 DEF OriginOK, p
  <1>9. CASE /\ ~(keep /\ a.last = None)
             /\ p = [on |-> TRUE, list |-> list, hash |-> o.hash, reason |-> newreason,
                     bind |-> {b \in bind : b.ip \in list}, app |-> newapp]
    <2>1. bind \in SUBSET Bindings
      BY <1>9, <1>2, <1>5 DEF JournalOK, RowOK
    <2>2. AddressesOf(bind) \in SUBSET Ips
      BY <2>1 DEF AddressesOf, Bindings
    <2>3. want \in SUBSET Ips
      <3>1. CASE keep /\ reason # "policy_changed"
        BY <3>1, <1>9, <1>2 DEF JournalOK, RowOK
      <3>2. CASE ~(keep /\ reason # "policy_changed")
        <4> HIDE DEF bind, keep
        <4> QED
          BY <3>2, <2>2, <1>4 DEF Blockable
      <3> QED
        BY <3>1, <3>2
    <2>4. list \in SUBSET Blockable
      <3> HIDE DEF want, shared
      <3> QED
        BY <2>3, <1>4 DEF Blockable
    <2>5. {b \in bind : b.ip \in list} \in SUBSET Bindings
      <3> HIDE DEF bind, list
      <3> QED
        BY <2>1
    <2> DEFINE kept == {b \in bind : b.ip \in list}
    <2>6. p = [on |-> TRUE, list |-> list, hash |-> o.hash, reason |-> newreason,
               bind |-> kept, app |-> newapp]
      BY <1>9
    <2>7. kept \in SUBSET Bindings
      BY <2>5
    <2> HIDE DEF kept, list
    <2>8. OriginOK(p)
      BY <2>4, <2>6, <2>7, <1>6 DEF OriginOK
    <2> QED
      BY <2>8 DEF p
  <1> QED
    BY <1>3, <1>7, <1>8, <1>9 DEF p

\* A newer operation number keeps an outbox within its bounds.
LEMMA BoxedLonger ==
    ASSUME NEW doc \in Documents, NEW m \in Nat, NEW n \in Nat, m <= n, Boxed(doc, m)
    PROVE  Boxed(doc, n)
  <1>1. \A e \in doc.out : e.id \in Nat
    BY DEF Documents, Entries
  <1> QED
    BY <1>1 DEF Boxed

\* The empty outbox of a first policy.
LEMMA BoxedBase ==
    ASSUME NEW n \in Nat
    PROVE  Boxed(base_document, n)
  <1>1. IsFiniteSet({}) /\ Cardinality({}) = 0
    BY FS_EmptySet
  <1>2. 0 <= OutCap
    BY BlockAssumption
  <1> QED
    BY <1>1, <1>2 DEF Boxed, base_document

\* The documents among the files are documents.
LEMMA KeptDocuments ==
    ASSUME NEW f \in Files
    PROVE  Kept(f) \in SUBSET Documents
  BY DEF Kept, Files

\* Starting a first policy keeps every outbox within its bounds.
LEMMA InitializedBoxed ==
    ASSUME NEW f \in Files, NEW n \in Nat, \A doc \in Kept(f) : Boxed(doc, n)
    PROVE  \A doc \in Kept(InitializeIfAbsent(f)) : Boxed(doc, n)
  <1>1. Kept(InitializeIfAbsent(f)) \in SUBSET (Kept(f) \cup {base_document})
    BY Initialized DEF Kept
  <1>2. Boxed(base_document, n)
    BY BoxedBase
  <1> QED
    BY <1>1, <1>2

\* commit_mutation: the new document is well formed, and its outbox, less what
\* was acknowledged and with the new operation, keeps to the cap.
LEMMA Committed ==
    ASSUME pf \in Files, ops = [last |-> ops.last, exported |-> ops.exported],
           ops.last \in Nat, Outboxes, NEW say \in [Devices -> Verdicts], NEW qos \in {0, 1},
           NEW roles \in BOOLEAN, Commit([say |-> say, qos |-> qos, roles |-> roles])
    PROVE  /\ pf' \in Files /\ Outboxes'
           /\ ops' = [last |-> ops'.last, exported |-> ops'.exported] /\ ops'.last \in Nat
  <1> DEFINE content == [say |-> say, qos |-> qos, roles |-> roles]
             f == InitializeIfAbsent(pf)
             prior == f.auth
             out == Unacked(prior, stat.ack)
             present == content.roles \/ prior.rolesPresent
             op == [rev |-> prior.rev + 1, id |-> ops.last + 1]
             box == out \cup {op}
             new == [rev |-> prior.rev + 1, say |-> content.say, qos |-> content.qos,
                     roles |-> content.roles, rolesPresent |-> present,
                     out |-> out \cup {op}, epoch |-> ops.last + 1]
             ring == {d \in f.ring : d.rev # prior.rev} \cup (IF prior.rev = 0 THEN {} ELSE {prior})
             files == [auth |-> new, lkg |-> prior, watermark |-> f.watermark \/ present,
                       ring |-> Newest(ring, RingSize)]
  <1>1. /\ IsDoc(prior) /\ HasRoom(out) /\ pf' = files
        /\ ops' = [ops EXCEPT !.last = @ + 1]
    BY DEF Commit
  <1>2. f \in Files /\ f.ring = pf.ring
    BY Initialized
  <1>3. prior \in Documents
    BY <1>1, <1>2 DEF Files, IsDoc
  <1>4. \A doc \in Kept(f) : Boxed(doc, ops.last)
    BY InitializedBoxed DEF Outboxes
  <1>5. prior \in Kept(f)
    BY <1>1 DEF Kept, IsDoc
  <1>6. Boxed(prior, ops.last)
    BY <1>4, <1>5
  <1>7. ops'.last = ops.last + 1 /\ ops' = [last |-> ops'.last, exported |-> ops'.exported]
    BY <1>1
  <1>8. prior.rev \in Nat /\ prior.out \in SUBSET Entries /\ prior.rolesPresent \in BOOLEAN
    BY <1>3 DEF Documents
  <1>9. out \in SUBSET prior.out
    BY DEF Unacked
  <1>10. op \in Entries /\ op.rev = prior.rev + 1 /\ op.id = ops.last + 1
    BY <1>8 DEF Entries
  <1>11. new = [rev |-> prior.rev + 1, say |-> say, qos |-> qos, roles |-> roles,
                rolesPresent |-> present, out |-> box, epoch |-> ops.last + 1]
    OBVIOUS
  <1>12. box \in SUBSET Entries
    <2> HIDE DEF out, op
    <2> QED
      BY <1>8, <1>9, <1>10
  <1>13. present \in BOOLEAN
    BY <1>8
  <1> HIDE DEF f, prior, out, op, present
  <1>14. new \in Documents
    <2> HIDE DEF new, box
    <2>1. prior.rev + 1 \in Nat /\ ops.last + 1 \in Nat
      BY <1>8
    <2> HIDE DEF present
    <2> QED
      BY <1>11, <1>12, <1>13, <2>1 DEF Documents
  <1>15. ring \in SUBSET Documents /\ ring \in SUBSET (f.ring \cup {prior})
    BY <1>2, <1>3 DEF Files
  <1>16. Newest(ring, RingSize) \in SUBSET ring
    <2> HIDE DEF ring
    <2> QED
      BY DEF Newest
  <1> HIDE DEF ring, new
  <1>17. files \in Files
    <2>1. f.watermark \/ present \in BOOLEAN
      BY <1>2, <1>13 DEF Files
    <2> QED
      BY <1>3, <1>14, <1>15, <1>16, <2>1 DEF Files
  <1>18. \A doc \in Kept(f) : Boxed(doc, ops'.last)
    <2>1. Kept(f) \in SUBSET Documents
      BY <1>2, KeptDocuments
    <2>2. ops.last + 1 \in Nat /\ ops.last <= ops.last + 1
      OBVIOUS
    <2> QED
      BY <1>4, <1>7, <2>1, <2>2, BoxedLonger
  <1>19. Boxed(new, ops'.last)
    <2>1. IsFiniteSet(out) /\ Cardinality(out) <= Cardinality(prior.out)
      BY <1>6, <1>9, FS_Subset DEF Boxed
    <2>2. Cardinality(out) \in Nat
      BY <2>1, FS_CardinalityType
    <2>3. Cardinality(out) < OutCap /\ OutCap \in Nat
      BY <1>1, BlockAssumption DEF HasRoom
    <2>4. IsFiniteSet(box) /\ (Cardinality(box) = Cardinality(out) \/ Cardinality(box) = Cardinality(out) + 1)
      BY <2>1, FS_AddElement
    <2>5. Cardinality(box) <= OutCap
      BY <2>2, <2>3, <2>4
    <2>6. ASSUME NEW e \in box PROVE e.rev <= prior.rev + 1 /\ e.id <= ops.last + 1
      <3>1. CASE e \in out
        <4>1. e \in prior.out
          BY <3>1, <1>9
        <4>2. e.rev <= prior.rev /\ e.id <= ops.last /\ e.rev \in Nat /\ e.id \in Nat
          BY <4>1, <1>6, <1>8 DEF Boxed, Entries
        <4> QED
          BY <4>2, <1>8
      <3>2. CASE e = op
        BY <3>2, <1>8, <1>10
      <3> QED
        BY <3>1, <3>2
    <2>7. new.out = box /\ new.rev = prior.rev + 1
      BY <1>11
    <2> QED
      BY <2>4, <2>5, <2>6, <2>7, <1>7 DEF Boxed
  <1>20. Kept(files) \in SUBSET (Kept(f) \cup {new})
    <2>1. files.auth = new /\ files.lkg = prior /\ files.ring = Newest(ring, RingSize)
      OBVIOUS
    <2>2. f.ring \ {Bad, Absent} \in SUBSET Kept(f)
      BY DEF Kept
    <2> HIDE DEF files
    <2> QED
      BY <1>5, <1>15, <1>16, <2>1, <2>2 DEF Kept
  <1>21. Outboxes'
    BY <1>1, <1>18, <1>19, <1>20 DEF Outboxes
  <1>22. ops'.last \in Nat
    BY <1>7
  <1> QED
    BY <1>1, <1>7, <1>17, <1>21, <1>22

----------------------------------------------------------------------------
(* Steps of the operator and of the world that touch only files.           *)

\* The tracker and aria2 at rest.
LEMMA ProcessesRest ==
    ASSUME AriaOK, TrackerOK, PassOK, Memory, UNCHANGED <<aria, trk>>
    PROVE  AriaOK' /\ TrackerOK' /\ PassOK' /\ Memory'
  <1>1. AriaOK'
    BY DEF AriaOK
  <1>2. TrackerOK'
    BY DEF TrackerOK, SeenSession
  <1>3. PassOK'
    BY DEF PassOK, BlindPass, FullPass, CommonOK, Report, SeenSession
  <1>4. Memory'
    BY DEF Memory, BlockKnown, QosKnown, Session
  <1> QED
    BY <1>1, <1>2, <1>3, <1>4

\* The policy at rest.
LEMMA PolicyRests ==
    ASSUME PolicyOK, Outboxes, UNCHANGED <<pf, ops>>
    PROVE  PolicyOK' /\ Outboxes'
  BY DEF PolicyOK, Outboxes

\* A policy read for the first time.
LEMMA PolicyStarts ==
    ASSUME PolicyOK, Outboxes, pf' = InitializeIfAbsent(pf), UNCHANGED ops
    PROVE  PolicyOK' /\ Outboxes'
  <1>1. pf' \in Files
    BY Initialized DEF PolicyOK
  <1>2. \A doc \in Kept(pf') : Boxed(doc, ops.last)
    BY InitializedBoxed DEF PolicyOK, Outboxes
  <1> QED
    BY <1>1, <1>2 DEF PolicyOK, Outboxes

LEMMA ObservedRests ==
    ASSUME ObservedOK, UNCHANGED <<eps, pend, live, creds>>
    PROVE  ObservedOK'
  BY DEF ObservedOK

LEMMA DecidedRests ==
    ASSUME DecidedOK, UNCHANGED <<ctl, app>>
    PROVE  DecidedOK'
  BY DEF DecidedOK

LEMMA StatusRests ==
    ASSUME StatusOK, UNCHANGED <<stat, qstat>>
    PROVE  StatusOK'
  BY DEF StatusOK

\* Edits of the policy go through commit_mutation.
LEMMA PolicyEdits ==
    ASSUME BlockInductive,
           \/ \E d \in Devices, s \in Verdicts : SetVerdict(d, s)
           \/ SetQos
           \/ RestoreRevision
    PROVE  BlockInductive'
  <1>1. UNCHANGED <<eps, pend, live, creds, ctl, app, stat, qstat, aria, trk>>
    BY DEF SetVerdict, SetQos, RestoreRevision
  <1>2. AriaOK' /\ TrackerOK' /\ PassOK' /\ Memory'
    BY <1>1, ProcessesRest DEF BlockInductive
  <1>3. ObservedOK' /\ DecidedOK' /\ StatusOK'
    BY <1>1, ObservedRests, DecidedRests, StatusRests DEF BlockInductive
  <1>4. \E say \in [Devices -> Verdicts], qos \in {0, 1}, roles \in BOOLEAN :
            Commit([say |-> say, qos |-> qos, roles |-> roles])
    <2>1. ASSUME NEW d \in Devices, NEW s \in Verdicts, SetVerdict(d, s)
          PROVE  \E say \in [Devices -> Verdicts], qos \in {0, 1}, roles \in BOOLEAN :
                     Commit([say |-> say, qos |-> qos, roles |-> roles])
      <3>1. pf.auth \in Documents
        BY <2>1 DEF BlockInductive, PolicyOK, Files, IsDoc, SetVerdict
      <3>2. pf.auth.say \in [Devices -> Verdicts] /\ pf.auth.qos \in {0, 1} /\ pf.auth.roles \in BOOLEAN
        BY <3>1 DEF Documents
      <3>3. [pf.auth.say EXCEPT ![d] = s] \in [Devices -> Verdicts]
        BY <3>2
      <3>4. Commit([say |-> [pf.auth.say EXCEPT ![d] = s], qos |-> pf.auth.qos,
                    roles |-> pf.auth.roles \/ s = "noorigin"])
        BY <2>1 DEF SetVerdict
      <3>5. (pf.auth.roles \/ s = "noorigin") \in BOOLEAN
        BY <3>2
      <3> QED
        BY <3>2, <3>3, <3>4, <3>5
    <2>2. CASE SetQos
      <3>1. pf.auth \in Documents
        BY <2>2 DEF BlockInductive, PolicyOK, Files, IsDoc, SetQos
      <3>2. pf.auth.say \in [Devices -> Verdicts] /\ pf.auth.qos \in {0, 1}
        BY <3>1 DEF Documents
      <3>3. 1 - pf.auth.qos \in {0, 1}
        BY <3>2
      <3>4. Commit([say |-> pf.auth.say, qos |-> 1 - pf.auth.qos, roles |-> TRUE])
        BY <2>2 DEF SetQos
      <3> QED
        BY <3>2, <3>3, <3>4
    <2>3. CASE RestoreRevision
      <3>1. PICK old \in pf.ring : Commit([say |-> old.say, qos |-> old.qos, roles |-> old.roles])
        BY <2>3 DEF RestoreRevision
      <3>2. old \in Documents
        BY <3>1 DEF BlockInductive, PolicyOK, Files
      <3>3. old.say \in [Devices -> Verdicts] /\ old.qos \in {0, 1} /\ old.roles \in BOOLEAN
        BY <3>2 DEF Documents
      <3> QED
        BY <3>1, <3>3
    <2> QED
      BY <2>1, <2>2, <2>3
  <1>5. PolicyOK' /\ Outboxes'
    BY <1>4, Committed DEF BlockInductive, PolicyOK
  <1> QED
    BY <1>2, <1>3, <1>5 DEF BlockInductive

\* A damaged, lost or restored policy file is one of the documents there were, or none.
LEMMA PolicyDamaged ==
    ASSUME BlockInductive, DamagePolicy
    PROVE  BlockInductive'
  <1>1. UNCHANGED <<eps, pend, live, creds, ctl, app, stat, qstat, aria, trk, ops>>
    BY DEF DamagePolicy
  <1>2. AriaOK' /\ TrackerOK' /\ PassOK' /\ Memory'
    BY <1>1, ProcessesRest DEF BlockInductive
  <1>3. ObservedOK' /\ DecidedOK' /\ StatusOK'
    BY <1>1, ObservedRests, DecidedRests, StatusRests DEF BlockInductive
  <1>4. pf \in Files
    BY DEF BlockInductive, PolicyOK
  <1>5. pf' \in Files /\ Kept(pf') \in SUBSET Kept(pf)
    <2>1. CASE pf' = [pf EXCEPT !.auth = Bad]
      BY <2>1, <1>4 DEF Files, Kept
    <2>2. CASE \E x \in {Bad, Absent} : pf' = [pf EXCEPT !.auth = x, !.lkg = x]
      BY <2>2, <1>4 DEF Files, Kept
    <2>3. CASE \E old \in pf.ring : pf' = [pf EXCEPT !.auth = old]
      BY <2>3, <1>4 DEF Files, Kept
    <2>4. CASE IsDoc(pf.lkg) /\ pf' = [pf EXCEPT !.auth = pf.lkg]
      BY <2>4, <1>4 DEF Files, Kept
    <2> QED
      BY <2>1, <2>2, <2>3, <2>4 DEF DamagePolicy
  <1>6. PolicyOK' /\ Outboxes'
    BY <1>1, <1>5 DEF PolicyOK, Outboxes, BlockInductive
  <1> QED
    BY <1>2, <1>3, <1>6 DEF BlockInductive

\* Announcements, expiry and revocations.
LEMMA WorldMoves ==
    ASSUME BlockInductive,
           \/ \E p \in Principals, ip \in Ips : Announce(p, ip) \/ Expire(p, ip)
           \/ \E ip \in Ips : RegistryRow(ip)
           \/ \E d \in Devices : Revoke(d)
           \/ SecretsReadable
    PROVE  BlockInductive'
  <1>1. UNCHANGED <<pf, ctl, app, stat, qstat, aria, trk, ops>>
    BY DEF Announce, RegistryRow, Expire, Revoke, SecretsReadable
  <1>2. AriaOK' /\ TrackerOK' /\ PassOK' /\ Memory'
    BY <1>1, ProcessesRest DEF BlockInductive
  <1>3. PolicyOK' /\ Outboxes' /\ DecidedOK' /\ StatusOK'
    BY <1>1, PolicyRests, DecidedRests, StatusRests DEF BlockInductive
  <1>4. ObservedOK
    BY DEF BlockInductive
  <1>5. ObservedOK'
    <2>1. ASSUME NEW p \in Principals, NEW ip \in Ips, Announce(p, ip) PROVE ObservedOK'
      <3>1. UNCHANGED creds /\ live' \in SUBSET Ips
        BY <2>1, <1>4 DEF Announce, ObservedOK
      <3>2. CASE pend' = pend /\ \E gone : eps' = [eps EXCEPT ![p] = record_endpoint(eps[p], ip, gone)]
        <4>1. PICK gone : eps' = [eps EXCEPT ![p] = record_endpoint(eps[p], ip, gone)]
          BY <3>2
        <4>2. record_endpoint(eps[p], ip, gone) \in [Ips -> {"none", "fresh", "old"}]
          BY <1>4, RecordedRow DEF ObservedOK
        <4> QED
          BY <1>4, <3>1, <3>2, <4>1, <4>2 DEF ObservedOK
      <3>3. CASE pend' = [pend EXCEPT ![p] = ip] /\ eps' = eps
        BY <1>4, <3>1, <3>3 DEF ObservedOK
      <3> QED
        BY <2>1, <3>2, <3>3 DEF Announce
    <2>5. ASSUME NEW ip \in Ips, RegistryRow(ip) PROVE ObservedOK'
      BY <2>5, <1>4 DEF RegistryRow, ObservedOK
    <2>2. ASSUME NEW p \in Principals, NEW ip \in Ips, Expire(p, ip) PROVE ObservedOK'
      BY <2>2, <1>4 DEF Expire, ObservedOK
    <2>3. ASSUME NEW d \in Devices, Revoke(d) PROVE ObservedOK'
      BY <2>3, <1>4 DEF Revoke, ObservedOK
    <2>4. CASE SecretsReadable
      BY <2>4, <1>4 DEF SecretsReadable, ObservedOK
    <2> QED
      BY <2>1, <2>2, <2>3, <2>4, <2>5
  <1> QED
    BY <1>2, <1>3, <1>5 DEF BlockInductive

\* The operator's review and approval.
LEMMA OperatorActs ==
    ASSUME BlockInductive,
           \/ \E m \in {"preflight", "enforce"} : Preview(m)
           \/ Approve
    PROVE  BlockInductive'
  <1>1. UNCHANGED <<eps, pend, live, creds, stat, qstat, aria, trk, ops>>
    BY DEF Preview, Approve
  <1>2. AriaOK' /\ TrackerOK' /\ PassOK' /\ Memory'
    BY <1>1, ProcessesRest DEF BlockInductive
  <1>3. ObservedOK' /\ StatusOK'
    BY <1>1, ObservedRests, StatusRests DEF BlockInductive
  <1>4. PolicyOK' /\ Outboxes' /\ DecidedOK'
    <2>1. ASSUME NEW m, Preview(m) PROVE PolicyOK' /\ Outboxes' /\ DecidedOK'
      <3>1. pf' = InitializeIfAbsent(pf) /\ UNCHANGED <<ctl, app, ops>>
        BY <2>1 DEF Preview
      <3> QED
        BY <3>1, PolicyStarts, DecidedRests DEF BlockInductive
    <2>2. CASE Approve
      <3> DEFINE c == load_control
                 o == StoreView(c)
                 new == [rev |-> c.rev + 1, mode |-> review.mode,
                         appr |-> IF review.mode = "enforce" THEN [hash |-> o.hash, bind |-> o.bind]
                                                             ELSE None]
      <3>1. /\ UNCHANGED <<pf, ops>>
            /\ ctl' \in {new, c} /\ app' \in {app, NewApplication}
        BY <2>2 DEF Approve
      <3>2. ControlOK(c)
        BY DEF load_control, default_control, ControlOK, BlockInductive, DecidedOK
      <3>3. o.bind \in SUBSET Bindings
        BY Observed DEF StoreView
      <3> HIDE DEF c, o
      <3>4. ControlOK(new)
        BY <3>3 DEF ControlOK
      <3>5. JournalOK(NewApplication)
        BY DEF JournalOK, NewApplication
      <3> HIDE DEF new
      <3>6. DecidedOK'
        BY <3>1, <3>2, <3>4, <3>5 DEF DecidedOK, BlockInductive
      <3> QED
        BY <3>1, <3>6, PolicyRests DEF BlockInductive
    <2> QED
      BY <2>1, <2>2
  <1> QED
    BY <1>2, <1>3, <1>4 DEF BlockInductive

----------------------------------------------------------------------------
(* aria2 and the tracker process.                                          *)

\* A session that was seen is not the one a start of aria2 begins; otherwise
\* aria2 keeps what it holds.
LEMMA SessionMoves ==
    ASSUME AriaOK, AriaStop \/ AriaStart \/ \E g \in Gids : Reseed(g)
    PROVE  /\ \A x : SeenSession(x) => (x = None \/ x \in 1..aria'.sess)
           /\ \/ /\ aria'.block = aria.block /\ aria'.opt = aria.opt
                 /\ Session' = Session \/ Session' = None
              \/ \A x : SeenSession(x) /\ x # None => x # Session'
           /\ AriaOK'
  <1>1. aria.sess \in Nat /\ MaxSession \in Nat /\ aria.sess \in 1..MaxSession
    BY BlockAssumption DEF AriaOK
  <1>2. CASE AriaStop
    <2>1. /\ aria.sess < MaxSession
          /\ aria' = [up |-> FALSE, sess |-> aria.sess, block |-> aria.block,
                      gids |-> aria.gids, opt |-> aria.opt]
      BY <1>2 DEF AriaStop, AriaOK
    <2> QED
      BY <2>1, <1>1 DEF AriaOK, SeenSession, Session
  <1>3. CASE AriaStart
    <2>1. /\ ~aria.up
          /\ aria' = [up |-> TRUE, sess |-> aria.sess + 1, block |-> {}, gids |-> aria.gids,
                      opt |-> [g \in Gids |-> 0]]
      BY <1>3 DEF AriaStart, AriaOK
    <2>2. aria.sess + 1 \in 1..MaxSession
      BY <2>1, <1>1 DEF AriaOK
    <2>3. AriaOK' /\ aria'.sess = aria.sess + 1 /\ Session' = aria.sess + 1
      BY <2>1, <2>2 DEF AriaOK, Session
    <2> QED
      BY <2>3, <1>1 DEF SeenSession
  <1>4. CASE \E g \in Gids : Reseed(g)
    <2>1. PICK g \in Gids : aria' = [up |-> aria.up, sess |-> aria.sess, block |-> aria.block,
                                     gids |-> {g}, opt |-> aria.opt]
      BY <1>4 DEF Reseed, AriaOK
    <2> QED
      BY <2>1 DEF AriaOK, SeenSession, Session
  <1> QED
    BY <1>2, <1>3, <1>4

\* aria2 stops, starts with a new session, or gets a new download.
LEMMA AriaMoves ==
    ASSUME BlockInductive, AriaStop \/ AriaStart \/ \E g \in Gids : Reseed(g)
    PROVE  BlockInductive'
  <1>1. UNCHANGED <<pf, eps, pend, live, creds, ctl, app, stat, qstat, trk, ops>>
    BY DEF AriaStop, AriaStart, Reseed
  <1>2. PolicyOK' /\ Outboxes' /\ ObservedOK' /\ DecidedOK' /\ StatusOK'
    BY <1>1, PolicyRests, ObservedRests, DecidedRests, StatusRests DEF BlockInductive
  <1>3. AriaOK /\ TrackerOK /\ PassOK /\ Memory
    BY DEF BlockInductive
  <1>4. /\ \A x : SeenSession(x) => (x = None \/ x \in 1..aria'.sess)
        /\ \/ /\ aria'.block = aria.block /\ aria'.opt = aria.opt
              /\ Session' = Session \/ Session' = None
           \/ \A x : SeenSession(x) /\ x # None => x # Session'
        /\ AriaOK'
    BY <1>3, SessionMoves
  <1>5. TrackerOK'
    BY <1>1, <1>3, <1>4 DEF TrackerOK, SeenSession
  <1>6. PassOK'
    BY <1>1, <1>3, <1>4 DEF PassOK, BlindPass, FullPass, CommonOK, Report, SeenSession
  <1>7. Memory'
    <2>1. SeenSession(trk.lastS) /\ SeenSession(trk.qS)
      BY <1>3 DEF TrackerOK
    <2>2. trk.at \in {"apply", "call", "finish"} => SeenSession(trk.p.sess)
      BY <1>3 DEF PassOK, BlindPass, FullPass, CommonOK
    <2> QED
      BY <1>1, <1>3, <1>4, <2>1, <2>2 DEF Memory, BlockKnown, QosKnown
  <1> QED
    BY <1>2, <1>4, <1>5, <1>6, <1>7 DEF BlockInductive

\* A tracker that starts again remembers nothing.
LEMMA Restarted ==
    ASSUME BlockInductive, TrackerRestart
    PROVE  BlockInductive'
  <1>1. UNCHANGED <<pf, eps, creds, ctl, app, stat, qstat, aria, ops>> /\ trk' = FreshTracker /\ live' = {}
    BY DEF TrackerRestart
  <1>2. PolicyOK' /\ Outboxes' /\ DecidedOK' /\ StatusOK'
    BY <1>1, PolicyRests, DecidedRests, StatusRests DEF BlockInductive
  <1>3. ObservedOK'
    BY <1>1 DEF TrackerRestart, ObservedOK, BlockInductive
  <1>4. AriaOK'
    BY <1>1 DEF AriaOK, BlockInductive
  <1>5. TrackerOK' /\ PassOK' /\ Memory'
    BY <1>1 DEF FreshTracker, TrackerOK, PassOK, Memory, BlockKnown, QosKnown, SeenSession, PassSteps
  <1> QED
    BY <1>2, <1>3, <1>4, <1>5 DEF BlockInductive

----------------------------------------------------------------------------
(* The pass.                                                               *)

\* The session a pass asks for is one there has been.
LEMMA SessionSeen ==
    ASSUME AriaOK
    PROVE  SeenSession(Session)
  BY DEF AriaOK, SeenSession, Session

\* PassReads with its list named by what Runtime.prepare makes of the reads.
PassHolds(res, rev, wrote, gone, prune) ==
    LET e1 == IF wrote
              THEN [p \in Principals |-> IF pend[p] = None THEN eps[p]
                                         ELSE record_endpoint(eps[p], pend[p], gone[p])]
              ELSE eps
        e2 == IF prune THEN Pruned(e1, res, rev) ELSE e1
        left == IF wrote THEN [p \in Principals |-> None] ELSE pend
        dur == fresh_endpoints(e2, res, rev)
        base == derive_denied_set(res, dur, pend, live, rev)
        org == Prepare(res, dur, pend, rev, base.block)
        list == IF org.list = None THEN base.block ELSE org.list
    IN  /\ eps' = e2 /\ pend' = left
        /\ trk' = [trk EXCEPT !.at = "qos", !.known = rev,
             !.p = [blind |-> FALSE, res |-> res, rows |-> e2, queue |-> pend, live |-> live,
                    waiting |-> \E p \in Principals : left[p] # None,
                    closed |-> base.closed, mixed |-> base.shared # {}, org |-> org,
                    list |-> list, sess |-> Session, out |-> "none",
                    force |-> \/ trk.lastH = None \/ Session # trk.lastS \/ ~trk.ok
                              \/ list # trk.lastH
                              \/ /\ org.on
                                 /\ IF org.app.last = None THEN TRUE
                                    ELSE org.app.last.rev # load_control.rev,
                    qos |-> None, qout |-> "none"]]

LEMMA PassReadsHolds ==
    ASSUME NEW res, NEW rev, NEW wrote, NEW gone, NEW prune, PassReads(res, rev, wrote, gone, prune)
    PROVE  PassHolds(res, rev, wrote, gone, prune)
  <1> DEFINE e1 == IF wrote
                   THEN [p \in Principals |-> IF pend[p] = None THEN eps[p]
                                              ELSE record_endpoint(eps[p], pend[p], gone[p])]
                   ELSE eps
             e2 == IF prune THEN Pruned(e1, res, rev) ELSE e1
             left == IF wrote THEN [p \in Principals |-> None] ELSE pend
             dur == fresh_endpoints(e2, res, rev)
             base == derive_denied_set(res, dur, pend, live, rev)
             made == Prepare(res, dur, pend, rev, base.block)
             list(org) == IF org.list = None THEN base.block ELSE org.list
             read(org) == [trk EXCEPT !.at = "qos", !.known = rev,
               !.p = [blind |-> FALSE, res |-> res, rows |-> e2, queue |-> pend, live |-> live,
                    waiting |-> \E p \in Principals : left[p] # None,
                    closed |-> base.closed, mixed |-> base.shared # {}, org |-> org,
                    list |-> list(org), sess |-> Session, out |-> "none",
                    force |-> \/ trk.lastH = None \/ Session # trk.lastS \/ ~trk.ok
                              \/ list(org) # trk.lastH
                              \/ /\ org.on
                                 /\ IF org.app.last = None THEN TRUE
                                    ELSE org.app.last.rev # load_control.rev,
                    qos |-> None, qout |-> "none"]]
  <1>1. \E org \in {made} : eps' = e2 /\ pend' = left /\ trk' = read(org)
    BY Zenon DEF PassReads
  <1> HIDE DEF read, made, left, e2
  <1>2. eps' = e2 /\ pend' = left /\ trk' = read(made)
    BY <1>1
  <1> QED
    BY Zenon, <1>2 DEF PassHolds, read, made, left, e2

\* run_once up to the first call.
LEMMA PassBegins ==
    ASSUME BlockInductive, PassBegin
    PROVE  BlockInductive'
  <1> DEFINE f == InitializeIfAbsent(pf)
             res == load_policy(f)
             rev == RevokedView
  <1>1. /\ trk.at = "idle" /\ pf' = f
        /\ UNCHANGED <<live, creds, ctl, app, stat, qstat, aria, ops>>
    BY DEF PassBegin
  <1>2. PolicyOK' /\ Outboxes' /\ DecidedOK' /\ StatusOK'
    BY <1>1, PolicyStarts, DecidedRests, StatusRests DEF BlockInductive
  <1>3. AriaOK'
    BY <1>1 DEF AriaOK, BlockInductive
  <1>4. res \in Results
    BY Initialized, LoadedPolicy DEF BlockInductive, PolicyOK
  <1>5. rev \in SUBSET Devices
    BY DEF RevokedView, BlockInductive, ObservedOK, TrackerOK
  <1>6. PICK wrote, prune, gone : PassReads(res, rev, wrote, gone, prune)
    BY DEF PassBegin
  <1> HIDE DEF f, res, rev
  <1> DEFINE e1 == IF wrote
                   THEN [p \in Principals |-> IF pend[p] = None THEN eps[p]
                                              ELSE record_endpoint(eps[p], pend[p], gone[p])]
                   ELSE eps
             e2 == IF prune THEN Pruned(e1, res, rev) ELSE e1
             left == IF wrote THEN [p \in Principals |-> None] ELSE pend
             dur == fresh_endpoints(e2, res, rev)
             base == derive_denied_set(res, dur, pend, live, rev)
             org == Prepare(res, dur, pend, rev, base.block)
             list == IF org.list = None THEN base.block ELSE org.list
             force == \/ trk.lastH = None \/ Session # trk.lastS \/ ~trk.ok
                      \/ list # trk.lastH
                      \/ /\ org.on
                         /\ IF org.app.last = None THEN TRUE
                            ELSE org.app.last.rev # load_control.rev
             waiting == \E p \in Principals : left[p] # None
             mixed == base.shared # {}
  <1>7. /\ eps' = e2 /\ pend' = left
        /\ trk' = [trk EXCEPT !.at = "qos", !.known = rev,
             !.p = [blind |-> FALSE, res |-> res, rows |-> e2, queue |-> pend, live |-> live, waiting |-> waiting,
                    closed |-> base.closed, mixed |-> mixed, org |-> org,
                    list |-> list, sess |-> Session, out |-> "none", force |-> force,
                    qos |-> None, qout |-> "none"]]
    <2>1. PassHolds(res, rev, wrote, gone, prune)
      BY <1>6, PassReadsHolds
    <2> QED
      BY Zenon, <2>1 DEF PassHolds
  <1>8. e1 \in [Principals -> [Ips -> {"none", "fresh", "old"}]]
    <2>1. \A p \in Principals : record_endpoint(eps[p], pend[p], gone[p]) \in [Ips -> {"none", "fresh", "old"}]
      BY RecordedRow DEF BlockInductive, ObservedOK
    <2> QED
      BY <2>1 DEF BlockInductive, ObservedOK
  <1>9. e2 \in [Principals -> [Ips -> {"none", "fresh", "old"}]]
    <2> HIDE DEF e1
    <2> QED
      BY <1>8 DEF Pruned
  <1>10. left \in [Principals -> Ips \cup {None}]
    BY DEF BlockInductive, ObservedOK
  <1>11. ObservedOK'
    <2> HIDE DEF e2, left
    <2> QED
      BY <1>1, <1>7, <1>9, <1>10 DEF BlockInductive, ObservedOK
  <1>12. base.block \in SUBSET Blockable
    BY DerivedBlockable
  <1>13. OriginOK(org)
    BY <1>12, Prepared DEF BlockInductive, DecidedOK
  <1>14. list \in SUBSET Blockable
    <2> HIDE DEF base, org
    <2> QED
      BY <1>12, <1>13 DEF OriginOK
  <1>15. SeenSession(Session)
    BY SessionSeen DEF BlockInductive
  <1> HIDE DEF e2, left, base, org, list, force, waiting, mixed
  <1> DEFINE q == [blind |-> FALSE, res |-> res, rows |-> e2, queue |-> pend, live |-> live, waiting |-> waiting,
                   closed |-> base.closed, mixed |-> mixed, org |-> org,
                   list |-> list, sess |-> Session, out |-> "none", force |-> force,
                   qos |-> None, qout |-> "none"]
  <1>16. FullPass(q) /\ q.qout = "none" /\ q.out = "none"
    BY <1>4, <1>13, <1>14, <1>15 DEF FullPass, CommonOK
  <1>17. /\ DOMAIN trk' = DOMAIN trk /\ trk'.at = "qos" /\ trk'.known = rev
         /\ trk'.lastH = trk.lastH /\ trk'.lastS = trk.lastS /\ trk'.ok = trk.ok
         /\ trk'.qH = trk.qH /\ trk'.qS = trk.qS /\ trk'.qOk = trk.qOk /\ trk'.p = q
    <2>1. trk' = [trk EXCEPT !.at = "qos", !.known = rev, !.p = q]
      BY <1>7
    <2> HIDE DEF q
    <2> QED
      BY <2>1 DEF BlockInductive, TrackerOK
  <1> HIDE DEF q
  <1>18. TrackerOK'
    BY <1>1, <1>5, <1>17 DEF BlockInductive, TrackerOK, SeenSession, PassSteps
  <1>19. PassOK'
    <2>1. trk'.p = q /\ trk'.at = "qos"
      BY <1>17
    <2>2. FullPass(trk.p)'
      BY <1>1, <1>16, <2>1 DEF FullPass, CommonOK, SeenSession
    <2> QED
      BY <1>16, <2>1, <2>2 DEF PassOK
  <1>20. Memory'
    BY <1>1, <1>17 DEF BlockInductive, Memory, BlockKnown, QosKnown, Session
  <1> QED
    BY <1>2, <1>3, <1>11, <1>18, <1>19, <1>20 DEF BlockInductive

\* A pass that cannot read the endpoints.
LEMMA PassStartsBlind ==
    ASSUME BlockInductive, PassStoreUnreadable
    PROVE  BlockInductive'
  <1> DEFINE res == load_policy(pf')
             q == [blind |-> TRUE, res |-> res, sess |-> Session, qos |-> None, qout |-> "none"]
  <1>1. /\ trk.at = "idle" /\ pf' = InitializeIfAbsent(pf)
        /\ trk' = [trk EXCEPT !.at = "qos", !.known = RevokedView, !.p = q]
        /\ UNCHANGED <<eps, pend, live, creds, ctl, app, stat, qstat, aria, ops>>
    BY DEF PassStoreUnreadable
  <1>2. PolicyOK' /\ Outboxes' /\ ObservedOK' /\ DecidedOK' /\ StatusOK'
    BY <1>1, PolicyStarts, ObservedRests, DecidedRests, StatusRests DEF BlockInductive
  <1>3. AriaOK'
    BY <1>1 DEF AriaOK, BlockInductive
  <1>4. res \in Results
    BY <1>2, LoadedPolicy DEF PolicyOK
  <1>5. RevokedView \in SUBSET Devices
    BY DEF RevokedView, BlockInductive, ObservedOK, TrackerOK
  <1>6. SeenSession(Session)
    BY SessionSeen DEF BlockInductive
  <1> HIDE DEF res
  <1>7. BlindPass(q) /\ q.qout = "none" /\ q.blind
    BY <1>4, <1>6 DEF BlindPass, CommonOK
  <1> HIDE DEF q
  <1>8. /\ DOMAIN trk' = DOMAIN trk /\ trk'.at = "qos" /\ trk'.known = RevokedView
         /\ trk'.lastH = trk.lastH /\ trk'.lastS = trk.lastS /\ trk'.ok = trk.ok
         /\ trk'.qH = trk.qH /\ trk'.qS = trk.qS /\ trk'.qOk = trk.qOk /\ trk'.p = q
    BY <1>1 DEF BlockInductive, TrackerOK
  <1>9. TrackerOK'
    BY <1>1, <1>5, <1>8 DEF BlockInductive, TrackerOK, SeenSession, PassSteps
  <1>10. PassOK'
    <2>1. trk'.p = q /\ trk'.at = "qos"
      BY <1>8
    <2>2. BlindPass(trk.p)'
      BY <1>1, <1>7, <2>1 DEF BlindPass, CommonOK, SeenSession
    <2> QED
      BY <1>7, <2>1, <2>2 DEF PassOK
  <1>11. Memory'
    BY <1>1, <1>8 DEF BlockInductive, Memory, BlockKnown, QosKnown, Session
  <1> QED
    BY <1>2, <1>3, <1>9, <1>10, <1>11 DEF BlockInductive

\* The rate limits are looked after.
LEMMA PassLimits ==
    ASSUME BlockInductive, PassQos
    PROVE  BlockInductive'
  <1> DEFINE p == trk.p
             want == IF aria.up THEN [val |-> p.res.doc.qos, gids |-> aria.gids] ELSE None
  <1>1. /\ trk.at = "qos"
        /\ UNCHANGED <<pf, eps, pend, live, creds, ctl, app, stat, qstat, ops>>
    BY Zenon DEF PassQos
  <1>2. PolicyOK' /\ Outboxes' /\ ObservedOK' /\ DecidedOK' /\ StatusOK'
    BY <1>1, PolicyRests, ObservedRests, DecidedRests, StatusRests DEF BlockInductive
  <1>3. (BlindPass(p) \/ FullPass(p)) /\ p.qout = "none" /\ (~p.blind => p.out = "none")
    BY <1>1 DEF BlockInductive, PassOK
  <1>4. /\ TrackerOK /\ AriaOK /\ Memory
        /\ {"qos", "qout"} \subseteq DOMAIN p /\ "p" \in DOMAIN trk
    BY <1>3 DEF BlockInductive, BlindPass, FullPass, TrackerOK
  <1>5. /\ DOMAIN trk' = DOMAIN trk /\ trk'.at = "apply" /\ trk'.known = trk.known
        /\ trk'.lastH = trk.lastH /\ trk'.lastS = trk.lastS /\ trk'.ok = trk.ok
        /\ trk'.qH = trk.qH /\ trk'.qS = trk.qS /\ trk'.qOk \in {trk.qOk, FALSE}
        /\ DOMAIN trk'.p = DOMAIN p /\ trk'.p.qos = want
        /\ \A x \in DOMAIN p \ {"qos", "qout"} : trk'.p[x] = p[x]
        /\ \/ trk'.p.qout \in {"none", "refused"} /\ UNCHANGED aria
           \/ /\ trk'.p.qout = "fail"
              /\ aria' = aria \/ \E opt : aria' = [aria EXCEPT !.opt = opt]
           \/ /\ trk'.p.qout = "ok" /\ aria.up
              /\ \E opt : /\ aria' = [aria EXCEPT !.opt = opt]
                          /\ \A g \in aria.gids : opt[g] = p.res.doc.qos
    <2>1. CASE /\ trk' = [trk EXCEPT !.at = "apply", !.qOk = FALSE, !.p.qos = want, !.p.qout = "refused"]
               /\ UNCHANGED aria
      <3> HIDE DEF want
      <3> QED
        BY <2>1, <1>4 DEF TrackerOK
    <2>2. CASE trk' = [trk EXCEPT !.at = "apply", !.p.qos = want] /\ UNCHANGED aria
      <3> HIDE DEF want
      <3> QED
        BY <2>2, <1>3, <1>4 DEF TrackerOK
    <2>3. CASE /\ want # None
               /\ \E done \in SUBSET want.gids :
                    /\ aria' = IF p.sess = None THEN aria
                               ELSE [aria EXCEPT !.opt = [g \in Gids |->
                                        IF g \in done THEN want.val ELSE @[g]]]
                    /\ trk' = [trk EXCEPT !.at = "apply", !.p.qos = want,
                                 !.p.qout = IF done = want.gids /\ p.sess # None THEN "ok" ELSE "fail"]
      <3>1. PICK done \in SUBSET want.gids :
                    /\ aria' = IF p.sess = None THEN aria
                               ELSE [aria EXCEPT !.opt = [g \in Gids |->
                                        IF g \in done THEN want.val ELSE @[g]]]
                    /\ trk' = [trk EXCEPT !.at = "apply", !.p.qos = want,
                                 !.p.qout = IF done = want.gids /\ p.sess # None THEN "ok" ELSE "fail"]
        BY Zenon, <2>3
      <3>2. aria.up /\ want.val = p.res.doc.qos /\ want.gids = aria.gids /\ aria.gids \in SUBSET Gids
        BY <2>3, <1>4 DEF AriaOK
      <3> DEFINE opt == [g \in Gids |-> IF g \in done THEN want.val ELSE aria.opt[g]]
      <3> HIDE DEF want
      <3>3. CASE done = want.gids /\ p.sess # None
        <4>1. aria' = [aria EXCEPT !.opt = opt] /\ \A g \in aria.gids : opt[g] = p.res.doc.qos
          BY <3>1, <3>2, <3>3
        <4>2. trk' = [trk EXCEPT !.at = "apply", !.p.qos = want, !.p.qout = "ok"]
          BY <3>1, <3>3
        <4> HIDE DEF opt
        <4> QED
          BY <4>1, <4>2, <3>2, <1>4 DEF TrackerOK
      <3>4. CASE ~(done = want.gids /\ p.sess # None)
        <4>1. aria' = aria \/ aria' = [aria EXCEPT !.opt = opt]
          BY <3>1
        <4>2. trk' = [trk EXCEPT !.at = "apply", !.p.qos = want, !.p.qout = "fail"]
          BY <3>1, <3>4
        <4> HIDE DEF opt
        <4> QED
          BY <4>1, <4>2, <1>4 DEF TrackerOK
      <3> QED
        BY <3>3, <3>4
    <2> QED
      BY Zenon, <2>1, <2>2, <2>3 DEF PassQos
  <1> HIDE DEF want
  <1>6. /\ aria'.up = aria.up /\ aria'.sess = aria.sess /\ aria'.block = aria.block
        /\ aria'.gids = aria.gids /\ AriaOK'
    BY <1>4, <1>5 DEF AriaOK
  <1>7. Session' = Session /\ \A x : SeenSession(x) => (x = None \/ x \in 1..aria'.sess)
    BY <1>6 DEF Session, SeenSession
  <1>8. TrackerOK'
    BY <1>4, <1>5, <1>7 DEF TrackerOK, SeenSession, PassSteps
  <1>9. /\ trk'.p.sess = p.sess /\ trk'.p.res = p.res /\ trk'.p.blind = p.blind
        /\ trk'.p.qout \in {"none", "refused", "ok", "fail"}
    BY <1>3, <1>5 DEF BlindPass, FullPass
  <1>10. PassOK'
    <2>1. CASE BlindPass(p)
      <3>1. BlindPass(trk.p)'
        BY <2>1, <1>5, <1>7, <1>9 DEF BlindPass, CommonOK, SeenSession
      <3> QED
        BY <3>1, <1>5 DEF PassOK, BlindPass
    <2>2. CASE FullPass(p)
      <3>1. trk'.p.list = p.list /\ trk'.p.org = p.org /\ trk'.p.out = p.out
        BY <2>2, <1>5 DEF FullPass
      <3>2. FullPass(trk.p)'
        BY <2>2, <1>5, <1>7, <1>9, <3>1 DEF FullPass, CommonOK, SeenSession
      <3> QED
        BY <3>1, <3>2, <2>2, <1>3, <1>5 DEF PassOK, FullPass
    <2> QED
      BY <2>1, <2>2, <1>3
  <1>11. Memory'
    <2>1. /\ trk.ok => trk.lastS # None
          /\ trk.qOk => trk.qS # None
          /\ BlockKnown /\ QosKnown
      BY <1>1, <1>4 DEF Memory
    <2>2. BlockKnown'
      BY <2>1, <1>5, <1>6, <1>7 DEF BlockKnown
    <2>3. trk'.p.qout = "none" => QosKnown'
      BY <2>1, <1>5, <1>7 DEF QosKnown
    <2>4. trk'.p.qout = "ok" => \A g \in trk'.p.qos.gids : aria'.opt[g] = trk'.p.qos.val
      <3>1. ASSUME trk'.p.qout = "ok" PROVE \A g \in want.gids : aria'.opt[g] = want.val
        <4>1. aria.up
          BY <3>1, <1>5
        <4>2. want.gids = aria.gids /\ want.val = p.res.doc.qos
          BY <4>1 DEF want
        <4>3. PICK opt : aria' = [aria EXCEPT !.opt = opt] /\ \A g \in aria.gids : opt[g] = p.res.doc.qos
          BY <3>1, <1>5
        <4>4. aria'.opt = opt
          BY <4>3, <1>4 DEF AriaOK
        <4> QED
          BY <4>2, <4>3, <4>4
      <3> QED
        BY <3>1, <1>5
    <2> QED
      BY <2>1, <2>2, <2>3, <2>4, <1>4, <1>5, <1>9 DEF Memory, TrackerOK
  <1> QED
    BY <1>2, <1>6, <1>8, <1>10, <1>11 DEF BlockInductive

\* What the steps around the call keep: they change only the application, the
\* outcome and the restrictions of the pass.
LEMMA CallKeeps ==
    ASSUME BlockInductive, trk.at \in {"apply", "call"}, FullPass(trk.p),
           UNCHANGED <<pf, eps, pend, live, creds, ctl, stat, qstat, ops>>,
           app' = app \/ JournalOK(app'),
           trk'.at \in {"call", "finish"}, DOMAIN trk' = DOMAIN trk,
           \A x \in DOMAIN trk \ {"at", "p"} : trk'[x] = trk[x],
           DOMAIN trk'.p = DOMAIN trk.p,
           \A x \in DOMAIN trk.p \ {"org", "out"} : trk'.p[x] = trk.p[x],
           OriginOK(trk'.p.org), trk'.p.out \in {"none", "ok", "failed", "skipped"},
           trk'.at = "call" => trk'.p.out = "none",
           aria' = aria \/ (aria.up /\ aria' = [aria EXCEPT !.block = trk.p.list]),
           trk'.at = "call" \/ trk'.p.out \in {"none", "skipped"} => aria' = aria,
           trk'.p.out = "ok" => aria'.block = trk.p.list
    PROVE  BlockInductive'
  <1>1. PolicyOK' /\ Outboxes' /\ ObservedOK' /\ StatusOK'
    BY PolicyRests, ObservedRests, StatusRests DEF BlockInductive
  <1>2. DecidedOK'
    BY DEF DecidedOK, BlockInductive
  <1>3. /\ aria'.up = aria.up /\ aria'.sess = aria.sess /\ aria'.opt = aria.opt
        /\ aria'.gids = aria.gids /\ AriaOK'
    BY DEF BlockInductive, AriaOK, FullPass
  <1>4. Session' = Session /\ \A x : SeenSession(x) => (x = None \/ x \in 1..aria'.sess)
    BY <1>3 DEF Session, SeenSession
  <1>5. /\ trk'.known = trk.known /\ trk'.lastH = trk.lastH /\ trk'.lastS = trk.lastS
        /\ trk'.ok = trk.ok /\ trk'.qH = trk.qH /\ trk'.qS = trk.qS /\ trk'.qOk = trk.qOk
    BY DEF BlockInductive, TrackerOK
  <1>6. TrackerOK'
    BY <1>4, <1>5 DEF BlockInductive, TrackerOK, SeenSession, PassSteps
  <1>7. /\ trk'.p.blind = trk.p.blind /\ trk'.p.res = trk.p.res /\ trk'.p.list = trk.p.list
        /\ trk'.p.sess = trk.p.sess /\ trk'.p.qos = trk.p.qos /\ trk'.p.qout = trk.p.qout
    BY DEF FullPass
  <1>8. FullPass(trk.p)'
    BY <1>4, <1>7 DEF FullPass, CommonOK, SeenSession
  <1>9. PassOK'
    BY <1>8 DEF PassOK
  <1>10. Memory'
    <2>1. /\ trk.ok => trk.lastS # None
          /\ trk.qOk => trk.qS # None
          /\ BlockKnown
          /\ trk.p.qout = "none" => QosKnown
          /\ trk.p.qout = "ok" /\ trk.p.sess # None /\ trk.p.sess = Session =>
               \A g \in trk.p.qos.gids : aria.opt[g] = trk.p.qos.val
      BY DEF BlockInductive, Memory
    <2>2. trk'.p.qout = "none" => QosKnown'
      BY <2>1, <1>3, <1>4, <1>5, <1>7 DEF QosKnown
    <2>3. aria' = aria => BlockKnown'
      BY <2>1, <1>4, <1>5 DEF BlockKnown
    <2> QED
      BY <2>1, <2>2, <2>3, <1>3, <1>4, <1>5, <1>7 DEF Memory
  <1> QED
    BY <1>1, <1>2, <1>3, <1>6, <1>9, <1>10 DEF BlockInductive

\* Nothing is applied.
LEMMA PassSkips ==
    ASSUME BlockInductive, PassNoApply
    PROVE  BlockInductive'
  <1>1. /\ trk.at = "apply" /\ ~trk.p.blind
        /\ UNCHANGED <<pf, eps, pend, live, creds, ctl, app, stat, qstat, aria, ops>>
    BY DEF PassNoApply
  <1>2. FullPass(trk.p) /\ trk.p.out = "none"
    BY <1>1 DEF BlockInductive, PassOK, BlindPass
  <1>3. /\ {"at", "p"} \subseteq DOMAIN trk /\ {"org", "out"} \subseteq DOMAIN trk.p
        /\ "reason" \in DOMAIN trk.p.org
    BY <1>2 DEF BlockInductive, TrackerOK, FullPass, OriginOK
  <1>4. /\ trk'.at = "finish" /\ DOMAIN trk' = DOMAIN trk
        /\ \A x \in DOMAIN trk \ {"at", "p"} : trk'[x] = trk[x]
        /\ DOMAIN trk'.p = DOMAIN trk.p
        /\ \A x \in DOMAIN trk.p \ {"org", "out"} : trk'.p[x] = trk.p[x]
        /\ OriginOK(trk'.p.org) /\ trk'.p.out \in {"none", "skipped"}
    <2>1. CASE trk' = [trk EXCEPT !.at = "finish"]
      BY <2>1, <1>2, <1>3 DEF FullPass
    <2>2. CASE trk' = [trk EXCEPT !.at = "finish", !.p.org.reason = "application_state_unavailable"]
      <3>1. trk'.p = [trk.p EXCEPT !.org = [trk.p.org EXCEPT !.reason = "application_state_unavailable"]]
        BY <2>2, <1>3
      <3>2. trk'.p.org = [trk.p.org EXCEPT !.reason = "application_state_unavailable"]
        BY <3>1, <1>3
      <3>3. OriginOK(trk'.p.org)
        BY <3>2, <1>2 DEF FullPass, OriginOK
      <3> QED
        BY <2>2, <3>1, <3>3, <1>2, <1>3
    <2>3. CASE trk' = [trk EXCEPT !.at = "finish", !.p.out = "skipped"]
      BY <2>3, <1>2, <1>3 DEF FullPass
    <2> QED
      BY <2>1, <2>2, <2>3 DEF PassNoApply
  <1> QED
    BY <1>1, <1>2, <1>4, CallKeeps

\* The attempt is written down.
LEMMA PassJournals ==
    ASSUME BlockInductive, PassJournal
    PROVE  BlockInductive'
  <1>1. /\ trk.at = "apply" /\ ~trk.p.blind
        /\ UNCHANGED <<pf, eps, pend, live, creds, ctl, stat, qstat, aria, ops>>
    BY DEF PassJournal
  <1>2. FullPass(trk.p) /\ trk.p.out = "none"
    BY <1>1 DEF BlockInductive, PassOK, BlindPass
  <1>3. /\ {"at", "p"} \subseteq DOMAIN trk /\ {"org", "out"} \subseteq DOMAIN trk.p
        /\ "app" \in DOMAIN trk.p.org /\ JournalOK(trk.p.org.app)
    BY <1>2 DEF BlockInductive, TrackerOK, FullPass, OriginOK
  <1> DEFINE tried == [trk.p.org.app EXCEPT !.intent = Row(trk.p)]
             kept == IF trk.p.org.on THEN app' ELSE trk.p.org.app
  <1>4. /\ app' = IF trk.p.org.on THEN tried ELSE app
        /\ trk' = [trk EXCEPT !.at = "call", !.p.org.app = kept]
    BY DEF PassJournal, JournalsFirst
  <1>5. JournalOK(tried)
    BY <1>3 DEF JournalOK
  <1> HIDE DEF tried
  <1>6. JournalOK(kept) /\ (app' = app \/ JournalOK(app'))
    BY <1>3, <1>4, <1>5
  <1> HIDE DEF kept
  <1>7. trk'.p = [trk.p EXCEPT !.org = [trk.p.org EXCEPT !.app = kept]]
    BY <1>3, <1>4
  <1>8. trk'.p.org = [trk.p.org EXCEPT !.app = kept]
    BY <1>3, <1>7
  <1>9. OriginOK(trk'.p.org)
    BY <1>2, <1>6, <1>8 DEF FullPass, OriginOK
  <1>10. /\ trk'.at = "call" /\ DOMAIN trk' = DOMAIN trk
         /\ \A x \in DOMAIN trk \ {"at", "p"} : trk'[x] = trk[x]
         /\ DOMAIN trk'.p = DOMAIN trk.p
         /\ \A x \in DOMAIN trk.p \ {"org", "out"} : trk'.p[x] = trk.p[x]
         /\ trk'.p.out = "none"
    BY <1>2, <1>3, <1>4, <1>7
  <1> QED
    BY <1>1, <1>2, <1>6, <1>9, <1>10, CallKeeps

\* The call.
LEMMA PassCalls ==
    ASSUME BlockInductive, PassCall
    PROVE  BlockInductive'
  <1>1. /\ trk.at = "call"
        /\ UNCHANGED <<pf, eps, pend, live, creds, ctl, app, stat, qstat, ops>>
    BY DEF PassCall
  <1>2. FullPass(trk.p) /\ OriginOK(trk.p.org)
    BY <1>1 DEF BlockInductive, PassOK, FullPass
  <1>3. /\ {"at", "p"} \subseteq DOMAIN trk /\ {"org", "out"} \subseteq DOMAIN trk.p
        /\ "block" \in DOMAIN aria
    BY <1>2 DEF BlockInductive, TrackerOK, FullPass, AriaOK
  <1>4. PICK o \in {"ok", "failed"} :
           /\ trk' = [trk EXCEPT !.at = "finish", !.p.out = o]
           /\ aria' = aria \/ (aria.up /\ aria' = [aria EXCEPT !.block = trk.p.list])
           /\ o = "ok" => aria' = [aria EXCEPT !.block = trk.p.list]
    BY DEF PassCall
  <1>5. /\ trk'.at = "finish" /\ DOMAIN trk' = DOMAIN trk
        /\ \A x \in DOMAIN trk \ {"at", "p"} : trk'[x] = trk[x]
        /\ DOMAIN trk'.p = DOMAIN trk.p
        /\ \A x \in DOMAIN trk.p \ {"org", "out"} : trk'.p[x] = trk.p[x]
        /\ trk'.p.org = trk.p.org /\ trk'.p.out = o
    BY <1>3, <1>4
  <1>6. o = "ok" => aria'.block = trk.p.list
    BY <1>3, <1>4
  <1> QED
    BY <1>1, <1>2, <1>4, <1>5, <1>6, CallKeeps

\* A rate limit is called enforced only in the session it was asked in, and then
\* what is remembered of it from now on is what aria2 holds.
LEMMA LimitsRemembered ==
    ASSUME BlockInductive, trk.at \in {"apply", "finish"},
           BlindPass(trk.p) \/ FullPass(trk.p), UNCHANGED aria,
           NEW stable, stable = SessionStable(trk.p),
           trk'.qOk = (QosStatus(trk.p, stable).state = "enforced"),
           trk'.qS = IF stable /\ trk.p.qout = "ok" THEN trk.p.sess ELSE trk.qS,
           trk'.qH = IF stable /\ trk.p.qout = "ok" THEN trk.p.qos ELSE trk.qH
    PROVE  /\ QosStatus(trk.p, stable).state \in States
           /\ trk'.qOk \in BOOLEAN /\ SeenSession(trk.qS)'
           /\ trk'.qOk => trk'.qS # None
           /\ QosKnown'
  <1> DEFINE p == trk.p
             sound == /\ stable /\ p.qout # "refused"
                      /\ p.qout = "ok" \/ (p.qout = "none" /\ trk.qOk /\ p.qos = trk.qH)
  <1>1. /\ SeenSession(p.sess) /\ SeenSession(trk.qS)
        /\ p.qout \in {"none", "refused", "ok", "fail"}
    BY DEF BlindPass, FullPass, CommonOK, BlockInductive, TrackerOK
  <1>2. stable => p.sess # None /\ Session = p.sess
    BY DEF SessionStable
  <1>3. QosStatus(p, stable).state = IF sound THEN "enforced"
                                     ELSE IF p.sess = None THEN "rpc_unavailable" ELSE "degraded"
    BY DEF QosStatus
  <1>4. trk'.qOk = sound
    BY <1>3
  <1>5. /\ trk.qOk => trk.qS # None
        /\ p.qout = "none" => QosKnown
        /\ p.qout = "ok" /\ p.sess # None /\ p.sess = Session =>
             \A g \in p.qos.gids : aria.opt[g] = p.qos.val
    BY DEF BlockInductive, Memory
  <1>6. Session' = Session
    BY DEF Session
  <1>7. QosStatus(p, stable).state \in States
    BY <1>3 DEF States
  <1>8. SeenSession(trk.qS)'
    BY <1>1 DEF SeenSession
  <1> HIDE DEF p
  <1>9. CASE sound /\ p.qout = "ok"
    <2>1. trk'.qS = p.sess /\ trk'.qH = p.qos
      BY <1>9 DEF p
    <2> QED
      BY <2>1, <1>2, <1>4, <1>5, <1>6, <1>7, <1>8, <1>9 DEF QosKnown, p
  <1>10. CASE sound /\ p.qout # "ok"
    <2>1. trk'.qS = trk.qS /\ trk'.qH = trk.qH /\ trk.qOk /\ p.qout = "none"
      BY <1>10 DEF p
    <2> QED
      BY <2>1, <1>4, <1>5, <1>6, <1>7, <1>8, <1>10 DEF QosKnown, p
  <1>11. CASE ~sound
    BY <1>4, <1>7, <1>8, <1>11 DEF QosKnown, p
  <1> QED
    BY <1>9, <1>10, <1>11

\* The end of a pass without endpoints.
LEMMA PassEndsBlind ==
    ASSUME BlockInductive, PassBlind
    PROVE  BlockInductive'
  <1> DEFINE p == trk.p
             stable == SessionStable(p)
             q == QosStatus(p, stable)
             applied == stable /\ p.qout = "ok"
             ack == [rev |-> effective_acked(p.res.doc, stat.ack), epoch |-> p.res.doc.epoch]
  <1>1. /\ trk.at = "apply" /\ p.blind
        /\ UNCHANGED <<pf, eps, pend, live, creds, ctl, app, aria, ops>>
        /\ qstat' = q
        /\ stat' = [stat EXCEPT !.state = "fail_closed", !.ack = ack]
        /\ trk' = [trk EXCEPT !.at = "idle", !.p = NoRead, !.qOk = q.state = "enforced",
                        !.qS = IF applied THEN p.sess ELSE @, !.qH = IF applied THEN p.qos ELSE @]
    BY DEF PassBlind
  <1>2. PolicyOK' /\ Outboxes' /\ ObservedOK' /\ DecidedOK'
    BY <1>1, PolicyRests, ObservedRests, DecidedRests DEF BlockInductive
  <1>3. BlindPass(p) \/ FullPass(p)
    BY <1>1 DEF BlockInductive, PassOK
  <1> HIDE DEF ack
  <1>4. /\ DOMAIN trk' = DOMAIN trk /\ trk'.at = "idle" /\ trk'.known = trk.known
        /\ trk'.lastH = trk.lastH /\ trk'.lastS = trk.lastS /\ trk'.ok = trk.ok
        /\ trk'.qOk = (q.state = "enforced")
        /\ trk'.qS = IF applied THEN p.sess ELSE trk.qS
        /\ trk'.qH = IF applied THEN p.qos ELSE trk.qH
    <2> HIDE DEF q, applied
    <2> QED
      BY <1>1 DEF BlockInductive, TrackerOK
  <1>5. /\ q.state \in States /\ trk'.qOk \in BOOLEAN /\ SeenSession(trk.qS)'
        /\ trk'.qOk => trk'.qS # None
        /\ QosKnown'
    BY <1>1, <1>3, <1>4, LimitsRemembered
  <1>6. AriaOK' /\ Session' = Session
    BY <1>1 DEF BlockInductive, AriaOK, Session
  <1>7. q = [state |-> q.state, sess |-> q.sess, want |-> q.want]
    BY DEF QosStatus
  <1> HIDE DEF q
  <1>8. StatusOK'
    <2>1. stat' = [state |-> "fail_closed", list |-> stat.list, sess |-> stat.sess, ack |-> ack]
      BY <1>1 DEF BlockInductive, StatusOK
    <2> QED
      BY <2>1, <1>1, <1>5, <1>7 DEF StatusOK, States
  <1>9. TrackerOK'
    BY <1>1, <1>4, <1>5 DEF BlockInductive, TrackerOK, SeenSession, PassSteps
  <1>10. PassOK'
    BY <1>4 DEF PassOK
  <1>11. Memory'
    <2>1. BlockKnown /\ (trk.ok => trk.lastS # None)
      BY <1>1 DEF BlockInductive, Memory
    <2>2. BlockKnown'
      BY <2>1, <1>1, <1>4, <1>6 DEF BlockKnown
    <2> QED
      BY <2>1, <2>2, <1>4, <1>5 DEF Memory
  <1> QED
    BY <1>2, <1>6, <1>8, <1>9, <1>10, <1>11 DEF BlockInductive

\* The session is asked for again; what is remembered is what is true of it.
LEMMA PassFinishes ==
    ASSUME BlockInductive, PassFinish
    PROVE  BlockInductive'
  <1> DEFINE p == trk.p
             stable == SessionStable(p)
             outcome == IF p.out = "ok" /\ ~stable THEN "failed" ELSE p.out
             ok == CallOk(outcome, stable, trk.ok)
             reason == IF p.org.on /\ policy_hash(load_policy(pf)) # policy_hash(p.res)
                       THEN "policy_changed" ELSE p.org.reason
             success == /\ p.org.list # None /\ stable /\ (IF stable THEN trk.ok \/ outcome = "ok" ELSE FALSE)
                        /\ ~p.waiting /\ (p.force => outcome = "ok")
             lastS == IF outcome = "ok" THEN p.sess ELSE trk.lastS
             state == PassState(p, outcome, stable, ok, reason, success)
             q == QosStatus(p, stable)
             st == [state |-> state, list |-> p.list,
                    sess |-> IF outcome \in {"ok", "failed"} THEN p.sess
                             ELSE IF outcome = "none" THEN lastS ELSE None]
             acked == effective_acked(p.res.doc, stat.ack)
             report == [res |-> p.res, q |-> q, acked |-> acked, st |-> st]
  <1>1. /\ trk.at = "finish"
        /\ UNCHANGED <<pf, eps, pend, live, creds, ctl, stat, qstat, aria, ops>>
        /\ trk' = [trk EXCEPT !.at = "export", !.ok = ok, !.lastS = lastS,
                        !.lastH = IF outcome = "ok" THEN p.list ELSE @,
                        !.qOk = q.state = "enforced",
                        !.qS = IF stable /\ p.qout = "ok" THEN p.sess ELSE @,
                        !.qH = IF stable /\ p.qout = "ok" THEN p.qos ELSE @,
                        !.p = report]
        /\ app' = app \/ app' = [p.org.app EXCEPT !.last = Row(p), !.intent = None]
    BY DEF PassFinish
  <1>2. PolicyOK' /\ Outboxes' /\ ObservedOK' /\ StatusOK'
    BY <1>1, PolicyRests, ObservedRests, StatusRests DEF BlockInductive
  <1>3. FullPass(p)
    BY <1>1 DEF BlockInductive, PassOK
  <1>4. DecidedOK'
    <2>1. RowOK(Row(p))
      BY <1>3 DEF Row, RowOK, FullPass, OriginOK, Blockable
    <2>2. JournalOK(p.org.app)
      BY <1>3 DEF FullPass, OriginOK
    <2> HIDE DEF p
    <2>3. JournalOK([p.org.app EXCEPT !.last = Row(p), !.intent = None])
      BY <2>1, <2>2 DEF JournalOK
    <2> QED
      BY <2>3, <1>1 DEF BlockInductive, DecidedOK
  <1>5. state \in States
    BY DEF PassState, States
  <1>6. ok \in BOOLEAN
    BY DEF CallOk, BlockInductive, TrackerOK
  <1> HIDE DEF ok, state, reason, success, acked
  <1>7. /\ DOMAIN trk' = DOMAIN trk /\ trk'.at = "export" /\ trk'.known = trk.known
        /\ trk'.ok = ok /\ trk'.lastS = lastS
        /\ trk'.lastH = (IF outcome = "ok" THEN p.list ELSE trk.lastH)
        /\ trk'.qOk = (q.state = "enforced")
        /\ trk'.qS = (IF stable /\ p.qout = "ok" THEN p.sess ELSE trk.qS)
        /\ trk'.qH = (IF stable /\ p.qout = "ok" THEN p.qos ELSE trk.qH)
        /\ trk'.p = report
    <2> HIDE DEF p, q, stable, outcome, lastS, report
    <2> QED
      BY <1>1 DEF BlockInductive, TrackerOK, p
  <1>8. /\ q.state \in States /\ trk'.qOk \in BOOLEAN /\ SeenSession(trk.qS)'
        /\ trk'.qOk => trk'.qS # None
        /\ QosKnown'
    BY <1>1, <1>3, <1>7, LimitsRemembered
  <1>9. AriaOK' /\ Session' = Session
    BY <1>1 DEF BlockInductive, AriaOK, Session
  <1>10. q = [state |-> q.state, sess |-> q.sess, want |-> q.want]
    BY DEF QosStatus
  <1>11. stable => p.sess # None /\ Session = p.sess
    BY DEF SessionStable
  <1>12. p.sess = None \/ p.sess \in 1..aria.sess
    BY <1>3 DEF FullPass, CommonOK, SeenSession
  <1>13. trk.lastS = None \/ trk.lastS \in 1..aria.sess
    BY DEF BlockInductive, TrackerOK, SeenSession
  <1>14. SeenSession(trk.lastS)'
    <2> HIDE DEF p, outcome
    <2> QED
      BY <1>1, <1>7, <1>12, <1>13 DEF SeenSession
  <1>15. TrackerOK'
    <2> HIDE DEF report, lastS
    <2> QED
      BY <1>1, <1>6, <1>7, <1>8, <1>14 DEF BlockInductive, TrackerOK, PassSteps
  <1>16. PassOK'
    <2>1. p.res \in Results
      BY <1>3 DEF FullPass, CommonOK
    <2>2. st.state \in States
      BY <1>5
    <2> HIDE DEF p, q, st
    <2>3. Report(report)
      BY <2>1, <2>2, <1>8, <1>10 DEF Report
    <2> HIDE DEF report
    <2> QED
      BY <2>3, <1>7 DEF PassOK, Report
  <1>17. Memory'
    <2>1. /\ trk.ok => trk.lastS # None
          /\ p.out \in {"none", "skipped"} => BlockKnown
          /\ p.out = "ok" /\ p.sess # None /\ p.sess = Session => aria.block = p.list
      BY <1>1 DEF BlockInductive, Memory
    <2>2. BlockKnown' /\ (trk'.ok => trk'.lastS # None)
      <3>1. CASE outcome = "ok"
        <4>1. p.out = "ok" /\ stable
          BY <3>1
        <4>2. trk'.lastS = p.sess /\ trk'.lastH = p.list
          BY <1>7, <3>1
        <4> HIDE DEF p, stable
        <4> QED
          BY <4>1, <4>2, <2>1, <1>1, <1>9, <1>11 DEF BlockKnown
      <3>2. CASE outcome # "ok" /\ ok
        <4>1. p.out \in {"none", "skipped"} /\ trk.ok
          BY <3>2, <1>3 DEF ok, CallOk, FullPass
        <4>2. trk'.lastS = trk.lastS /\ trk'.lastH = trk.lastH
          BY <1>7, <3>2
        <4> HIDE DEF p
        <4> QED
          BY <4>1, <4>2, <2>1, <1>1, <1>9 DEF BlockKnown
      <3>3. CASE ~ok
        BY <3>3, <1>7 DEF BlockKnown
      <3> QED
        BY <3>1, <3>2, <3>3
    <2> QED
      BY <2>2, <1>7, <1>8 DEF Memory
  <1> QED
    BY <1>2, <1>4, <1>9, <1>15, <1>16, <1>17 DEF BlockInductive

\* The operations are exported, or not.
LEMMA PassExports ==
    ASSUME BlockInductive, PassExport
    PROVE  BlockInductive'
  <1>1. /\ trk.at = "export"
        /\ UNCHANGED <<pf, eps, pend, live, creds, ctl, app, stat, qstat, aria>>
    BY DEF PassExport
  <1>2. Report(trk.p) /\ TrackerOK
    BY <1>1 DEF BlockInductive, PassOK
  <1>3. PICK done : ops' = [ops EXCEPT !.exported = done]
    <2>1. CASE UNCHANGED ops
      <3>1. ops' = [ops EXCEPT !.exported = ops.exported]
        BY <2>1 DEF BlockInductive, PolicyOK
      <3> QED
        BY <3>1
    <2>2. CASE \E new : ops' = [ops EXCEPT !.exported = @ \cup new]
      BY <2>2
    <2> QED
      BY <2>1, <2>2 DEF PassExport
  <1>4. /\ DOMAIN trk' = DOMAIN trk /\ trk'.at = "status" /\ trk'.known = trk.known
        /\ trk'.lastH = trk.lastH /\ trk'.lastS = trk.lastS /\ trk'.ok = trk.ok
        /\ trk'.qH = trk.qH /\ trk'.qS = trk.qS /\ trk'.qOk = trk.qOk
        /\ DOMAIN trk'.p = DOMAIN trk.p /\ trk'.p.res = trk.p.res /\ trk'.p.q = trk.p.q
        /\ trk'.p.st = trk.p.st
    <2>1. ASSUME NEW ack, trk' = [trk EXCEPT !.at = "status", !.p.acked = ack]
          PROVE  <1>4!:
      BY <2>1, <1>2 DEF TrackerOK, Report
    <2>2. CASE trk' = [trk EXCEPT !.at = "status"]
      BY <2>2, <1>2 DEF TrackerOK
    <2> QED
      BY Zenon, <2>1, <2>2 DEF PassExport
  <1>5. ops'.last = ops.last /\ ops' = [last |-> ops'.last, exported |-> ops'.exported]
    BY <1>3 DEF BlockInductive, PolicyOK
  <1>6. PolicyOK' /\ Outboxes'
    BY <1>1, <1>5 DEF BlockInductive, PolicyOK, Outboxes
  <1>7. ObservedOK' /\ DecidedOK' /\ StatusOK'
    BY <1>1, ObservedRests, DecidedRests, StatusRests DEF BlockInductive
  <1>8. AriaOK' /\ Session' = Session
    BY <1>1 DEF BlockInductive, AriaOK, Session
  <1>9. TrackerOK'
    BY <1>1, <1>2, <1>4 DEF TrackerOK, SeenSession, PassSteps
  <1>10. Report(trk'.p)
    BY <1>2, <1>4 DEF Report
  <1>11. PassOK'
    BY <1>4, <1>10 DEF PassOK, Report
  <1>12. Memory'
    BY <1>1, <1>4, <1>8 DEF BlockInductive, Memory, BlockKnown, QosKnown
  <1> QED
    BY <1>6, <1>7, <1>8, <1>9, <1>11, <1>12 DEF BlockInductive

\* The status files are written, or not.
LEMMA PassReports ==
    ASSUME BlockInductive, PassStatus
    PROVE  BlockInductive'
  <1>1. /\ trk.at = "status"
        /\ UNCHANGED <<pf, eps, pend, live, creds, ctl, app, aria, ops>>
        /\ trk' = [trk EXCEPT !.at = "idle", !.p = NoRead]
    BY DEF PassStatus
  <1>2. Report(trk.p) /\ TrackerOK
    BY <1>1 DEF BlockInductive, PassOK
  <1>3. PolicyOK' /\ Outboxes' /\ ObservedOK' /\ DecidedOK'
    BY <1>1, PolicyRests, ObservedRests, DecidedRests DEF BlockInductive
  <1>4. /\ DOMAIN trk' = DOMAIN trk /\ trk'.at = "idle" /\ trk'.known = trk.known
        /\ trk'.lastH = trk.lastH /\ trk'.lastS = trk.lastS /\ trk'.ok = trk.ok
        /\ trk'.qH = trk.qH /\ trk'.qS = trk.qS /\ trk'.qOk = trk.qOk
    BY <1>1, <1>2 DEF TrackerOK
  <1>5. AriaOK' /\ Session' = Session
    BY <1>1 DEF BlockInductive, AriaOK, Session
  <1>6. TrackerOK'
    BY <1>1, <1>2, <1>4 DEF TrackerOK, SeenSession, PassSteps
  <1>7. PassOK'
    BY <1>4 DEF PassOK
  <1>8. Memory'
    BY <1>1, <1>4, <1>5 DEF BlockInductive, Memory, BlockKnown, QosKnown
  <1>9. StatusOK
    BY DEF BlockInductive
  <1>10. StatusOK'
    <2>1. CASE /\ stat' = [state |-> trk.p.st.state, list |-> trk.p.st.list, sess |-> trk.p.st.sess,
                           ack |-> [rev |-> trk.p.acked, epoch |-> trk.p.res.doc.epoch]]
               /\ qstat' = trk.p.q
      BY <2>1, <1>2 DEF Report, StatusOK
    <2>2. CASE /\ qstat' = [qstat EXCEPT !.state = "degraded"]
               /\ stat' = stat \/ \E ack : stat' = [stat EXCEPT !.state = "degraded", !.ack = ack]
      <3>1. qstat' = [state |-> "degraded", sess |-> qstat.sess, want |-> qstat.want]
        BY <2>2, <1>9 DEF StatusOK
      <3>2. \/ stat' = stat
            \/ \E ack : stat' = [state |-> "degraded", list |-> stat.list, sess |-> stat.sess, ack |-> ack]
        <4>1. ASSUME NEW ack, stat' = [stat EXCEPT !.state = "degraded", !.ack = ack]
              PROVE  stat' = [state |-> "degraded", list |-> stat.list, sess |-> stat.sess, ack |-> ack]
          BY <4>1, <1>9 DEF StatusOK
        <4> QED
          BY <4>1, <2>2
      <3> QED
        BY <3>1, <3>2, <1>9 DEF StatusOK, States
    <2> QED
      BY <2>1, <2>2 DEF PassStatus
  <1> QED
    BY <1>3, <1>5, <1>6, <1>7, <1>8, <1>10 DEF BlockInductive

----------------------------------------------------------------------------
(* The theorem.                                                            *)

LEMMA BlockStarts == BlockInit => BlockInductive
  <1> SUFFICES ASSUME BlockInit PROVE BlockInductive
    OBVIOUS
  <1>1. PICK s \in BlockScenarios :
        /\ pf = [auth |-> s.doc, lkg |-> base_document, ring |-> {}, watermark |-> s.doc.roles]
        /\ eps = s.eps
        /\ pend = [p \in Principals |-> None] /\ live = {}
        /\ creds = [revoked |-> s.revoked, readable |-> TRUE]
        /\ ctl = Absent /\ app = Absent
        /\ stat = [state |-> "pending", list |-> None, sess |-> None, ack |-> [rev |-> 0, epoch |-> 0]]
        /\ qstat = [state |-> "pending", sess |-> None, want |-> None]
        /\ aria = [up |-> TRUE, sess |-> 1, block |-> {}, gids |-> {CHOOSE g \in Gids : TRUE}, opt |-> [g \in Gids |-> 0]]
        /\ trk = FreshTracker
        /\ ops = [last |-> s.doc.epoch, exported |-> {}]
    BY DEF BlockInit
  <1>2. /\ s.doc \in [rev : Nat, say : [Devices -> {"open", "deny", "noorigin"}], qos : {0, 1},
                      roles : BOOLEAN, rolesPresent : BOOLEAN, out : {{}}, epoch : Nat]
        /\ s.eps \in [Devices \cup {"seeder"} -> [Ips -> {"none", "fresh", "old"}]]
        /\ s.revoked \subseteq Devices
    BY <1>1, ScenarioAssumption
  <1>3. s.doc \in Documents /\ s.doc.out = {} /\ s.doc.epoch \in Nat /\ s.doc.roles \in BOOLEAN
    BY <1>2 DEF Documents, Verdicts, Entries
  <1>4. pf \in Files
    BY <1>1, <1>3, BaseDocument DEF Files
  <1>5. PolicyOK
    BY <1>1, <1>3, <1>4 DEF PolicyOK
  <1>6. Outboxes
    <2>1. Boxed(base_document, ops.last)
      BY <1>5, BoxedBase DEF PolicyOK
    <2>2. Boxed(s.doc, ops.last)
      BY <2>1, <1>3 DEF Boxed, base_document
    <2>3. Kept(pf) \in SUBSET {s.doc, base_document}
      BY <1>1 DEF Kept
    <2> QED
      BY <2>1, <2>2, <2>3 DEF Outboxes
  <1>7. ObservedOK
    BY <1>1, <1>2 DEF ObservedOK, Principals, Seeder
  <1>8. DecidedOK /\ StatusOK
    BY <1>1 DEF DecidedOK, StatusOK, States
  <1>9. AriaOK
    <2>1. (CHOOSE g \in Gids : TRUE) \in Gids
      BY BlockAssumption
    <2>2. 1 \in 1..MaxSession
      BY BlockAssumption
    <2> QED
      BY <1>1, <2>1, <2>2 DEF AriaOK
  <1>10. TrackerOK /\ PassOK /\ Memory
    BY <1>1 DEF FreshTracker, TrackerOK, PassOK, Memory, BlockKnown, QosKnown, SeenSession, PassSteps
  <1> QED
    BY <1>5, <1>6, <1>7, <1>8, <1>9, <1>10 DEF BlockInductive

LEMMA BlockStep ==
    ASSUME BlockInductive, [BlockNext]_blockVars
    PROVE  BlockInductive'
  <1>1. CASE PassStep
    BY <1>1, PassBegins, PassLimits, PassEndsBlind, PassSkips, PassJournals, PassCalls,
       PassFinishes, PassExports, PassReports DEF PassStep
  <1>2. CASE PassStoreUnreadable
    BY <1>2, PassStartsBlind
  <1>3. CASE TrackerRestart
    BY <1>3, Restarted
  <1>4. CASE AriaStop \/ AriaStart \/ \E g \in Gids : Reseed(g)
    BY <1>4, AriaMoves
  <1>5. CASE \/ \E p \in Principals, ip \in Ips : Announce(p, ip) \/ Expire(p, ip)
             \/ \E ip \in Ips : RegistryRow(ip)
             \/ \E d \in Devices : Revoke(d)
             \/ SecretsReadable
    BY <1>5, WorldMoves
  <1>6. CASE SetQos \/ RestoreRevision \/ \E d \in Devices, s \in Verdicts : SetVerdict(d, s)
    BY <1>6, PolicyEdits
  <1>7. CASE DamagePolicy
    BY <1>7, PolicyDamaged
  <1>8. CASE Approve \/ \E m \in {"preflight", "enforce"} : Preview(m)
    BY <1>8, OperatorActs
  <1>9. CASE UNCHANGED blockVars
    <2>1. UNCHANGED <<pf, eps, pend, live, creds, ctl, app, stat, qstat, aria, trk, ops>>
      BY <1>9 DEF blockVars
    <2> QED
      BY <2>1, ProcessesRest, PolicyRests, ObservedRests, DecidedRests, StatusRests DEF BlockInductive
  <1> QED
    BY <1>1, <1>2, <1>3, <1>4, <1>5, <1>6, <1>7, <1>8, <1>9 DEF BlockNext

LEMMA BlockImplies == BlockInductive => BlockingSafe
  <1> SUFFICES ASSUME BlockInductive PROVE BlockingSafe
    OBVIOUS
  <1>1. BlockTypeOK
    <2>1. trk.at \in PassSteps /\ stat.state \in States /\ qstat.state \in States
      BY DEF BlockInductive, TrackerOK, StatusOK
    <2>2. /\ eps \in [Principals -> [Ips -> {"none", "fresh", "old"}]]
          /\ pend \in [Principals -> Ips \cup {None}] /\ live \subseteq Ips /\ creds.revoked \subseteq Devices
      BY DEF BlockInductive, ObservedOK
    <2>3. aria.block \subseteq Ips \ {OriginIp} /\ aria.sess \in 1..MaxSession
      BY DEF BlockInductive, AriaOK, Blockable
    <2>4. IsDoc(pf.auth) => Boxed(pf.auth, ops.last)
      BY DEF BlockInductive, Outboxes, Kept, IsDoc
    <2> QED
      BY <2>1, <2>2, <2>3, <2>4 DEF BlockTypeOK, Boxed
  <1>2. MemoryIsTrue
    <2>1. trk.at \in {"idle", "qos", "apply"} /\ trk.ok /\ trk.lastS = Session => aria.block = trk.lastH
      BY DEF BlockInductive, Memory, BlockKnown
    <2>2. trk.at \in {"idle", "qos"} => QosKnown
      BY DEF BlockInductive, Memory
    <2> QED
      BY <2>1, <2>2 DEF MemoryIsTrue, QosKnown
  <1> QED
    BY <1>1, <1>2 DEF BlockingSafe

----------------------------------------------------------------------------
(* What is called enforced.                                                *)

\* What a pass knows when it says "enforced": without a call the list it wants
\* is the one it remembers, and a call that was not made is a reason not to say it.
Believed ==
    /\ trk.at \in {"qos", "apply", "call", "finish"} /\ ~trk.p.blind =>
         LET p == trk.p
         IN  /\ ~p.force => p.list = trk.lastH /\ p.sess = trk.lastS
             /\ p.org.list = None => p.org.on
             /\ p.org.list # None => AddressesOf(p.org.bind) \subseteq p.list
             /\ trk.at = "call" => p.force
             /\ trk.at = "finish" /\ p.out # "none" => p.force
             /\ trk.at = "finish" /\ p.out = "none" /\ p.force =>
                  p.org.on /\ (p.org.list = None \/ p.sess = None \/ p.org.reason # None)
    /\ trk.at \in {"apply", "call", "finish"} =>
         (trk.p.qout = "none" => trk.p.sess = trk.qS)
    /\ trk.at \in {"export", "status"} =>
         /\ trk.p.st.state = "enforced" => trk.p.st.sess # None /\ SeenSession(trk.p.st.sess)
         /\ trk.p.st.state = "enforced" /\ trk.p.st.sess = Session => trk.p.st.list = aria.block
         /\ trk.p.q.state = "enforced" => trk.p.q.sess # None /\ SeenSession(trk.p.q.sess)
         /\ trk.p.q.state = "enforced" /\ trk.p.q.sess = Session =>
              \A g \in trk.p.q.want.gids : aria.opt[g] = trk.p.q.want.val

\* What a pass prepares: nothing exact only with the restrictions on, and its
\* bindings are on the list.
LEMMA PreparedExactly ==
    ASSUME NEW res, NEW dur, NEW pnd, NEW rev, NEW baseline \in SUBSET Blockable,
           NEW org, org = Prepare(res, dur, pnd, rev, baseline)
    PROVE  /\ org.list = None => org.on
           /\ org.list # None => AddressesOf(org.bind) \subseteq org.list
  <1>1. baseline # None
    BY BlockAssumption DEF Blockable
  <1>2. \/ \E r : org = Unavailable(r)
        \/ \E hash, a : org = [on |-> FALSE, reason |-> None, list |-> baseline, bind |-> {},
                               hash |-> hash, app |-> a]
        \/ \E list, hash, reason, bind, a :
             org = [on |-> TRUE, list |-> list, hash |-> hash, reason |-> reason,
                    bind |-> {b \in bind : b.ip \in list}, app |-> a]
    <2> DEFINE c == load_control
               a == load_application
               o == Observe(res, dur, pnd, rev, c)
               reason == ViewReason(c, o)
               keep == reason \in Frozen
               bind == IF keep THEN a.last.bind ELSE approved_bindings(c)
               want == IF keep /\ reason # "policy_changed" THEN a.last.list
                       ELSE o.base \cup AddressesOf(bind)
               retained == ((IF a.sharedRev = c.rev THEN a.shared ELSE {}) \cup o.shared)
                              \cap AddressesOf(approved_bindings(c))
               shared == retained \cup o.shared
               list == want \ (shared \cup o.protected)
               newreason == IF reason = None /\ shared # {} /\ c.mode = "enforce"
                            THEN "shared_address" ELSE reason
               newapp == [last |-> a.last, intent |-> a.intent, sharedRev |-> c.rev,
                          shared |-> retained]
    <2>1. \/ \E r : org = Unavailable(r)
          \/ org = [on |-> FALSE, reason |-> None, list |-> baseline, bind |-> {},
                    hash |-> o.hash, app |-> a]
          \/ org = [on |-> TRUE, list |-> list, hash |-> o.hash, reason |-> newreason,
                    bind |-> {b \in bind : b.ip \in list}, app |-> newapp]
      BY DEF Prepare
    <2> HIDE DEF a, o, list, newreason, bind, newapp
    <2> QED
      BY <2>1
  <1>3. ASSUME NEW r, org = Unavailable(r) PROVE org.on /\ org.list = None
    BY <1>3 DEF Unavailable
  <1>4. ASSUME NEW hash, NEW a, org = [on |-> FALSE, reason |-> None, list |-> baseline,
                                       bind |-> {}, hash |-> hash, app |-> a]
        PROVE  org.list # None /\ AddressesOf(org.bind) = {}
    BY <1>1, <1>4 DEF AddressesOf
  <1>5. ASSUME NEW list, NEW hash, NEW reason, NEW bind, NEW a,
               org = [on |-> TRUE, list |-> list, hash |-> hash, reason |-> reason,
                      bind |-> {b \in bind : b.ip \in list}, app |-> a]
        PROVE  org.on /\ AddressesOf(org.bind) \subseteq org.list
    <2>1. org.on /\ org.bind = {b \in bind : b.ip \in list} /\ org.list = list
      BY <1>5
    <2> QED
      BY <2>1 DEF AddressesOf
  <1> QED
    BY <1>2, <1>3, <1>4, <1>5

LEMMA BelievedStarts == BlockInit => Believed
  BY DEF BlockInit, FreshTracker, Believed

LEMMA BelievedRests ==
    ASSUME Believed, UNCHANGED <<aria, trk>>
    PROVE  Believed'
  BY DEF Believed, SeenSession, Session

LEMMA BelievedBegins ==
    ASSUME BlockInductive, PassBegin
    PROVE  Believed'
  <1> DEFINE res == load_policy(InitializeIfAbsent(pf))
             rev == RevokedView
  <1>1. PICK wrote, prune, gone : PassReads(res, rev, wrote, gone, prune)
    BY DEF PassBegin
  <1> HIDE DEF res, rev
  <1> DEFINE e1 == IF wrote
                   THEN [p \in Principals |-> IF pend[p] = None THEN eps[p]
                                              ELSE record_endpoint(eps[p], pend[p], gone[p])]
                   ELSE eps
             e2 == IF prune THEN Pruned(e1, res, rev) ELSE e1
             left == IF wrote THEN [p \in Principals |-> None] ELSE pend
             dur == fresh_endpoints(e2, res, rev)
             base == derive_denied_set(res, dur, pend, live, rev)
             org == Prepare(res, dur, pend, rev, base.block)
             list == IF org.list = None THEN base.block ELSE org.list
             force == \/ trk.lastH = None \/ Session # trk.lastS \/ ~trk.ok
                      \/ list # trk.lastH
                      \/ /\ org.on
                         /\ IF org.app.last = None THEN TRUE
                            ELSE org.app.last.rev # load_control.rev
             waiting == \E p \in Principals : left[p] # None
             mixed == base.shared # {}
             q == [blind |-> FALSE, res |-> res, rows |-> e2, queue |-> pend, live |-> live, waiting |-> waiting,
                    closed |-> base.closed, mixed |-> mixed, org |-> org,
                    list |-> list, sess |-> Session, out |-> "none", force |-> force,
                    qos |-> None, qout |-> "none"]
  <1>2. trk' = [trk EXCEPT !.at = "qos", !.known = rev, !.p = q]
    <2>1. PassHolds(res, rev, wrote, gone, prune)
      BY <1>1, PassReadsHolds
    <2> QED
      BY Zenon, <2>1 DEF PassHolds
  <1>3. base.block \in SUBSET Blockable
    BY DerivedBlockable
  <1>4. /\ org.list = None => org.on
        /\ org.list # None => AddressesOf(org.bind) \subseteq org.list
    BY <1>3, PreparedExactly
  <1>5. ~force => list = trk.lastH /\ Session = trk.lastS
    <2> HIDE DEF list, org
    <2> QED
      OBVIOUS
  <1>6. org.list # None => list = org.list
    OBVIOUS
  <1> HIDE DEF e2, left, base, org, list, force, waiting, mixed
  <1>7. q.force = force /\ q.list = list /\ q.sess = Session /\ q.org = org
    OBVIOUS
  <1> HIDE DEF q
  <1>8. trk'.at = "qos" /\ trk'.p = q /\ trk'.lastH = trk.lastH /\ trk'.lastS = trk.lastS
    BY <1>2 DEF BlockInductive, TrackerOK
  <1> QED
    BY <1>4, <1>5, <1>6, <1>7, <1>8 DEF Believed

LEMMA BelievedLimits ==
    ASSUME BlockInductive, Believed, PassQos
    PROVE  Believed'
  <1> DEFINE p == trk.p
             want == IF aria.up THEN [val |-> p.res.doc.qos, gids |-> aria.gids] ELSE None
  <1>1. trk.at = "qos"
    BY Zenon DEF PassQos
  <1>2. BlindPass(p) \/ FullPass(p)
    BY <1>1 DEF BlockInductive, PassOK
  <1>3. /\ {"qos", "qout"} \subseteq DOMAIN p
        /\ DOMAIN trk = {"at", "known", "lastH", "lastS", "ok", "qH", "qS", "qOk", "p"}
    BY <1>2 DEF BlockInductive, BlindPass, FullPass, TrackerOK
  <1>4. \/ \E out \in {"refused", "ok", "fail"} : \E qOk :
             trk' = [trk EXCEPT !.at = "apply", !.qOk = qOk, !.p.qos = want, !.p.qout = out]
        \/ \E out \in {"refused", "ok", "fail"} :
             trk' = [trk EXCEPT !.at = "apply", !.p.qos = want, !.p.qout = out]
        \/ p.sess = trk.qS /\ trk' = [trk EXCEPT !.at = "apply", !.p.qos = want]
    BY Zenon DEF PassQos
  <1> HIDE DEF want
  <1>5. /\ trk'.at = "apply" /\ trk'.lastH = trk.lastH /\ trk'.lastS = trk.lastS
        /\ trk'.qS = trk.qS
        /\ DOMAIN trk'.p = DOMAIN p
        /\ \A x \in DOMAIN p \ {"qos", "qout"} : trk'.p[x] = p[x]
        /\ trk'.p.qout = "none" => p.sess = trk.qS
    <2>1. ASSUME NEW out \in {"refused", "ok", "fail"}, NEW qOk,
                 trk' = [trk EXCEPT !.at = "apply", !.qOk = qOk, !.p.qos = want, !.p.qout = out]
          PROVE  <1>5!:
      BY <2>1, <1>3
    <2>2. ASSUME NEW out \in {"refused", "ok", "fail"},
                 trk' = [trk EXCEPT !.at = "apply", !.p.qos = want, !.p.qout = out]
          PROVE  <1>5!:
      BY <2>2, <1>3
    <2>3. CASE p.sess = trk.qS /\ trk' = [trk EXCEPT !.at = "apply", !.p.qos = want]
      BY <2>3, <1>3
    <2> QED
      BY Zenon, <2>1, <2>2, <2>3, <1>4
  <1>6. trk'.p.sess = p.sess /\ trk'.p.blind = p.blind
    BY <1>2, <1>5 DEF BlindPass, FullPass
  <1>7. ~p.blind => /\ trk'.p.force = p.force /\ trk'.p.list = p.list /\ trk'.p.org = p.org
    BY <1>2, <1>5 DEF BlindPass, FullPass
  <1> QED
    BY <1>1, <1>5, <1>6, <1>7 DEF Believed

LEMMA BelievedCalls ==
    ASSUME BlockInductive, Believed, PassNoApply \/ PassJournal \/ PassCall
    PROVE  Believed'
  <1> DEFINE p == trk.p
  <1>1. trk.at \in {"apply", "call"} /\ FullPass(p) /\ ~p.blind
    BY DEF PassNoApply, PassJournal, PassCall, BlockInductive, PassOK, BlindPass, FullPass
  <1>2. /\ {"at", "p"} \subseteq DOMAIN trk /\ {"org", "out"} \subseteq DOMAIN p
        /\ {"app", "reason"} \subseteq DOMAIN p.org
        /\ (trk.at = "apply" => p.out = "none")
    BY <1>1 DEF BlockInductive, TrackerOK, FullPass, OriginOK, PassOK
  <1>3. /\ ~p.force => p.list = trk.lastH /\ p.sess = trk.lastS
        /\ p.org.list = None => p.org.on
        /\ p.org.list # None => AddressesOf(p.org.bind) \subseteq p.list
        /\ trk.at = "call" => p.force
        /\ p.qout = "none" => p.sess = trk.qS
    BY <1>1 DEF Believed
  <1>4. /\ trk'.lastH = trk.lastH /\ trk'.lastS = trk.lastS /\ trk'.qS = trk.qS
        /\ DOMAIN trk'.p = DOMAIN p
        /\ \A x \in DOMAIN p \ {"org", "out"} : trk'.p[x] = p[x]
        /\ trk'.p.org.list = p.org.list /\ trk'.p.org.on = p.org.on
        /\ trk'.p.org.bind = p.org.bind
        /\ \/ trk'.at = "call" /\ p.force
           \/ trk'.at = "finish" /\ trk'.p.out # "none" /\ p.force
           \/ trk'.at = "finish" /\ trk'.p.out = "none" /\
                (p.force => p.org.on /\ (p.org.list = None \/ p.sess = None \/ trk'.p.org.reason # None))
    <2>1. CASE PassNoApply
      <3>1. CASE /\ ~p.force \/ p.org.list = None \/ (p.org.on /\ p.sess = None)
                 /\ trk' = [trk EXCEPT !.at = "finish"]
        <4>1. trk.at = "apply"
          BY <2>1 DEF PassNoApply
        <4> QED
          BY <3>1, <4>1, <1>2, <1>3
      <3>2. CASE /\ p.org.on
                 /\ trk' = [trk EXCEPT !.at = "finish", !.p.org.reason = "application_state_unavailable"]
        <4>1. trk.at = "apply"
          BY <2>1 DEF PassNoApply
        <4>2. trk'.p = [p EXCEPT !.org = [p.org EXCEPT !.reason = "application_state_unavailable"]]
          BY <3>2, <1>2
        <4>3. trk'.p.org = [p.org EXCEPT !.reason = "application_state_unavailable"]
          BY <4>2, <1>2
        <4>4. /\ trk'.p.org.reason # None /\ trk'.p.org.list = p.org.list /\ trk'.p.org.on = p.org.on
              /\ trk'.p.org.bind = p.org.bind
          BY <4>3, <1>2, BlockAssumption
        <4>5. trk'.at = "finish" /\ trk'.lastH = trk.lastH /\ trk'.lastS = trk.lastS /\ trk'.qS = trk.qS
          BY <3>2, <1>2
        <4> QED
          BY <3>2, <4>1, <4>2, <4>4, <4>5, <1>2
      <3>3. CASE p.force /\ trk' = [trk EXCEPT !.at = "finish", !.p.out = "skipped"]
        BY <3>3, <1>2
      <3> QED
        BY <2>1, <3>1, <3>2, <3>3 DEF PassNoApply
    <2>2. CASE PassJournal
      <3> DEFINE kept == IF p.org.on THEN app' ELSE p.org.app
      <3>1. p.force /\ trk' = [trk EXCEPT !.at = "call", !.p.org.app = kept]
        BY <2>2 DEF PassJournal
      <3> HIDE DEF kept
      <3>2. trk'.p = [p EXCEPT !.org = [p.org EXCEPT !.app = kept]]
        BY <3>1, <1>2
      <3>3. trk'.p.org = [p.org EXCEPT !.app = kept]
        BY <3>2, <1>2
      <3>4. /\ trk'.p.org.list = p.org.list /\ trk'.p.org.on = p.org.on
            /\ trk'.p.org.bind = p.org.bind
        BY <3>3
      <3>5. trk'.at = "call" /\ trk'.lastH = trk.lastH /\ trk'.lastS = trk.lastS /\ trk'.qS = trk.qS
        BY <3>1, <1>2
      <3> QED
        BY <3>1, <3>2, <3>4, <3>5
    <2>3. CASE PassCall
      <3>1. PICK o \in {"ok", "failed"} : trk' = [trk EXCEPT !.at = "finish", !.p.out = o]
        BY <2>3 DEF PassCall
      <3>2. p.force
        BY <2>3, <1>3 DEF PassCall
      <3> QED
        BY <3>1, <3>2, <1>2
    <2> QED
      BY <2>1, <2>2, <2>3
  <1>5. /\ trk'.p.blind = p.blind /\ trk'.p.force = p.force /\ trk'.p.list = p.list
        /\ trk'.p.sess = p.sess /\ trk'.p.qout = p.qout
    BY <1>1, <1>4 DEF FullPass
  <1> QED
    BY <1>1, <1>3, <1>4, <1>5 DEF Believed

LEMMA BelievedAria ==
    ASSUME BlockInductive, Believed, AriaStop \/ AriaStart \/ \E g \in Gids : Reseed(g)
    PROVE  Believed'
  <1>1. /\ \A x : SeenSession(x) => (x = None \/ x \in 1..aria'.sess)
        /\ \/ /\ aria'.block = aria.block /\ aria'.opt = aria.opt
              /\ Session' = Session \/ Session' = None
           \/ \A x : SeenSession(x) /\ x # None => x # Session'
    BY SessionMoves DEF BlockInductive
  <1>2. trk' = trk
    BY DEF AriaStop, AriaStart, Reseed
  <1> QED
    BY <1>1, <1>2 DEF Believed, SeenSession

\* What a pass says of the rate limits.
LEMMA LimitsTrue ==
    ASSUME BlockInductive, Believed, trk.at \in {"apply", "finish"},
           BlindPass(trk.p) \/ FullPass(trk.p), NEW q, q = QosStatus(trk.p, SessionStable(trk.p)),
           q.state = "enforced"
    PROVE  /\ q.sess # None /\ SeenSession(q.sess)
           /\ \A g \in q.want.gids : aria.opt[g] = q.want.val
  <1> DEFINE p == trk.p
             stable == SessionStable(p)
             sound == /\ stable /\ p.qout # "refused"
                      /\ p.qout = "ok" \/ (p.qout = "none" /\ trk.qOk /\ p.qos = trk.qH)
  <1>1. /\ q.state = IF sound THEN "enforced"
                     ELSE IF p.sess = None THEN "rpc_unavailable" ELSE "degraded"
        /\ q.sess = p.sess /\ q.want = p.qos
    BY DEF QosStatus
  <1>2. sound /\ p.sess # None /\ Session = p.sess
    <2>1. sound
      BY <1>1
    <2> QED
      BY <2>1 DEF SessionStable
  <1>3. SeenSession(p.sess)
    BY DEF BlindPass, FullPass, CommonOK
  <1>4. /\ p.qout = "none" => QosKnown /\ p.sess = trk.qS
        /\ p.qout = "ok" /\ p.sess # None /\ p.sess = Session =>
             \A g \in p.qos.gids : aria.opt[g] = p.qos.val
    BY DEF BlockInductive, Memory, Believed
  <1> QED
    BY <1>1, <1>2, <1>3, <1>4 DEF QosKnown

LEMMA BelievedFinish ==
    ASSUME BlockInductive, Believed, PassFinish
    PROVE  /\ Believed'
           /\ proof' = proof \/ (proof'.state = "enforced" => AddressesOf(proof'.bind) \subseteq aria.block)
  <1> DEFINE p == trk.p
             stable == SessionStable(p)
             outcome == IF p.out = "ok" /\ ~stable THEN "failed" ELSE p.out
             ok == CallOk(outcome, stable, trk.ok)
             reason == IF p.org.on /\ policy_hash(load_policy(pf)) # policy_hash(p.res)
                       THEN "policy_changed" ELSE p.org.reason
             success == /\ p.org.list # None /\ stable /\ (IF stable THEN trk.ok \/ outcome = "ok" ELSE FALSE)
                        /\ ~p.waiting /\ (p.force => outcome = "ok")
             lastS == IF outcome = "ok" THEN p.sess ELSE trk.lastS
             state == PassState(p, outcome, stable, ok, reason, success)
             q == QosStatus(p, stable)
             sess == IF outcome \in {"ok", "failed"} THEN p.sess
                     ELSE IF outcome = "none" THEN lastS ELSE None
             st == [state |-> state, list |-> p.list, sess |-> sess]
             acked == effective_acked(p.res.doc, stat.ack)
             report == [res |-> p.res, q |-> q, acked |-> acked, st |-> st]
  <1>1. trk.at = "finish" /\ UNCHANGED aria /\ FullPass(p) /\ ~p.blind
    BY DEF PassFinish, BlockInductive, PassOK, FullPass
  <1>2. trk'.at = "export" /\ trk'.p = report
    <2>1. trk' = [trk EXCEPT !.at = "export", !.ok = ok, !.lastS = lastS,
                        !.lastH = IF outcome = "ok" THEN p.list ELSE @,
                        !.qOk = q.state = "enforced",
                        !.qS = IF stable /\ p.qout = "ok" THEN p.sess ELSE @,
                        !.qH = IF stable /\ p.qout = "ok" THEN p.qos ELSE @,
                        !.p = report]
      BY DEF PassFinish
    <2> HIDE DEF report, ok, lastS, outcome, p, q, stable
    <2> QED
      BY <2>1 DEF BlockInductive, TrackerOK
  <1>3. stable => p.sess # None /\ Session = p.sess
    BY DEF SessionStable
  <1>4. /\ trk.ok => trk.lastS # None
        /\ p.out \in {"none", "skipped"} => BlockKnown
        /\ p.out = "ok" /\ p.sess # None /\ p.sess = Session => aria.block = p.list
    BY <1>1 DEF BlockInductive, Memory
  <1>5. /\ ~p.force => p.list = trk.lastH /\ p.sess = trk.lastS
        /\ p.org.list = None => p.org.on
        /\ p.org.list # None => AddressesOf(p.org.bind) \subseteq p.list
        /\ p.out # "none" => p.force
        /\ p.out = "none" /\ p.force =>
             p.org.on /\ (p.org.list = None \/ p.sess = None \/ p.org.reason # None)
    BY <1>1 DEF Believed
  <1>6. outcome = "ok" => stable /\ p.sess # None /\ Session = p.sess /\ aria.block = p.list
    <2>1. outcome = "ok" => stable /\ p.out = "ok"
      OBVIOUS
    <2> HIDE DEF stable, outcome, p
    <2> QED
      BY <2>1, <1>3, <1>4
  <1>7. state = "enforced" =>
          \/ outcome = "ok"
          \/ outcome = "none" /\ ok /\ trk.lastS # None /\ ~(p.org.on /\ (reason # None \/ ~success))
    <2> HIDE DEF outcome, ok, reason, success, stable, p
    <2> QED
      BY DEF PassState, state
  <1>8. outcome = "none" => p.out = "none"
    OBVIOUS
  <1>9. success => stable /\ p.sess # None
    BY <1>3
  <1>10. success /\ outcome # "ok" => ~p.force /\ trk.ok /\ p.out = "none"
    <2>1. success /\ outcome # "ok" => ~p.force /\ trk.ok
      OBVIOUS
    <2> HIDE DEF success, outcome, p
    <2> QED
      BY <2>1, <1>5
  <1>11. reason = None => p.org.reason = None
    <2>1. CASE reason = "policy_changed"
      <3>1. CASE p.org.on /\ policy_hash(load_policy(pf)) # policy_hash(p.res)
        BY <3>1, BlockAssumption
      <3>2. CASE ~(p.org.on /\ policy_hash(load_policy(pf)) # policy_hash(p.res))
        BY <3>2
      <3> QED
        BY <3>1, <3>2
    <2>2. CASE reason # "policy_changed"
      BY <2>2
    <2> QED
      BY <2>1, <2>2
  <1>12. ok /\ outcome = "none" => stable /\ trk.ok
    BY DEF CallOk
  <1>13. success => p.org.list # None
    OBVIOUS
  <1>14. proof' = proof \/ /\ proof'.bind = p.org.bind
                           /\ proof'.state = "enforced" => success /\ reason = None
    <2>1. CASE ~p.org.on
      BY <2>1 DEF PassFinish
    <2>2. CASE p.org.on
      <3>1. PICK saved \in BOOLEAN :
              proof' = [rev |-> load_control.rev, hash |-> p.org.hash, bind |-> p.org.bind,
                        state |-> ProofState(reason, p.sess, success /\ saved)]
        BY <2>2 DEF PassFinish
      <3> HIDE DEF p, reason, success
      <3>2. ProofState(reason, p.sess, success /\ saved) = "enforced" => success /\ reason = None
        BY DEF ProofState
      <3> QED
        BY <3>1, <3>2
    <2> QED
      BY <2>1, <2>2
  <1> HIDE DEF stable, outcome, ok, reason, success, state
  <1>15. success => AddressesOf(p.org.bind) \subseteq aria.block
    <2>1. CASE outcome = "ok"
      BY <2>1, <1>5, <1>6, <1>13
    <2>2. CASE success /\ outcome # "ok"
      BY <2>2, <1>3, <1>4, <1>5, <1>9, <1>10, <1>13 DEF BlockKnown
    <2> QED
      BY <2>1, <2>2
  <1>16. ASSUME state = "enforced"
         PROVE  sess # None /\ SeenSession(sess) /\ (sess = Session => p.list = aria.block)
    <2>1. SeenSession(p.sess) /\ SeenSession(trk.lastS)
      BY <1>1 DEF FullPass, CommonOK, BlockInductive, TrackerOK
    <2>2. CASE outcome = "ok"
      BY <2>1, <2>2, <1>6
    <2>3. CASE /\ outcome = "none" /\ ok /\ trk.lastS # None
               /\ ~(p.org.on /\ (reason # None \/ ~success))
      <3>1. sess = trk.lastS /\ stable /\ trk.ok /\ p.out = "none"
        BY <2>3, <1>8, <1>12
      <3>2. ~p.force
        BY <2>3, <3>1, <1>5, <1>9, <1>11, <1>13
      <3> QED
        BY <2>1, <2>3, <3>1, <3>2, <1>4, <1>5 DEF BlockKnown
    <2> QED
      BY <2>2, <2>3, <1>7, <1>16
  <1>17. q.state = "enforced" =>
           /\ q.sess # None /\ SeenSession(q.sess)
           /\ \A g \in q.want.gids : aria.opt[g] = q.want.val
    BY <1>1, LimitsTrue DEF stable
  <1>18. trk'.p.st = st /\ trk'.p.q = q /\ st.state = state /\ st.list = p.list /\ st.sess = sess
    BY <1>2
  <1> HIDE DEF st, q, sess, p, report
  <1>19. Session' = Session /\ aria' = aria
    BY <1>1 DEF Session
  <1>20. Believed'
    BY <1>2, <1>16, <1>17, <1>18, <1>19 DEF Believed, SeenSession
  <1> QED
    BY <1>14, <1>15, <1>20

LEMMA BelievedReports ==
    ASSUME BlockInductive, Believed,
           PassBlind \/ PassExport \/ PassStatus \/ TrackerRestart \/ PassStoreUnreadable
    PROVE  Believed'
  <1>1. DOMAIN trk = {"at", "known", "lastH", "lastS", "ok", "qH", "qS", "qOk", "p"}
    BY DEF BlockInductive, TrackerOK
  <1>2. CASE PassBlind \/ PassStatus \/ TrackerRestart
    <2>1. trk'.at = "idle"
      <3>1. CASE PassBlind
        BY <1>1, <3>1 DEF PassBlind
      <3>2. CASE PassStatus
        BY <1>1, <3>2 DEF PassStatus
      <3>3. CASE TrackerRestart
        BY <3>3 DEF TrackerRestart, FreshTracker
      <3> QED
        BY <1>2, <3>1, <3>2, <3>3
    <2> QED
      BY <2>1 DEF Believed
  <1>3. CASE PassStoreUnreadable
    <2>1. trk'.at = "qos" /\ trk'.p.blind
      BY <1>1, <1>3 DEF PassStoreUnreadable
    <2> QED
      BY <2>1 DEF Believed
  <1>4. CASE PassExport
    <2>1. trk.at = "export" /\ Report(trk.p) /\ UNCHANGED aria
      BY <1>4 DEF BlockInductive, PassOK, PassExport
    <2>2. trk'.at = "status" /\ trk'.p.q = trk.p.q /\ trk'.p.st = trk.p.st
      <3>1. ASSUME NEW ack, trk' = [trk EXCEPT !.at = "status", !.p.acked = ack]
            PROVE  <2>2!:
        BY <3>1, <1>1, <2>1 DEF Report
      <3>2. CASE trk' = [trk EXCEPT !.at = "status"]
        BY <3>2, <1>1
      <3> QED
        BY Zenon, <3>1, <3>2, <1>4 DEF PassExport
    <2> QED
      BY <2>1, <2>2 DEF Believed, SeenSession, Session
  <1> QED
    BY <1>2, <1>3, <1>4

LEMMA BelievedStep ==
    ASSUME BlockInductive, Believed, [BlockNext]_blockVars
    PROVE  Believed'
  <1>1. CASE PassStep
    BY <1>1, BelievedBegins, BelievedLimits, BelievedCalls, BelievedFinish, BelievedReports DEF PassStep
  <1>2. CASE PassStoreUnreadable \/ TrackerRestart
    BY <1>2, BelievedReports
  <1>3. CASE AriaStop \/ AriaStart \/ \E g \in Gids : Reseed(g)
    BY <1>3, BelievedAria
  <1>4. CASE \/ \E p \in Principals, ip \in Ips : Announce(p, ip) \/ Expire(p, ip)
             \/ \E ip \in Ips : RegistryRow(ip)
             \/ \E d \in Devices : Revoke(d)
             \/ SecretsReadable
             \/ SetQos \/ RestoreRevision \/ DamagePolicy \/ Approve
             \/ \E d \in Devices, s \in Verdicts : SetVerdict(d, s)
             \/ \E m \in {"preflight", "enforce"} : Preview(m)
             \/ UNCHANGED blockVars
    <2>1. UNCHANGED <<aria, trk>>
      BY <1>4 DEF Announce, RegistryRow, Expire, Revoke, SecretsReadable, SetQos, RestoreRevision,
                  DamagePolicy, Approve, SetVerdict, Preview, blockVars
    <2> QED
      BY <2>1, BelievedRests
  <1> QED
    BY <1>1, <1>2, <1>3, <1>4 DEF BlockNext

\* Only the end of a pass touches the files that say "enforced".
LEMMA OnlyPassesReport ==
    ASSUME [BlockNext]_blockVars
    PROVE  \/ PassFinish /\ UNCHANGED <<stat, qstat, aria>>
           \/ PassBlind /\ UNCHANGED <<proof, aria>>
           \/ PassStatus /\ UNCHANGED <<proof, aria>>
           \/ UNCHANGED <<stat, qstat, proof>>
  <1>1. CASE PassStep
    BY Zenon, <1>1 DEF PassStep, PassBegin, PassQos, PassBlind, PassNoApply, PassJournal, PassCall,
                PassFinish, PassExport, PassStatus
  <1>2. CASE ~PassStep
    BY <1>2 DEF BlockNext, PassStoreUnreadable, TrackerRestart, AriaStop, AriaStart, Reseed, RegistryRow,
                Announce, Expire, Revoke, SecretsReadable, SetQos, RestoreRevision,
                DamagePolicy, Approve, SetVerdict, Preview, blockVars
  <1> QED
    BY <1>1, <1>2

LEMMA EnforcedStep ==
    ASSUME BlockInductive, Believed, [BlockNext]_blockVars
    PROVE  EnforcedIsTrue
  <1>1. CASE UNCHANGED <<stat, qstat, proof>>
    BY <1>1 DEF EnforcedIsTrue
  <1>2. CASE PassFinish /\ UNCHANGED <<stat, qstat, aria>>
    BY <1>2, BelievedFinish DEF EnforcedIsTrue
  <1>3. CASE PassBlind /\ UNCHANGED <<proof, aria>>
    <2> DEFINE q == QosStatus(trk.p, SessionStable(trk.p))
    <2>1. /\ trk.at = "apply" /\ qstat' = q
          /\ \E ack : stat' = [stat EXCEPT !.state = "fail_closed", !.ack = ack]
      BY <1>3 DEF PassBlind
    <2>2. stat'.state = "fail_closed"
      BY <2>1 DEF BlockInductive, StatusOK
    <2>3. BlindPass(trk.p) \/ FullPass(trk.p)
      BY <2>1 DEF BlockInductive, PassOK
    <2>4. q.state = "enforced" => \A g \in q.want.gids : aria.opt[g] = q.want.val
      BY <2>1, <2>3, LimitsTrue
    <2> HIDE DEF q
    <2> QED
      BY <1>3, <2>1, <2>2, <2>4 DEF EnforcedIsTrue
  <1>4. CASE PassStatus /\ UNCHANGED <<proof, aria>>
    <2>1. trk.at = "status"
      BY <1>4 DEF PassStatus
    <2>2. /\ trk.p.st.state = "enforced" /\ trk.p.st.sess = Session => trk.p.st.list = aria.block
          /\ trk.p.q.state = "enforced" /\ trk.p.q.sess = Session =>
               \A g \in trk.p.q.want.gids : aria.opt[g] = trk.p.q.want.val
      BY <2>1 DEF Believed
    <2>3. CASE /\ \E ack : stat' = [state |-> trk.p.st.state, list |-> trk.p.st.list,
                                    sess |-> trk.p.st.sess, ack |-> ack]
               /\ qstat' = trk.p.q
      <3>1. stat'.state = trk.p.st.state /\ stat'.list = trk.p.st.list /\ stat'.sess = trk.p.st.sess
        BY <2>3
      <3> QED
        BY <2>2, <2>3, <3>1, <1>4 DEF EnforcedIsTrue
    <2>4. CASE /\ qstat' = [qstat EXCEPT !.state = "degraded"]
               /\ stat' = stat \/ \E ack : stat' = [stat EXCEPT !.state = "degraded", !.ack = ack]
      <3>1. qstat'.state = "degraded" /\ (stat' = stat \/ stat'.state = "degraded")
        BY <2>4 DEF BlockInductive, StatusOK
      <3> QED
        BY <3>1, <1>4 DEF EnforcedIsTrue
    <2> QED
      BY Zenon, <1>4, <2>3, <2>4 DEF PassStatus
  <1> QED
    BY <1>1, <1>2, <1>3, <1>4, OnlyPassesReport

----------------------------------------------------------------------------
(* The theorems.                                                           *)

\* The reconciler's files keep their shape and their outboxes their cap, and what
\* a pass remembers of aria2 is what aria2 holds, whatever policy edits, damaged
\* files, lost answers, aria2 and tracker restarts come between its steps.
THEOREM BlockingIsSafe == BlockSpec => []BlockingSafe
  BY BlockStarts, BlockStep, BlockImplies, PTL DEF BlockSpec

\* No step writes "enforced" of the running session into peer-enforcement.json,
\* origin-qos.json or the operator's proof while aria2 holds something else.
THEOREM EnforcedIsHeld == BlockSpec => [][EnforcedIsTrue]_blockVars
  <1>1. BlockSpec => [](BlockInductive /\ Believed)
    BY BlockStarts, BlockStep, BelievedStarts, BelievedStep, PTL DEF BlockSpec
  <1>2. BlockInductive /\ Believed /\ [BlockNext]_blockVars => [EnforcedIsTrue]_blockVars
    BY EnforcedStep
  <1> QED
    BY <1>1, <1>2, PTL DEF BlockSpec

\* A step of the two components together is a step, or a rest, of each.
LEMMA StepOfEach ==
    ASSUME [Next]_peerVars
    PROVE  [BlockNext]_blockVars /\ [AnnounceNext]_rotVars
  BY DEF Next, peerVars

\* Both components stay safe, run side by side: the tracker's memory of aria2 and
\* the rotation of the announce credential.
THEOREM PeersAreSafe == Spec => []PeersSafe
  <1>1. Init => BlockInductive /\ RotInductive
    BY BlockStarts, RotInit DEF Init
  <1>2. BlockInductive /\ RotInductive /\ [Next]_peerVars => (BlockInductive /\ RotInductive)'
    BY StepOfEach, BlockStep, RotStep
  <1>3. BlockInductive /\ RotInductive => PeersSafe
    BY BlockImplies, RotImplies DEF PeersSafe
  <1> QED
    BY <1>1, <1>2, <1>3, PTL DEF Spec

----------------------------------------------------------------------------
(* What the outbox keeps.                                                  *)

\* A document holds the operation that made another only together with that
\* document's older operations, and two documents of one epoch have one outbox.
Lineage(x, y) ==
    /\ \A e \in x.out : e.id = y.epoch =>
         e.rev = y.rev /\ \A i \in x.out : i.rev <= e.rev => i \in y.out
    /\ x.epoch = y.epoch => x.out = y.out

\* Operations are numbered from one, and no document is from the future.
Stamped(doc, last) ==
    doc.epoch <= last /\ \A e \in doc.out : 0 < e.rev /\ e.rev <= doc.rev /\ 0 < e.id /\ e.id <= last

Archive(docs, last) ==
    /\ docs \in SUBSET Documents /\ \A x \in docs : Stamped(x, last)
    /\ \A x \in docs, y \in docs : Lineage(x, y)

\* The documents a commit, a status or a failed pass may still speak of.
Papers == Kept(pf) \cup {base_document} \cup (IF trk.at = "idle" THEN {} ELSE {trk.p.res.doc})

\* What is acknowledged of a document was exported.
AckKept(docs, ack, exported) ==
    \A x \in docs : \A e \in x.out : e.rev <= effective_acked(x, ack) => e.id \in exported

AckOK(ack, last) == ack = [rev |-> ack.rev, epoch |-> ack.epoch]
                    /\ ack.rev \in Nat /\ ack.epoch \in Nat /\ ack.epoch <= last

\* So is what the pass is about to acknowledge.
HandKept(t, exported) ==
    t.at \in {"export", "status"} =>
        t.p.acked \in Nat /\ \A e \in t.p.res.doc.out : e.rev <= t.p.acked => e.id \in exported

Audited ==
    /\ Archive(Papers, ops.last) /\ AckOK(stat.ack, ops.last)
    /\ AckKept(Papers, stat.ack, ops.exported) /\ HandKept(trk, ops.exported)

LEMMA AuditRests ==
    ASSUME Audited, UNCHANGED <<stat, ops>>, Papers' \subseteq Papers, HandKept(trk, ops.exported)'
    PROVE  Audited'
  <1>1. Archive(Papers, ops.last)'
    BY DEF Audited, Archive
  <1>2. AckKept(Papers, stat.ack, ops.exported)'
    BY DEF Audited, AckKept, effective_acked
  <1> QED
    BY <1>1, <1>2 DEF Audited, AckOK

\* A new acknowledgement or more exports, of the same papers.
LEMMA AuditAgain ==
    ASSUME Audited, ops'.last = ops.last, Papers' \subseteq Papers, AckOK(stat'.ack, ops.last),
           AckKept(Papers, stat'.ack, ops'.exported), HandKept(trk, ops.exported)'
           \/ trk'.at = "idle"
    PROVE  Audited'
  <1>1. Archive(Papers, ops.last)'
    BY DEF Audited, Archive
  <1>2. AckKept(Papers, stat.ack, ops.exported)'
    BY DEF AckKept, effective_acked
  <1>3. HandKept(trk, ops.exported)'
    BY DEF HandKept
  <1> QED
    BY <1>1, <1>2, <1>3 DEF Audited, AckOK

\* An acknowledgement of one document is honest about every other.
LEMMA NewAck ==
    ASSUME NEW docs, NEW last \in Nat, Archive(docs, last), NEW doc \in docs, NEW r \in Nat,
           NEW exported, \A e \in doc.out : e.rev <= r => e.id \in exported
    PROVE  /\ AckOK([rev |-> r, epoch |-> doc.epoch], last)
           /\ AckKept(docs, [rev |-> r, epoch |-> doc.epoch], exported)
  <1> DEFINE ack == [rev |-> r, epoch |-> doc.epoch]
  <1>1. ack.rev = r /\ ack.epoch = doc.epoch
    OBVIOUS
  <1>2. doc.epoch \in Nat /\ doc.epoch <= last
    BY DEF Archive, Documents, Stamped
  <1>3. ASSUME NEW x \in docs, NEW e \in x.out, e.rev <= effective_acked(x, ack)
        PROVE  e.id \in exported
    <2>1. Lineage(x, doc) /\ 0 < e.rev /\ e.rev \in Nat
      <3>1. x \in Documents /\ Stamped(x, last) /\ Lineage(x, doc)
        BY DEF Archive
      <3> QED
        BY <3>1 DEF Documents, Entries, Stamped
    <2>2. CASE x.epoch = doc.epoch
      <3>1. effective_acked(x, ack) \in {r, 0}
        BY <1>1 DEF effective_acked
      <3>2. e.rev <= r
        BY <3>1, <2>1, <1>3
      <3> QED
        BY <2>1, <2>2, <3>2 DEF Lineage
    <2>3. CASE x.epoch # doc.epoch
      <3>1. PICK i \in x.out : i.rev = r /\ i.id = doc.epoch /\ e.rev <= r
        BY <1>1, <1>3, <2>1, <2>3 DEF effective_acked
      <3>2. e \in doc.out
        BY <2>1, <3>1 DEF Lineage
      <3> QED
        BY <3>1, <3>2
    <2> QED
      BY <2>2, <2>3
  <1> HIDE DEF ack
  <1>4. AckKept(docs, ack, exported)
    BY <1>3 DEF AckKept
  <1>5. AckOK(ack, last)
    BY <1>1, <1>2 DEF AckOK, ack
  <1> QED
    BY <1>4, <1>5 DEF ack

\* Initial documents have empty outboxes.
LEMMA AuditStarts == BlockInit => Audited
  <1> SUFFICES ASSUME BlockInit PROVE Audited
    OBVIOUS
  <1>1. PICK s \in BlockScenarios :
          /\ pf = [auth |-> s.doc, lkg |-> base_document, ring |-> {}, watermark |-> s.doc.roles]
          /\ stat = [state |-> "pending", list |-> None, sess |-> None, ack |-> [rev |-> 0, epoch |-> 0]]
          /\ trk = FreshTracker /\ ops = [last |-> s.doc.epoch, exported |-> {}]
    BY DEF BlockInit
  <1>2. s.doc \in [rev : Nat, say : [Devices -> {"open", "deny", "noorigin"}], qos : {0, 1},
                   roles : BOOLEAN, rolesPresent : BOOLEAN, out : {{}}, epoch : Nat]
    BY ScenarioAssumption
  <1>3. s.doc \in Documents /\ s.doc.out = {} /\ s.doc.epoch \in Nat
    BY <1>2 DEF Documents, Verdicts, Entries
  <1>4. ops.last = s.doc.epoch /\ stat.ack = [rev |-> 0, epoch |-> 0] /\ trk.at = "idle"
    BY <1>1 DEF FreshTracker
  <1>5. base_document \in Documents /\ base_document.out = {} /\ base_document.epoch = 0
    BY BaseDocument DEF base_document
  <1>6. Papers \subseteq {s.doc, base_document}
    BY <1>1, <1>4 DEF Papers, Kept
  <1>7. \A x \in Papers : x \in Documents /\ x.out = {} /\ x.epoch \in Nat /\ x.epoch <= ops.last
    BY <1>3, <1>4, <1>5, <1>6
  <1>8. Archive(Papers, ops.last) /\ AckKept(Papers, stat.ack, ops.exported)
    BY <1>7 DEF Archive, Stamped, Lineage, AckKept
  <1>9. AckOK(stat.ack, ops.last)
    BY <1>3, <1>4 DEF AckOK
  <1> QED
    BY <1>4, <1>8, <1>9 DEF Audited, HandKept

\* A bounded set of numbers has a greatest one.
LEMMA Greatest ==
    ASSUME NEW S \in SUBSET Nat, S # {}, NEW top \in Nat, \A x \in S : x <= top
    PROVE  Max(S) \in S /\ \A x \in S : x <= Max(S)
  <1> DEFINE R == OpToRel(<, Nat)
             T == {n \in Nat : \A x \in S : x <= n}
  <1>1. IsWellFoundedOn(R, Nat)
    BY NatLessThanWellFounded
  <1>2. \A m \in Nat, n \in Nat : m < n => <<m, n>> \in R
    BY DEF OpToRel
  <1>3. T \subseteq Nat /\ T # {}
    OBVIOUS
  <1> HIDE DEF R
  <1>4. PICK m \in T : \A n \in T : ~(<<n, m>> \in R)
    <2> HIDE DEF T
    <2> QED
      BY <1>1, <1>3, WFMin
  <1>5. m \in Nat /\ \A x \in S : x <= m
    OBVIOUS
  <1>6. m \in S
    <2> SUFFICES ASSUME m \notin S PROVE FALSE
      OBVIOUS
    <2>1. m # 0
      <3>1. PICK x \in S : x \in Nat /\ x <= m
        BY <1>5
      <3> QED
        BY <1>5, <3>1
    <2>2. m - 1 \in T
      BY <1>5, <2>1
    <2> QED
      <3>1. m - 1 \in Nat /\ m - 1 < m
        BY <1>5, <2>1
      <3>2. <<m - 1, m>> \in R
        BY <1>2, <1>5, <3>1
      <3> QED
        BY <1>4, <2>2, <3>2
  <1>7. \A y \in S : m >= y
    BY <1>5
  <1>8. \E x \in S : \A y \in S : x >= y
    BY <1>6, <1>7
  <1>9. Max(S) \in S /\ \A y \in S : Max(S) >= y
    BY <1>8 DEF Max
  <1> QED
    BY <1>9

\* The policy that is read is one of the papers.
LEMMA ReadsPapers ==
    ASSUME NEW f \in Files
    PROVE  load_policy(f).doc \in Kept(f) \cup {base_document}
  BY DEF load_policy, Kept, IsDoc

\* Starting a first policy adds none.
LEMMA StartsNoPaper ==
    ASSUME NEW f \in Files
    PROVE  Kept(InitializeIfAbsent(f)) \subseteq Kept(f) \cup {base_document}
  BY Initialized DEF Kept

\* Steps that leave the tracker and the outbox alone.
LEMMA AuditIdle ==
    ASSUME BlockInductive, Audited, UNCHANGED <<stat, ops, trk>>,
           Kept(pf') \subseteq Kept(pf) \cup {base_document}
    PROVE  Audited'
  <1>1. Papers' \subseteq Papers
    BY DEF Papers
  <1>2. HandKept(trk, ops.exported)'
    BY DEF Audited, HandKept
  <1> QED
    BY <1>1, <1>2, AuditRests

LEMMA AuditWorld ==
    ASSUME BlockInductive, Audited,
           \/ \E p \in Principals, ip \in Ips : Announce(p, ip) \/ Expire(p, ip)
           \/ \E ip \in Ips : RegistryRow(ip)
           \/ \E d \in Devices : Revoke(d)
           \/ SecretsReadable \/ Approve \/ UNCHANGED blockVars
           \/ AriaStop \/ AriaStart \/ \E g \in Gids : Reseed(g)
           \/ \E m \in {"preflight", "enforce"} : Preview(m)
           \/ DamagePolicy
    PROVE  Audited'
  <1>1. UNCHANGED <<stat, ops, trk>>
    BY DEF Announce, RegistryRow, Expire, Revoke, SecretsReadable, Approve, blockVars, AriaStop, AriaStart,
           Reseed, Preview, DamagePolicy
  <1>2. pf \in Files
    BY DEF BlockInductive, PolicyOK
  <1>3. CASE pf' = pf
    BY <1>1, <1>3, AuditIdle
  <1>4. CASE pf' = InitializeIfAbsent(pf)
    BY <1>1, <1>2, <1>4, StartsNoPaper, AuditIdle
  <1>5. CASE DamagePolicy
    <2>1. CASE pf' = [pf EXCEPT !.auth = Bad]
      BY <2>1, <1>1, <1>2, AuditIdle DEF Files, Kept
    <2>2. CASE \E x \in {Bad, Absent} : pf' = [pf EXCEPT !.auth = x, !.lkg = x]
      BY <2>2, <1>1, <1>2, AuditIdle DEF Files, Kept
    <2>3. CASE \E old \in pf.ring : pf' = [pf EXCEPT !.auth = old]
      BY <2>3, <1>1, <1>2, AuditIdle DEF Files, Kept
    <2>4. CASE IsDoc(pf.lkg) /\ pf' = [pf EXCEPT !.auth = pf.lkg]
      BY <2>4, <1>1, <1>2, AuditIdle DEF Files, Kept
    <2> QED
      BY <1>5, <2>1, <2>2, <2>3, <2>4 DEF DamagePolicy
  <1>6. DamagePolicy \/ pf' = pf \/ pf' = InitializeIfAbsent(pf)
    BY DEF Announce, RegistryRow, Expire, Revoke, SecretsReadable, Approve, blockVars, AriaStop, AriaStart,
           Reseed, Preview
  <1> QED
    BY <1>3, <1>4, <1>5, <1>6

\* What a pass reads, it has in its hands.
LEMMA ReadsInto ==
    ASSUME {"at", "known", "p"} \subseteq DOMAIN trk, NEW res, NEW rev, NEW wrote, NEW gone, NEW prune,
           PassReads(res, rev, wrote, gone, prune)
    PROVE  /\ trk'.at = "qos" /\ trk'.known = rev
           /\ trk'.p.res = res /\ trk'.p.blind = FALSE /\ trk'.p.rows = eps' /\ trk'.p.queue = pend
           /\ trk'.p.live = live
           /\ \E dur, base, org :
                /\ dur = fresh_endpoints(eps', res, rev) /\ base = derive_denied_set(res, dur, pend, live, rev)
                /\ org = Prepare(res, dur, pend, rev, base.block) /\ trk'.p.org = org
                /\ trk'.p.closed = base.closed
                /\ trk'.p.list = IF org.list = None THEN base.block ELSE org.list
  <1> DEFINE e1 == IF wrote
                   THEN [p \in Principals |-> IF pend[p] = None THEN eps[p]
                                              ELSE record_endpoint(eps[p], pend[p], gone[p])]
                   ELSE eps
             e2 == IF prune THEN Pruned(e1, res, rev) ELSE e1
             left == IF wrote THEN [p \in Principals |-> None] ELSE pend
             dur == fresh_endpoints(e2, res, rev)
             base == derive_denied_set(res, dur, pend, live, rev)
             org == Prepare(res, dur, pend, rev, base.block)
             list == IF org.list = None THEN base.block ELSE org.list
             force == \/ trk.lastH = None \/ Session # trk.lastS \/ ~trk.ok
                      \/ list # trk.lastH
                      \/ /\ org.on
                         /\ IF org.app.last = None THEN TRUE
                            ELSE org.app.last.rev # load_control.rev
             waiting == \E p \in Principals : left[p] # None
             mixed == base.shared # {}
             q == [blind |-> FALSE, res |-> res, rows |-> e2, queue |-> pend, live |-> live, waiting |-> waiting,
                   closed |-> base.closed, mixed |-> mixed, org |-> org,
                   list |-> list, sess |-> Session, out |-> "none", force |-> force,
                   qos |-> None, qout |-> "none"]
  <1>1. trk' = [trk EXCEPT !.at = "qos", !.known = rev, !.p = q] /\ eps' = e2
    <2>1. PassHolds(res, rev, wrote, gone, prune)
      BY PassReadsHolds
    <2> QED
      BY Zenon, <2>1 DEF PassHolds
  <1>2. dur = fresh_endpoints(e2, res, rev) /\ base = derive_denied_set(res, dur, pend, live, rev)
        /\ org = Prepare(res, dur, pend, rev, base.block)
        /\ list = IF org.list = None THEN base.block ELSE org.list
    OBVIOUS
  <1> HIDE DEF e2, dur, waiting, base, mixed, org, list, force
  <1>3. /\ q.res = res /\ q.blind = FALSE /\ q.rows = e2 /\ q.queue = pend /\ q.live = live
        /\ q.closed = base.closed /\ q.org = org /\ q.list = list
    OBVIOUS
  <1> HIDE DEF q
  <1>4. trk'.at = "qos" /\ trk'.known = rev /\ trk'.p = q
    BY <1>1
  <1>5. dur = fresh_endpoints(eps', res, rev)
    BY <1>1, <1>2
  <1> QED
    BY <1>1, <1>2, <1>3, <1>4, <1>5

\* A pass begins with a policy it has read.
LEMMA AuditBegins ==
    ASSUME BlockInductive, Audited, PassBegin \/ PassStoreUnreadable
    PROVE  Audited'
  <1>1. UNCHANGED <<stat, ops>> /\ pf' = InitializeIfAbsent(pf)
    BY DEF PassBegin, PassStoreUnreadable
  <1>2. pf \in Files /\ pf' \in Files /\ DOMAIN trk = {"at", "known", "lastH", "lastS", "ok", "qH", "qS", "qOk", "p"}
    BY <1>1, Initialized DEF BlockInductive, PolicyOK, TrackerOK
  <1>3. trk'.at = "qos" /\ trk'.p.res = load_policy(pf')
    <2>1. CASE PassBegin
      <3>1. \E wrote, prune, gone : PassReads(load_policy(pf'), RevokedView, wrote, gone, prune)
        BY <1>1, <2>1 DEF PassBegin
      <3> QED
        BY <1>2, <3>1, ReadsInto
    <2>2. CASE PassStoreUnreadable
      <3>1. PICK q : /\ q = [blind |-> TRUE, res |-> load_policy(pf'), sess |-> Session, qos |-> None,
                             qout |-> "none"]
                    /\ trk' = [trk EXCEPT !.at = "qos", !.known = RevokedView, !.p = q]
        BY <2>2 DEF PassStoreUnreadable
      <3> QED
        BY <1>2, <3>1
    <2> QED
      BY <2>1, <2>2
  <1>4. Papers' \subseteq Papers
    BY <1>1, <1>2, <1>3, ReadsPapers, StartsNoPaper DEF Papers
  <1>5. HandKept(trk, ops.exported)'
    BY <1>3 DEF HandKept
  <1> QED
    BY <1>1, <1>4, <1>5, AuditRests

\* What a pass has in its hands stays there until it ends.
InHands(a, b) ==
    /\ b.res = a.res /\ b.blind = a.blind
    /\ ~a.blind => /\ b.rows = a.rows /\ b.queue = a.queue /\ b.closed = a.closed
                   /\ b.live = a.live /\ b.list = a.list /\ b.org.on = a.org.on /\ b.org.list = a.org.list
                   /\ b.org.bind = a.org.bind /\ b.org.app.last = a.org.app.last
                   /\ b.org.app.shared = a.org.app.shared

LEMMA HandsStay ==
    ASSUME BlockInductive, PassQos \/ PassNoApply \/ PassJournal \/ PassCall
    PROVE  /\ trk'.at \in {"apply", "call", "finish"} /\ trk'.known = trk.known /\ InHands(trk.p, trk'.p)
           /\ PassQos => trk'.at = "apply"
  <1>1. {"at", "known", "p", "qOk"} \subseteq DOMAIN trk
    BY DEF BlockInductive, TrackerOK
  <1>2. BlindPass(trk.p) \/ FullPass(trk.p)
    BY Zenon DEF BlockInductive, PassOK, PassQos, PassNoApply, PassJournal, PassCall
  <1>3. /\ {"res", "blind", "qos", "qout"} \subseteq DOMAIN trk.p
        /\ ~trk.p.blind => FullPass(trk.p)
    BY <1>2 DEF BlindPass, FullPass
  <1>4. FullPass(trk.p) => /\ {"rows", "queue", "live", "closed", "list", "org", "out"} \subseteq DOMAIN trk.p
                           /\ {"on", "list", "bind", "app", "reason"} \subseteq DOMAIN trk.p.org
                           /\ {"last", "intent", "shared"} \subseteq DOMAIN trk.p.org.app
    BY DEF FullPass, OriginOK, JournalOK
  <1>5. ASSUME PassQos
        PROVE  trk'.at = "apply" /\ trk'.known = trk.known /\ InHands(trk.p, trk'.p)
    <2>1. \E t, ok, want, q : /\ t = [trk.p EXCEPT !.qos = want, !.qout = q]
                              /\ trk' = [trk EXCEPT !.at = "apply", !.qOk = ok, !.p = t]
      <3> DEFINE want == IF aria.up THEN [val |-> trk.p.res.doc.qos, gids |-> aria.gids] ELSE None
      <3>1. \/ trk' = [trk EXCEPT !.at = "apply", !.qOk = FALSE, !.p.qos = want, !.p.qout = "refused"]
            \/ trk' = [trk EXCEPT !.at = "apply", !.p.qos = want]
            \/ \E q : trk' = [trk EXCEPT !.at = "apply", !.p.qos = want, !.p.qout = q]
        BY Zenon, <1>5 DEF PassQos
      <3> HIDE DEF want
      <3>2. trk' = [trk EXCEPT !.at = "apply", !.qOk = FALSE, !.p.qos = want, !.p.qout = "refused"]
            => trk' = [trk EXCEPT !.at = "apply", !.qOk = FALSE, !.p = [trk.p EXCEPT !.qos = want, !.qout = "refused"]]
        BY <1>1, <1>3
      <3>3. trk' = [trk EXCEPT !.at = "apply", !.p.qos = want]
            => trk' = [trk EXCEPT !.at = "apply", !.qOk = trk.qOk,
                                  !.p = [trk.p EXCEPT !.qos = want, !.qout = trk.p.qout]]
        BY <1>1, <1>3
      <3>4. ASSUME NEW q, trk' = [trk EXCEPT !.at = "apply", !.p.qos = want, !.p.qout = q]
            PROVE  trk' = [trk EXCEPT !.at = "apply", !.qOk = trk.qOk,
                                      !.p = [trk.p EXCEPT !.qos = want, !.qout = q]]
        BY <1>1, <1>3, <3>4
      <3> QED
        BY Zenon, <3>1, <3>2, <3>3, <3>4
    <2>2. PICK t, ok, want, q : /\ t = [trk.p EXCEPT !.qos = want, !.qout = q]
                                /\ trk' = [trk EXCEPT !.at = "apply", !.qOk = ok, !.p = t]
      BY <2>1
    <2>3. trk'.at = "apply" /\ trk'.known = trk.known /\ trk'.p = t
      BY <2>2, <1>1
    <2>4. InHands(trk.p, t)
      BY <2>2, <1>3, <1>4 DEF InHands
    <2> QED
      BY <2>3, <2>4
  <1>6. ASSUME PassNoApply \/ PassCall
        PROVE  trk'.at = "finish" /\ trk'.known = trk.known /\ InHands(trk.p, trk'.p)
    <2>1. FullPass(trk.p)
      BY <1>3, <1>6 DEF PassNoApply, PassCall, BlockInductive, PassOK
    <2>2. \/ trk' = [trk EXCEPT !.at = "finish"]
          \/ \E out : trk' = [trk EXCEPT !.at = "finish", !.p.out = out]
          \/ trk' = [trk EXCEPT !.at = "finish", !.p.org.reason = "application_state_unavailable"]
      BY Zenon, <1>6 DEF PassNoApply, PassCall
    <2>3. CASE trk' = [trk EXCEPT !.at = "finish"]
      BY <2>3, <1>1 DEF InHands
    <2>4. ASSUME NEW out, trk' = [trk EXCEPT !.at = "finish", !.p.out = out]
          PROVE  trk'.at = "finish" /\ trk'.known = trk.known /\ InHands(trk.p, trk'.p)
      <3>1. trk'.at = "finish" /\ trk'.known = trk.known /\ trk'.p = [trk.p EXCEPT !.out = out]
        BY <2>4, <1>1
      <3> QED
        BY <2>1, <3>1, <1>3, <1>4 DEF InHands
    <2>5. CASE trk' = [trk EXCEPT !.at = "finish", !.p.org.reason = "application_state_unavailable"]
      <3> DEFINE o == [trk.p.org EXCEPT !.reason = "application_state_unavailable"]
      <3>1. trk'.at = "finish" /\ trk'.known = trk.known /\ trk'.p = [trk.p EXCEPT !.org = o]
        BY <2>5, <1>1
      <3>2. o.on = trk.p.org.on /\ o.list = trk.p.org.list /\ o.bind = trk.p.org.bind /\ o.app = trk.p.org.app
        BY <2>1, <1>4
      <3> HIDE DEF o
      <3> QED
        BY <2>1, <3>1, <3>2, <1>3, <1>4 DEF InHands
    <2> QED
      BY <2>2, <2>3, <2>4, <2>5
  <1>7. ASSUME PassJournal
        PROVE  trk'.at = "call" /\ trk'.known = trk.known /\ InHands(trk.p, trk'.p)
    <2>1. FullPass(trk.p)
      BY <1>3, <1>7 DEF PassJournal
    <2>2. PICK a, o, t : /\ a.last = trk.p.org.app.last /\ a.shared = trk.p.org.app.shared
                         /\ o = [trk.p.org EXCEPT !.app = a]
                         /\ t = [trk.p EXCEPT !.org = o]
                         /\ trk' = [trk EXCEPT !.at = "call", !.p = t]
      <3> DEFINE a == IF trk.p.org.on THEN [trk.p.org.app EXCEPT !.intent = Row(trk.p)] ELSE trk.p.org.app
      <3>1. trk' = [trk EXCEPT !.at = "call", !.p.org.app = a]
        BY <1>7 DEF PassJournal, JournalsFirst
      <3>2. a.last = trk.p.org.app.last /\ a.shared = trk.p.org.app.shared
        BY <1>4, <2>1
      <3> HIDE DEF a
      <3>3. trk' = [trk EXCEPT !.at = "call", !.p = [trk.p EXCEPT !.org = [trk.p.org EXCEPT !.app = a]]]
        BY <1>1, <1>4, <2>1, <3>1
      <3> QED
        BY <3>2, <3>3
    <2>3. trk'.at = "call" /\ trk'.known = trk.known /\ trk'.p = t
      BY <2>2, <1>1
    <2>4. /\ o.on = trk.p.org.on /\ o.list = trk.p.org.list /\ o.bind = trk.p.org.bind
          /\ o.app.last = trk.p.org.app.last /\ o.app.shared = trk.p.org.app.shared
      BY <2>1, <2>2, <1>4
    <2>5. InHands(trk.p, t)
      BY <2>1, <2>2, <2>4, <1>3, <1>4 DEF InHands
    <2> QED
      BY <2>3, <2>5
  <1> QED
    BY <1>5, <1>6, <1>7

\* Its calls leave that policy in its hands.
LEMMA AuditPasses ==
    ASSUME BlockInductive, Audited, PassQos \/ PassNoApply \/ PassJournal \/ PassCall
    PROVE  Audited'
  <1>1. UNCHANGED <<stat, ops, pf>> /\ trk.at \in {"qos", "apply", "call"}
    BY Zenon DEF PassQos, PassNoApply, PassJournal, PassCall
  <1>2. trk'.at \in {"apply", "call", "finish"} /\ trk'.p.res = trk.p.res
    BY HandsStay DEF InHands
  <1>3. Papers' \subseteq Papers /\ HandKept(trk, ops.exported)'
    BY <1>1, <1>2 DEF Papers, HandKept
  <1> QED
    BY <1>1, <1>3, AuditRests

\* The end of a pass that could not read the endpoints.
LEMMA AuditBlind ==
    ASSUME BlockInductive, Audited, PassBlind
    PROVE  Audited'
  <1> DEFINE doc == trk.p.res.doc
             acked == effective_acked(doc, stat.ack)
  <1>1. UNCHANGED <<pf, ops>> /\ trk.at = "apply" /\ trk'.at = "idle"
    <2>1. \E ok, s, h : trk' = [trk EXCEPT !.at = "idle", !.p = NoRead, !.qOk = ok, !.qS = s, !.qH = h]
      BY DEF PassBlind
    <2>2. "at" \in DOMAIN trk
      BY DEF BlockInductive, TrackerOK
    <2> QED
      BY <2>1, <2>2 DEF PassBlind
  <1>2. stat'.ack = [rev |-> acked, epoch |-> doc.epoch]
    BY DEF PassBlind, BlockInductive, StatusOK
  <1>3. doc \in Papers /\ Archive(Papers, ops.last) /\ ops.last \in Nat /\ Papers' \subseteq Papers
    BY <1>1 DEF Papers, Audited, BlockInductive, PolicyOK
  <1>4. \A e \in doc.out : e.rev <= acked => e.id \in ops.exported
    BY <1>3 DEF Audited, AckKept
  <1>5. acked \in Nat
    BY DEF effective_acked, Audited, AckOK
  <1> HIDE DEF doc, acked
  <1>6. AckOK(stat'.ack, ops.last) /\ AckKept(Papers, stat'.ack, ops.exported)
    BY <1>2, <1>3, <1>4, <1>5, NewAck
  <1> QED
    BY <1>1, <1>3, <1>6, AuditAgain

\* The end of a pass.
LEMMA FinishesInto ==
    ASSUME BlockInductive, PassFinish
    PROVE  /\ trk'.at = "export" /\ trk'.p.res = trk.p.res
           /\ trk'.p.acked = effective_acked(trk.p.res.doc, stat.ack)
  <1> DEFINE acked == effective_acked(trk.p.res.doc, stat.ack)
  <1>1. {"at", "ok", "lastS", "lastH", "qOk", "qS", "qH", "p"} \subseteq DOMAIN trk
    BY DEF BlockInductive, TrackerOK
  <1> DEFINE p == trk.p
             stable == SessionStable(p)
             outcome == IF p.out = "ok" /\ ~stable THEN "failed" ELSE p.out
             ok == CallOk(outcome, stable, trk.ok)
             reason == IF p.org.on /\ policy_hash(load_policy(pf)) # policy_hash(p.res)
                       THEN "policy_changed" ELSE p.org.reason
             success == /\ p.org.list # None /\ stable /\ (IF stable THEN trk.ok \/ outcome = "ok" ELSE FALSE)
                        /\ ~p.waiting /\ (p.force => outcome = "ok")
             lastS == IF outcome = "ok" THEN p.sess ELSE trk.lastS
             state == PassState(p, outcome, stable, ok, reason, success)
             q == QosStatus(p, stable)
             st == [state |-> state, list |-> p.list,
                    sess |-> IF outcome \in {"ok", "failed"} THEN p.sess
                             ELSE IF outcome = "none" THEN lastS ELSE None]
             report == [res |-> p.res, q |-> q, acked |-> acked, st |-> st]
  <1>2. trk' = [trk EXCEPT !.at = "export", !.ok = ok, !.lastS = lastS,
                      !.lastH = IF outcome = "ok" THEN p.list ELSE @,
                      !.qOk = q.state = "enforced",
                      !.qS = IF stable /\ p.qout = "ok" THEN p.sess ELSE @,
                      !.qH = IF stable /\ p.qout = "ok" THEN p.qos ELSE @,
                      !.p = report]
    BY DEF PassFinish
  <1> HIDE DEF ok, lastS, outcome, q, stable, st, acked
  <1>3. report.res = trk.p.res /\ report.acked = acked
    OBVIOUS
  <1> HIDE DEF report, p
  <1>4. trk'.at = "export" /\ trk'.p = report
    BY <1>1, <1>2
  <1> QED
    BY <1>3, <1>4 DEF acked

\* The end of a pass takes the acknowledgement it read into its hands.
LEMMA AuditFinish ==
    ASSUME BlockInductive, Audited, PassFinish
    PROVE  Audited'
  <1> DEFINE doc == trk.p.res.doc
             acked == effective_acked(doc, stat.ack)
  <1>1. UNCHANGED <<pf, ops, stat>> /\ trk.at = "finish"
    BY DEF PassFinish
  <1>2. trk'.at = "export" /\ trk'.p.res = trk.p.res /\ trk'.p.acked = acked
    BY FinishesInto
  <1>3. doc \in Papers
    BY <1>1 DEF Papers
  <1>4. \A e \in doc.out : e.rev <= acked => e.id \in ops.exported
    BY <1>3 DEF Audited, AckKept
  <1>5. acked \in Nat
    BY DEF effective_acked, Audited, AckOK
  <1>6. HandKept(trk, ops.exported)'
    BY <1>1, <1>2, <1>4, <1>5 DEF HandKept
  <1>7. Papers' \subseteq Papers
    BY <1>1, <1>2 DEF Papers
  <1> QED
    BY <1>1, <1>6, <1>7, AuditRests

\* The export: whatever the number of the last operation, all of them are out.
LEMMA AuditExports ==
    ASSUME BlockInductive, Audited, PassExport
    PROVE  Audited'
  <1> DEFINE doc == trk.p.res.doc
             due == {e \in doc.out : e.rev > trk.p.acked}
             revs == {e.rev : e \in due}
  <1>1. UNCHANGED <<pf, stat>> /\ trk.at = "export"
    BY DEF PassExport
  <1>2. "at" \in DOMAIN trk /\ "p" \in DOMAIN trk /\ {"res", "acked"} \subseteq DOMAIN trk.p
    BY <1>1 DEF BlockInductive, TrackerOK, PassOK, Report
  <1>3. doc \in Papers /\ doc \in Documents /\ Stamped(doc, ops.last) /\ trk.p.acked \in Nat
    BY <1>1 DEF Papers, Audited, Archive, HandKept
  <1>4. \A e \in doc.out : e.rev \in Nat /\ e.rev <= doc.rev /\ doc.rev \in Nat
    BY <1>3 DEF Documents, Entries, Stamped
  <1>5. \A e \in doc.out : e.rev <= trk.p.acked => e.id \in ops.exported
    BY <1>1 DEF Audited, HandKept
  <1>6. CASE /\ ops' = [ops EXCEPT !.exported = @ \cup {e.id : e \in due}]
             /\ trk' = [trk EXCEPT !.at = "status", !.p.acked = IF due = {} THEN @ ELSE Max(revs)]
    <2> DEFINE acked == IF due = {} THEN trk.p.acked ELSE Max(revs)
    <2>1. acked \in Nat
      <3>1. CASE due = {}
        BY <3>1, <1>3
      <3>2. CASE due # {}
        <4>1. revs \in SUBSET Nat /\ revs # {} /\ \A x \in revs : x <= doc.rev
          BY <1>4, <3>2
        <4>2. doc.rev \in Nat
          BY <1>3 DEF Documents
        <4> HIDE DEF revs, due, doc
        <4>3. Max(revs) \in revs
          BY <4>1, <4>2, Greatest
        <4> QED
          BY <3>2, <4>1, <4>3
      <3> QED
        BY <3>1, <3>2
    <2>2. trk' = [trk EXCEPT !.at = "status", !.p.acked = acked]
      BY <1>6
    <2> HIDE DEF acked
    <2>3. trk'.at = "status" /\ trk'.p.acked = acked /\ trk'.p.res = trk.p.res
      BY <1>2, <2>2
    <2>4. ops'.last = ops.last /\ ops'.exported = ops.exported \cup {e.id : e \in due}
      BY <1>6 DEF BlockInductive, PolicyOK
    <2>5. \A e \in doc.out : e.id \in ops'.exported
      <3> SUFFICES ASSUME NEW e \in doc.out PROVE e.id \in ops'.exported
        OBVIOUS
      <3>1. e.rev <= trk.p.acked \/ e \in due
        BY <1>3, <1>4
      <3> QED
        BY <1>5, <2>4, <3>1
    <2>6. HandKept(trk, ops.exported)'
      BY <2>1, <2>3, <2>5 DEF HandKept
    <2>7. Papers' \subseteq Papers
      BY <1>1, <2>3 DEF Papers
    <2>8. AckOK(stat.ack, ops.last)' /\ AckKept(Papers, stat'.ack, ops'.exported)
      BY <1>1, <2>4 DEF Audited, AckOK, AckKept
    <2> QED
      BY <1>1, <2>4, <2>6, <2>7, <2>8, AuditAgain
  <1>7. CASE trk' = [trk EXCEPT !.at = "status"] /\ UNCHANGED ops
    <2>1. trk'.at = "status" /\ trk'.p = trk.p
      BY <1>2, <1>7
    <2>2. Papers' \subseteq Papers /\ HandKept(trk, ops.exported)'
      BY <1>1, <1>7, <2>1 DEF Papers, Audited, HandKept
    <2> QED
      BY <1>1, <1>7, <2>2, AuditRests
  <1> QED
    BY <1>6, <1>7 DEF PassExport

\* The status file: the new acknowledgement, or a failed pass's.
LEMMA AuditReports ==
    ASSUME BlockInductive, Audited, PassStatus
    PROVE  Audited'
  <1>1. UNCHANGED <<pf, ops>> /\ trk.at = "status" /\ trk'.at = "idle"
    BY DEF PassStatus, BlockInductive, TrackerOK
  <1>2. Papers' \subseteq Papers /\ ops.last \in Nat /\ Archive(Papers, ops.last) /\ pf \in Files
    BY <1>1 DEF Papers, BlockInductive, PolicyOK, Audited
  <1>3. CASE stat'.ack = [rev |-> trk.p.acked, epoch |-> trk.p.res.doc.epoch]
    <2>1. trk.p.res.doc \in Papers
      BY <1>1 DEF Papers
    <2>2. trk.p.acked \in Nat /\ \A e \in trk.p.res.doc.out : e.rev <= trk.p.acked => e.id \in ops.exported
      BY <1>1 DEF Audited, HandKept
    <2>3. AckOK(stat'.ack, ops.last) /\ AckKept(Papers, stat'.ack, ops.exported)
      BY <1>2, <1>3, <2>1, <2>2, NewAck
    <2> QED
      BY <1>1, <1>2, <2>3, AuditAgain
  <1>4. CASE stat' = stat
    BY <1>1, <1>2, <1>4, AuditRests DEF HandKept
  <1>5. CASE stat'.ack = [rev |-> effective_acked(load_policy(pf).doc, stat.ack),
                          epoch |-> load_policy(pf).doc.epoch]
    <2> DEFINE doc == load_policy(pf).doc
               acked == effective_acked(doc, stat.ack)
    <2>1. doc \in Papers
      BY <1>2, ReadsPapers DEF Papers
    <2>2. \A e \in doc.out : e.rev <= acked => e.id \in ops.exported
      BY <2>1 DEF Audited, AckKept
    <2>3. acked \in Nat
      BY DEF effective_acked, Audited, AckOK
    <2>4. stat'.ack = [rev |-> acked, epoch |-> doc.epoch]
      BY <1>5
    <2> HIDE DEF doc, acked
    <2>5. AckOK(stat'.ack, ops.last) /\ AckKept(Papers, stat'.ack, ops.exported)
      BY <1>2, <2>1, <2>2, <2>3, <2>4, NewAck
    <2> QED
      BY <1>1, <1>2, <2>5, AuditAgain
  <1>6. \/ stat'.ack = [rev |-> trk.p.acked, epoch |-> trk.p.res.doc.epoch]
        \/ stat' = stat
        \/ stat'.ack = [rev |-> effective_acked(load_policy(pf).doc, stat.ack),
                        epoch |-> load_policy(pf).doc.epoch]
    <2> DEFINE told == [rev |-> trk.p.acked, epoch |-> trk.p.res.doc.epoch]
               again == [rev |-> effective_acked(load_policy(pf).doc, stat.ack),
                         epoch |-> load_policy(pf).doc.epoch]
    <2>1. CASE stat' = [state |-> trk.p.st.state, list |-> trk.p.st.list, sess |-> trk.p.st.sess,
                        ack |-> told]
      BY <2>1
    <2>2. CASE stat' = [stat EXCEPT !.state = "degraded", !.ack = again]
      <3> HIDE DEF again
      <3>1. stat'.ack = again
        BY <2>2 DEF BlockInductive, StatusOK
      <3> QED
        BY <3>1 DEF again
    <2> QED
      BY <2>1, <2>2 DEF PassStatus
  <1> QED
    BY <1>3, <1>4, <1>5, <1>6

\* A new document keeps what its predecessor's outbox still owed.
NewPaper(prior, new, ack, last) ==
    /\ new.rev = prior.rev + 1 /\ new.epoch = last + 1
    /\ new.out = Unacked(prior, ack) \cup {[rev |-> prior.rev + 1, id |-> last + 1]}

LEMMA NewPaperFits ==
    ASSUME NEW docs, NEW last \in Nat, Archive(docs, last), NEW prior \in docs, NEW new \in Documents,
           NEW ack, AckOK(ack, last), NewPaper(prior, new, ack, last),
           NEW exported, AckKept(docs, ack, exported)
    PROVE  Archive(docs \cup {new}, last + 1) /\ AckKept(docs \cup {new}, ack, exported)
  <1> DEFINE op == [rev |-> prior.rev + 1, id |-> last + 1]
  <1>1. \A x \in docs : /\ x \in Documents /\ x.epoch \in Nat /\ x.epoch <= last /\ x.rev \in Nat
                        /\ \A e \in x.out : /\ e.rev \in Nat /\ e.id \in Nat /\ 0 < e.rev
                                            /\ e.rev <= x.rev /\ 0 < e.id /\ e.id <= last
    <2> SUFFICES ASSUME NEW x \in docs
                 PROVE  /\ x \in Documents /\ x.epoch \in Nat /\ x.epoch <= last /\ x.rev \in Nat
                        /\ \A e \in x.out : /\ e.rev \in Nat /\ e.id \in Nat /\ 0 < e.rev
                                            /\ e.rev <= x.rev /\ 0 < e.id /\ e.id <= last
      OBVIOUS
    <2>1. x \in Documents /\ Stamped(x, last)
      BY DEF Archive
    <2> QED
      BY <2>1 DEF Documents, Entries, Stamped
  <1>2. op.rev = prior.rev + 1 /\ op.id = last + 1 /\ new.out = Unacked(prior, ack) \cup {op}
    BY DEF NewPaper
  <1> HIDE DEF op
  <1>3. new.rev = prior.rev + 1 /\ new.epoch = last + 1
    BY DEF NewPaper
  <1>4. \A e \in new.out : e = op \/ (e \in prior.out /\ e.rev > effective_acked(prior, ack))
    BY <1>2 DEF Unacked
  <1>5. \A e \in new.out : 0 < e.rev /\ e.rev <= new.rev /\ 0 < e.id /\ e.id <= last + 1
    <2> SUFFICES ASSUME NEW e \in new.out
                 PROVE  0 < e.rev /\ e.rev <= new.rev /\ 0 < e.id /\ e.id <= last + 1
      OBVIOUS
    <2>1. CASE e = op
      BY <2>1, <1>1, <1>2, <1>3
    <2>2. CASE e \in prior.out
      BY <2>2, <1>1, <1>3
    <2> QED
      BY <2>1, <2>2, <1>4
  <1>6. Stamped(new, last + 1)
    BY <1>3, <1>5 DEF Stamped
  <1>7. ASSUME NEW x \in docs PROVE Stamped(x, last + 1)
    <2>1. \A e \in x.out : 0 < e.rev /\ e.rev <= x.rev /\ 0 < e.id /\ e.id <= last + 1
      BY <1>1
    <2>2. x.epoch <= last + 1
      BY <1>1
    <2> QED
      BY <2>1, <2>2 DEF Stamped
  <1>8. ASSUME NEW y \in docs PROVE Lineage(new, y)
    <2>1. Lineage(prior, y)
      BY DEF Archive
    <2>2. new.epoch # y.epoch
      BY <1>1, <1>3
    <2>3. ASSUME NEW e \in new.out, e.id = y.epoch
          PROVE  e.rev = y.rev /\ \A i \in new.out : i.rev <= e.rev => i \in y.out
      <3>1. e # op
        BY <1>1, <1>2, <2>3
      <3>2. e \in prior.out
        BY <3>1, <1>4
      <3>3. \A i \in new.out : i.rev <= e.rev => i \in prior.out
        <4>1. e.rev <= prior.rev /\ e.rev \in Nat /\ prior.rev \in Nat
          BY <3>2, <1>1
        <4>2. ~(op.rev <= e.rev)
          BY <4>1, <1>2
        <4> QED
          BY <4>2, <1>4
      <3> QED
        BY <2>1, <2>3, <3>2, <3>3 DEF Lineage
    <2> QED
      BY <2>2, <2>3 DEF Lineage
  <1>9. ASSUME NEW x \in docs PROVE Lineage(x, new)
    <2>1. x.epoch # new.epoch
      BY <1>1, <1>3
    <2>2. \A e \in x.out : e.id # new.epoch
      BY <1>1, <1>3
    <2> QED
      BY <2>1, <2>2 DEF Lineage
  <1>10. Lineage(new, new)
    <2>1. ASSUME NEW e \in new.out, e.id = new.epoch PROVE e.rev = new.rev
      <3>1. CASE e = op
        BY <3>1, <1>2, <1>3
      <3>2. CASE e \in prior.out
        BY <3>2, <2>1, <1>1, <1>3
      <3> QED
        BY <3>1, <3>2, <1>4
    <2> QED
      BY <2>1 DEF Lineage
  <1>11. Archive(docs \cup {new}, last + 1)
    <2>1. docs \cup {new} \in SUBSET Documents
      BY <1>1
    <2>2. \A x \in docs \cup {new} : Stamped(x, last + 1)
      BY <1>6, <1>7
    <2>3. \A x \in docs \cup {new}, y \in docs \cup {new} : Lineage(x, y)
      <3>1. \A x \in docs, y \in docs : Lineage(x, y)
        BY DEF Archive
      <3> QED
        BY <3>1, <1>8, <1>9, <1>10
    <2> QED
      BY <2>1, <2>2, <2>3 DEF Archive
  <1>12. effective_acked(new, ack) = 0
    <2>1. ack.rev \in Nat /\ ack.epoch \in Nat /\ ack.epoch <= last
      BY DEF AckOK
    <2>2. ack.epoch # new.epoch
      BY <2>1, <1>3
    <2>3. ASSUME NEW e \in new.out, e.rev = ack.rev, e.id = ack.epoch PROVE FALSE
      <3>1. e # op
        BY <2>1, <2>3, <1>2
      <3>2. e \in prior.out /\ e.rev > effective_acked(prior, ack)
        BY <3>1, <1>4
      <3>3. effective_acked(prior, ack) = ack.rev
        BY <3>2, <2>3, <1>1 DEF effective_acked
      <3> QED
        BY <2>1, <2>3, <3>2, <3>3
    <2> QED
      BY <2>2, <2>3 DEF effective_acked
  <1>13. AckKept({new}, ack, exported)
    <2>1. \A e \in new.out : ~(e.rev <= 0)
      <3> SUFFICES ASSUME NEW e \in new.out PROVE ~(e.rev <= 0)
        OBVIOUS
      <3>1. e.rev \in Nat
        BY <1>1, <1>2, <1>4
      <3> QED
        BY <3>1, <1>5
    <2> QED
      BY <2>1, <1>12 DEF AckKept
  <1> QED
    BY <1>11, <1>13 DEF AckKept

\* commit_mutation: the new document joins the papers, and what the old outbox
\* held and the new one does not was exported.
LEMMA AuditCommits ==
    ASSUME BlockInductive, Audited, UNCHANGED <<stat, trk>>, pf' \in Files,
           NEW content, Commit(content)
    PROVE  Audited' /\ NoOperationLost
  <1> DEFINE f == InitializeIfAbsent(pf)
             prior == f.auth
             new == pf'.auth
             ring == {d \in f.ring : d.rev # prior.rev} \cup (IF prior.rev = 0 THEN {} ELSE {prior})
             out == Unacked(prior, stat.ack)
             op == [rev |-> prior.rev + 1, id |-> ops.last + 1]
             present == content.roles \/ prior.rolesPresent
             made == [rev |-> prior.rev + 1, say |-> content.say, qos |-> content.qos,
                      roles |-> content.roles, rolesPresent |-> present,
                      out |-> out \cup {op}, epoch |-> ops.last + 1]
  <1>1. pf \in Files /\ f \in Files /\ f.ring = pf.ring /\ ops.last \in Nat
    BY Initialized DEF BlockInductive, PolicyOK
  <1>2. /\ IsDoc(prior) /\ ops' = [ops EXCEPT !.last = @ + 1]
        /\ pf' = [auth |-> made, lkg |-> prior, watermark |-> f.watermark \/ present,
                  ring |-> Newest(ring, RingSize)]
    BY DEF Commit
  <1>3. ops'.last = ops.last + 1 /\ ops'.exported = ops.exported
    BY <1>2 DEF BlockInductive, PolicyOK
  <1>4. prior \in Papers
    <2>1. prior \in Kept(f)
      BY <1>2 DEF Kept, IsDoc
    <2> QED
      BY <2>1, <1>1, StartsNoPaper DEF Papers
  <1>5. pf'.auth = made /\ pf'.lkg = prior /\ pf'.ring = Newest(ring, RingSize)
    <2> HIDE DEF made, prior, present, ring, f
    <2> QED
      BY <1>2
  <1>6. made.rev = prior.rev + 1 /\ made.epoch = ops.last + 1 /\ made.out = out \cup {op}
    <2> HIDE DEF prior, present, out, op
    <2> QED
      OBVIOUS
  <1>7. NewPaper(prior, new, stat.ack, ops.last)
    <2> HIDE DEF made, prior
    <2> QED
      BY <1>5, <1>6 DEF NewPaper
  <1>8. prior \in Documents
    BY <1>4 DEF Audited, Archive
  <1>9. new \in Documents
    <2> HIDE DEF prior
    <2>1. new # Bad /\ new # Absent
      <3>1. new.rev = prior.rev + 1 /\ "rev" \in DOMAIN made
        BY <1>5, <1>6
      <3>2. "rev" \in DOMAIN new
        <4> HIDE DEF made
        <4> QED
          BY <3>1, <1>5
      <3>3. "rev" \notin DOMAIN Bad /\ "rev" \notin DOMAIN Absent
        BY DEF Bad, Absent
      <3> QED
        BY <3>2, <3>3
    <2> QED
      BY <2>1 DEF Files
  <1> HIDE DEF made, prior, new, f, out, op
  <1>10. Kept(pf') \subseteq Kept(pf) \cup {base_document, prior, new}
    <2>1. Newest(ring, RingSize) \subseteq ring
      <3> HIDE DEF ring
      <3> QED
        BY DEF Newest
    <2>2. ring \subseteq pf.ring \cup {prior}
      BY <1>1
    <2>3. pf.ring \ {Bad, Absent} \subseteq Kept(pf)
      BY DEF Kept
    <2> HIDE DEF ring
    <2> QED
      BY <1>5, <2>1, <2>2, <2>3 DEF Kept, new
  <1>11. Papers' \subseteq Papers \cup {new}
    BY <1>4, <1>10 DEF Papers
  <1>12. /\ Archive(Papers \cup {new}, ops.last + 1)
         /\ AckKept(Papers \cup {new}, stat.ack, ops.exported)
    BY <1>1, <1>4, <1>7, <1>9, NewPaperFits DEF Audited
  <1>13. Archive(Papers, ops.last)'
    BY <1>3, <1>11, <1>12 DEF Archive
  <1>14. AckKept(Papers, stat.ack, ops.exported)'
    BY <1>3, <1>11, <1>12 DEF AckKept, effective_acked
  <1>15. AckOK(stat.ack, ops.last)'
    BY <1>1, <1>3 DEF Audited, AckOK
  <1>16. HandKept(trk, ops.exported)'
    BY <1>3 DEF Audited, HandKept
  <1>17. NoOperationLost
    <2> SUFFICES ASSUME IsDoc(pf.auth), NEW e \in pf.auth.out \ pf'.auth.out
                 PROVE  e.id \in ops.exported
      BY DEF NoOperationLost
    <2>1. prior = pf.auth
      BY DEF prior, f, InitializeIfAbsent, IsDoc
    <2>2. e \in prior.out /\ e \notin Unacked(prior, stat.ack)
      BY <1>7, <2>1 DEF NewPaper, new
    <2>3. e.rev \in Nat /\ effective_acked(prior, stat.ack) \in Nat
      BY <2>2, <1>8 DEF Documents, Entries, effective_acked, Audited, AckOK
    <2>4. e.rev <= effective_acked(prior, stat.ack)
      BY <2>2, <2>3 DEF Unacked
    <2> QED
      BY <2>2, <2>4, <1>4 DEF Audited, AckKept
  <1> QED
    BY <1>13, <1>14, <1>15, <1>16, <1>17 DEF Audited

\* A restarted tracker has nothing in its hands.
LEMMA AuditRestarts ==
    ASSUME Audited, TrackerRestart
    PROVE  Audited'
  <1>1. UNCHANGED <<pf, stat, ops>> /\ trk'.at = "idle"
    BY DEF TrackerRestart, FreshTracker
  <1>2. Papers' \subseteq Papers /\ HandKept(trk, ops.exported)'
    BY <1>1 DEF Papers, HandKept
  <1> QED
    BY <1>1, <1>2, AuditRests

\* Only a commit makes an operation.
LEMMA OnlyCommitsCount ==
    ASSUME BlockInductive,
           \/ PassStep \/ PassStoreUnreadable \/ TrackerRestart \/ AriaStop \/ AriaStart
           \/ SecretsReadable \/ DamagePolicy \/ Approve
           \/ \E p \in Principals, ip \in Ips : Announce(p, ip) \/ Expire(p, ip)
           \/ \E ip \in Ips : RegistryRow(ip)
           \/ \E m \in {"preflight", "enforce"} : Preview(m)
           \/ \E d \in Devices : Revoke(d)
           \/ \E g \in Gids : Reseed(g)
           \/ UNCHANGED blockVars
    PROVE  NoOperationLost
  <1>1. ops'.last = ops.last
    <2>1. CASE PassExport
      <3>1. ops' = ops \/ \E x : ops' = [ops EXCEPT !.exported = x]
        BY <2>1 DEF PassExport
      <3> QED
        BY <3>1 DEF BlockInductive, PolicyOK
    <2>2. CASE ~PassExport
      <3>1. ops' = ops
        BY Zenon, <2>2 DEF PassStep, PassBegin, PassQos, PassBlind, PassNoApply, PassJournal, PassCall,
                    PassFinish, PassStatus, PassStoreUnreadable, TrackerRestart, AriaStop, AriaStart,
                    SecretsReadable, DamagePolicy, Approve, Announce, RegistryRow, Expire, Preview, Revoke, Reseed,
                    blockVars, PassReads
      <3> QED
        BY <3>1
    <2> QED
      BY <2>1, <2>2
  <1>2. ops.last \in Nat
    BY DEF BlockInductive, PolicyOK
  <1> QED
    BY <1>1, <1>2 DEF NoOperationLost

LEMMA AuditStep ==
    ASSUME BlockInductive, Audited, [BlockNext]_blockVars
    PROVE  Audited' /\ NoOperationLost
  <1>1. CASE PassStep
    BY <1>1, AuditBegins, AuditPasses, AuditBlind, AuditFinish, AuditExports, AuditReports,
       OnlyCommitsCount DEF PassStep
  <1>2. CASE PassStoreUnreadable \/ TrackerRestart
    BY <1>2, AuditBegins, AuditRestarts, OnlyCommitsCount
  <1>3. CASE SetQos \/ RestoreRevision \/ \E d \in Devices, s \in Verdicts : SetVerdict(d, s)
    <2>1. \E content : Commit(content)
      BY <1>3 DEF SetQos, RestoreRevision, SetVerdict
    <2>2. UNCHANGED <<stat, trk>>
      BY <1>3 DEF SetQos, RestoreRevision, SetVerdict
    <2>3. pf' \in Files
      BY BlockStep DEF BlockInductive, PolicyOK
    <2> QED
      BY <2>1, <2>2, <2>3, AuditCommits
  <1>4. CASE \/ \E p \in Principals, ip \in Ips : Announce(p, ip) \/ Expire(p, ip)
             \/ \E ip \in Ips : RegistryRow(ip)
             \/ \E d \in Devices : Revoke(d)
             \/ SecretsReadable \/ Approve \/ UNCHANGED blockVars
             \/ AriaStop \/ AriaStart \/ \E g \in Gids : Reseed(g)
             \/ \E m \in {"preflight", "enforce"} : Preview(m)
             \/ DamagePolicy
    BY <1>4, AuditWorld, OnlyCommitsCount
  <1> QED
    BY <1>1, <1>2, <1>3, <1>4 DEF BlockNext

\* No committed policy operation is lost from the audit trail: whatever passes
\* fail, whichever status or policy file is lost or put back, commit_mutation
\* drops from the outbox only what _export_outbox has exported.
THEOREM OperationsReachTheTrail == BlockSpec => [][NoOperationLost]_blockVars
  <1>1. BlockSpec => [](BlockInductive /\ Audited)
    BY BlockStarts, BlockStep, AuditStarts, AuditStep, PTL DEF BlockSpec
  <1>2. BlockInductive /\ Audited /\ [BlockNext]_blockVars => [NoOperationLost]_blockVars
    BY AuditStep
  <1> QED
    BY <1>1, <1>2, PTL DEF BlockSpec

----------------------------------------------------------------------------
(* Why an address is blocked or released.                                  *)

\* KnownAt, of rows, queue and control as they were read.
Where(rows, queue, c, x, ip) ==
    \/ rows[x][ip] # "none" \/ queue[x] = ip
    \/ \E b \in approved_bindings(c) : b.ip = ip /\ x \in b.devs
Knows(p, c, ip) == {x \in Principals : Where(p.rows, p.queue, c, x, ip)}

\* What is on the list of a pass has a reason to be, and what is not, too.
Added(p, known, c) ==
    \A ip \in p.list :
        \/ \E d \in Devices : Where(p.rows, p.queue, c, d, ip) /\ (p.closed \/ Denied(p.res, known, d))
        \/ p.closed /\ ip \in p.live
        \/ ip \in AddressesOf(p.org.bind)
        \/ p.org.app.last # None /\ ip \in p.org.app.last.list
Freed(p, known, c, block) ==
    \A ip \in block \ p.list :
        \/ ip \in p.org.app.shared
        \/ /\ Knows(p, c, ip) \cap DeniedSet(p.res, known) # {} =>
                ~ Knows(p, c, ip) \subseteq DeniedSet(p.res, known)
           /\ ip \in AddressesOf(approved_bindings(c)) =>
                \/ ~ Knows(p, c, ip) \subseteq OriginDenied(p.res, known)
                \/ p.org.app.last # None /\ ip \in p.org.app.last.list \ AddressesOf(p.org.app.last.bind)

\* With restrictions in force and no attempt undecided, aria2 holds nothing that
\* is not on the list acknowledged last.
Backed == load_control.rev # 0 /\ app # Absent /\ app.intent = None /\ app.last # None
          => aria.block \subseteq app.last.list
ControlFits == load_control.rev \in Nat /\ (load_control.rev = 0 => load_control.appr = None)
Planned ==
    trk.at \in {"qos", "apply", "call"} /\ ~trk.p.blind =>
        /\ ~trk.p.org.on => load_control.rev = 0
        /\ trk.p.org.list # None =>
             /\ trk.p.list = trk.p.org.list
             /\ Added(trk.p, trk.known, load_control)
             /\ Freed(trk.p, trk.known, load_control, aria.block)
        /\ trk.at = "call" => trk.p.org.list # None /\ (trk.p.org.on => app.intent # None)

Reviewed == Backed /\ ControlFits /\ Planned

\* The derived list: a denied device at every address of it, and every address
\* that only denied devices use.
LEMMA Derived ==
    ASSUME NEW res, NEW m, NEW pnd, NEW act, NEW rev, res.closed \in BOOLEAN, NEW ip
    PROVE  /\ derive_denied_set(res, m, pnd, act, rev).closed = res.closed
           /\ ip \in derive_denied_set(res, m, pnd, act, rev).block =>
                \/ \E d \in Devices : (ip \in m[d] \/ pnd[d] = ip) /\ (res.closed \/ Denied(res, rev, d))
                \/ res.closed /\ ip \in act
           /\ /\ ip \in Blockable /\ At(m, pnd, ip) \cap DeniedSet(res, rev) # {}
              /\ At(m, pnd, ip) \subseteq DeniedSet(res, rev)
              => ip \in derive_denied_set(res, m, pnd, act, rev).block
  <1>1. Devices \subseteq Principals /\ DeniedSet(res, rev) \subseteq Devices
    BY DEF Principals, DeniedSet
  <1>2. CASE res.closed
    <2> DEFINE block == {i \in Ips \ {OriginIp} : At(m, pnd, i) \cap Devices # {} \/ i \in act}
    <2>1. derive_denied_set(res, m, pnd, act, rev) = [block |-> block, shared |-> {}, closed |-> TRUE]
      BY <1>2 DEF derive_denied_set
    <2>2. /\ derive_denied_set(res, m, pnd, act, rev).block = block
          /\ derive_denied_set(res, m, pnd, act, rev).closed = TRUE
      <3> HIDE DEF block
      <3> QED
        BY <2>1
    <2>3. ip \in block => (\E d \in Devices : ip \in m[d] \/ pnd[d] = ip) \/ ip \in act
      BY DEF At
    <2>4. ip \in Blockable /\ At(m, pnd, ip) \cap DeniedSet(res, rev) # {} => ip \in block
      BY <1>1 DEF Blockable
    <2> HIDE DEF block
    <2> QED
      BY <1>2, <2>2, <2>3, <2>4
  <1>3. CASE ~res.closed
    <2> DEFINE D == DeniedSet(res, rev)
               hit == {i \in Ips \ {OriginIp} : At(m, pnd, i) \cap D # {}}
               mixed == {i \in hit : ~ At(m, pnd, i) \subseteq D}
               set == ResolvedSet(m, pnd, D)
    <2>1. set.block = hit \ mixed
      BY DEF ResolvedSet
    <2>2. derive_denied_set(res, m, pnd, act, rev) = [block |-> set.block, shared |-> set.shared, closed |-> FALSE]
      BY <1>3 DEF derive_denied_set
    <2> HIDE DEF set
    <2>3. /\ derive_denied_set(res, m, pnd, act, rev).block = set.block
          /\ derive_denied_set(res, m, pnd, act, rev).closed = FALSE
      BY <2>2
    <2>4. ip \in set.block => \E d \in Devices : (ip \in m[d] \/ pnd[d] = ip) /\ Denied(res, rev, d)
      <3> SUFFICES ASSUME ip \in set.block
                   PROVE  \E d \in Devices : (ip \in m[d] \/ pnd[d] = ip) /\ Denied(res, rev, d)
        OBVIOUS
      <3>1. PICK d \in At(m, pnd, ip) \cap D : TRUE
        BY <2>1
      <3> QED
        BY <3>1 DEF At, DeniedSet
    <2>5. ip \in Blockable /\ At(m, pnd, ip) \cap D # {} /\ At(m, pnd, ip) \subseteq D => ip \in set.block
      BY <2>1 DEF Blockable
    <2> QED
      BY <1>3, <2>3, <2>4, <2>5
  <1> QED
    BY <1>2, <1>3

\* What the registry adds to the derived list.
LEMMA RegistryAdds ==
    ASSUME NEW res, NEW m, NEW pnd, NEW act, NEW rev, res.closed \in BOOLEAN,
           NEW with, with = derive_denied_set(res, m, pnd, act, rev).block,
           NEW none, none = derive_denied_set(res, m, pnd, {}, rev).block
    PROVE  none \subseteq with /\ (with \subseteq none \/ (res.closed /\ with \subseteq none \cup act))
  <1>1. CASE res.closed
    <2> DEFINE B(a) == {i \in Ips \ {OriginIp} : At(m, pnd, i) \cap Devices # {} \/ i \in a}
    <2>1. derive_denied_set(res, m, pnd, act, rev) = [block |-> B(act), shared |-> {}, closed |-> TRUE]
      BY <1>1 DEF derive_denied_set
    <2>2. derive_denied_set(res, m, pnd, {}, rev) = [block |-> B({}), shared |-> {}, closed |-> TRUE]
      BY <1>1 DEF derive_denied_set
    <2>3. B({}) \subseteq B(act) /\ B(act) \subseteq B({}) \cup act
      OBVIOUS
    <2> HIDE DEF B
    <2>4. with = B(act) /\ none = B({})
      BY <2>1, <2>2
    <2> QED
      BY <1>1, <2>3, <2>4
  <1>2. CASE ~res.closed
    <2>1. derive_denied_set(res, m, pnd, act, rev) = derive_denied_set(res, m, pnd, {}, rev)
      BY <1>2 DEF derive_denied_set
    <2> QED
      BY <2>1
  <1> QED
    BY <1>1, <1>2

\* The rows of a pass and its endpoints agree about denied devices.
LEMMA FreshRows ==
    ASSUME NEW rows \in [Principals -> [Ips -> {"none", "fresh", "old"}]], NEW res, NEW rev,
           NEW x \in Principals, NEW ip
    PROVE  /\ ip \in fresh_endpoints(rows, res, rev)[x] => rows[x][ip] # "none" /\ ip \in Ips
           /\ ip \in Ips /\ rows[x][ip] # "none" /\ x \in DeniedSet(res, rev) =>
                ip \in fresh_endpoints(rows, res, rev)[x]
  <1>1. fresh_endpoints(rows, res, rev)[x] = {i \in Ips : \/ rows[x][i] = "fresh"
                                                          \/ rows[x][i] = "old" /\ Retained(res, rev, x)}
    BY DEF fresh_endpoints
  <1>2. x \in DeniedSet(res, rev) => Retained(res, rev, x)
    BY BlockAssumption DEF DeniedSet, Retained, Seeder
  <1>3. ip \in Ips => rows[x][ip] \in {"none", "fresh", "old"}
    OBVIOUS
  <1> QED
    BY <1>1, <1>2, <1>3

\* The endpoints a review merges with the reviewed bindings.
Merged(dur, c) == [p \in Principals |-> dur[p] \cup {b.ip : b \in {x \in approved_bindings(c) : p \in x.devs}}]

\* What Observe makes of them.
LEMMA ObservedReasons ==
    ASSUME NEW res, NEW dur, NEW pnd, NEW rev, NEW c
    PROVE  LET o == Observe(res, dur, pnd, rev, c)
           IN  /\ o.base = derive_denied_set(res, Merged(dur, c), pnd, {}, rev).block
               /\ o.protected = {OriginIp} \cup (dur[Seeder] \cup ({pnd[Seeder]} \ {None}))
               /\ \A ip \in o.shared : ~ At(Merged(dur, c), pnd, ip) \subseteq OriginDenied(res, rev)
  <1> DEFINE merged == Merged(dur, c)
             seen == dur[Seeder] \cup ({pnd[Seeder]} \ {None})
             protected == {OriginIp} \cup seen
             base == derive_denied_set(res, merged, pnd, {}, rev)
             wide == IF res.closed THEN [block |-> {}, shared |-> {}]
                     ELSE ResolvedSet(merged, pnd, OriginDenied(res, rev))
             missing == IF res.closed \/ res.degraded THEN "policy_unavailable"
                        ELSE IF seen = {} THEN "origin_unobserved"
                        ELSE IF OriginIp \notin seen THEN "origin_mismatch" ELSE None
             guarded == {ip \in protected : At(merged, pnd, ip) \cap OriginDenied(res, rev) # {}}
             extra == (wide.block \ base.block) \ (protected \cup wide.shared)
             bind == IF missing # None THEN {}
                     ELSE {[ip |-> ip, devs |-> At(merged, pnd, ip) \cap OriginDenied(res, rev)] :
                              ip \in extra}
             growth == Cardinality(AddressesOf(bind) \ AddressesOf(approved_bindings(c)))
             o == [hash |-> policy_hash(res), base |-> base.block, bind |-> bind, missing |-> missing,
                   shared |-> wide.shared, protected |-> protected, guarded |-> guarded,
                   growth |-> growth]
  <1>1. Observe(res, dur, pnd, rev, c) = o
    BY DEF Observe, Merged
  <1>2. \A ip \in wide.shared : ~ At(merged, pnd, ip) \subseteq OriginDenied(res, rev)
    BY DEF ResolvedSet
  <1> HIDE DEF base, bind, missing, wide, growth, merged, guarded
  <1>3. o.base = base.block /\ o.protected = protected /\ o.shared = wide.shared
    OBVIOUS
  <1> HIDE DEF o
  <1> QED
    BY <1>1, <1>2, <1>3 DEF base, merged

\* The addresses a pass knows its principals at, and what the derivation uses.
LEMMA KnownReasons ==
    ASSUME NEW rows \in [Principals -> [Ips -> {"none", "fresh", "old"}]], NEW queue, NEW res, NEW rev,
           NEW c, res.closed \in BOOLEAN, NEW ip \in Blockable,
           NEW dur, dur = fresh_endpoints(rows, res, rev), NEW m, m = Merged(dur, c),
           NEW K, K = {x \in Principals : Where(rows, queue, c, x, ip)},
           NEW o, o = Observe(res, dur, queue, rev, c), NEW D, D = DeniedSet(res, rev)
    PROVE  /\ \A x \in Principals : ip \in m[x] \/ queue[x] = ip => Where(rows, queue, c, x, ip)
           /\ K \cap D # {} /\ K \subseteq D => ip \in o.base
           /\ K \subseteq OriginDenied(res, rev) => ip \notin o.protected /\ ip \notin o.shared
  <1>1. ip \in Ips /\ ip # OriginIp
    BY DEF Blockable
  <1>2. \A x \in Principals : ip \in m[x] <=> ip \in dur[x] \/ \E b \in approved_bindings(c) : b.ip = ip /\ x \in b.devs
    BY DEF Merged
  <1>3. ASSUME NEW x \in Principals
        PROVE  /\ ip \in dur[x] => rows[x][ip] # "none"
               /\ rows[x][ip] # "none" /\ x \in D => ip \in dur[x]
    BY <1>1, FreshRows
  <1>4. \A x \in Principals : ip \in m[x] \/ queue[x] = ip => Where(rows, queue, c, x, ip)
    BY <1>2, <1>3 DEF Where
  <1>5. At(m, queue, ip) \subseteq K
    BY <1>4 DEF At
  <1>6. K \cap D \subseteq At(m, queue, ip)
    BY <1>2, <1>3 DEF Where, At
  <1>7. /\ o.base = derive_denied_set(res, m, queue, {}, rev).block
        /\ o.protected = {OriginIp} \cup (dur[Seeder] \cup ({queue[Seeder]} \ {None}))
        /\ \A i \in o.shared : ~ At(m, queue, i) \subseteq OriginDenied(res, rev)
    BY ObservedReasons
  <1>8. ASSUME K \cap D # {}, K \subseteq D PROVE ip \in o.base
    <2>1. At(m, queue, ip) \cap D # {} /\ At(m, queue, ip) \subseteq D
      BY <1>5, <1>6, <1>8
    <2> QED
      BY <2>1, <1>7, Derived
  <1>9. ASSUME K \subseteq OriginDenied(res, rev) PROVE ip \notin o.protected /\ ip \notin o.shared
    <2>1. Seeder \in Principals /\ Seeder \notin OriginDenied(res, rev)
      BY BlockAssumption DEF OriginDenied, DeniedSet, Seeder, Principals
    <2>2. Seeder \notin K
      BY <2>1, <1>9
    <2>3. ip \notin dur[Seeder] /\ queue[Seeder] # ip
      BY <2>1, <2>2, <1>3 DEF Where
    <2>4. ip \notin o.protected
      BY <2>3, <1>1, <1>7
    <2>5. ip \notin o.shared
      <3>1. At(m, queue, ip) \subseteq OriginDenied(res, rev)
        BY <1>5, <1>9
      <3> QED
        BY <3>1, <1>7
    <2> QED
      BY <2>4, <2>5
  <1> QED
    BY <1>4, <1>8, <1>9

\* What Runtime.prepare makes of an observation.
Keeps(o) == ViewReason(load_control, o) \in Frozen
Fixed(o) == Keeps(o) /\ ViewReason(load_control, o) # "policy_changed"
Binds(o) == IF Keeps(o) THEN load_application.last.bind ELSE approved_bindings(load_control)
Wants(o) == IF Fixed(o) THEN load_application.last.list ELSE o.base \cup AddressesOf(Binds(o))
Retains(o) == ((IF load_application.sharedRev = load_control.rev THEN load_application.shared ELSE {})
                  \cup o.shared) \cap AddressesOf(approved_bindings(load_control))
Lists(o) == Wants(o) \ ((Retains(o) \cup o.shared) \cup o.protected)
KeptBinds(o) == {b \in Binds(o) : b.ip \in Lists(o)}

\* Runtime.prepare without restrictions, and with them.
Forms(o, p, baseline) ==
    \/ p.on = TRUE /\ p.list = None
    \/ /\ p.on = FALSE /\ load_control.rev = 0
       /\ p.list = baseline /\ p.bind = {} /\ p.app = load_application
    \/ /\ p.on = TRUE /\ load_control.rev # 0
       /\ Keeps(o) => load_application.intent = None /\ load_application.last # None
       /\ p.list = Lists(o) /\ p.bind = KeptBinds(o)
       /\ p.app.last = load_application.last /\ p.app.shared = Retains(o)

LEMMA PreparedForms ==
    ASSUME NEW res, NEW dur, NEW pnd, NEW rev, NEW baseline,
           NEW o, o = Observe(res, dur, pnd, rev, load_control),
           NEW p, p = Prepare(res, dur, pnd, rev, baseline)
    PROVE  Forms(o, p, baseline)
  <1> DEFINE c == load_control
             a == load_application
             reason == ViewReason(c, o)
             keep == Keeps(o)
             retained == Retains(o)
             shared == retained \cup o.shared
             list == Lists(o)
             held == KeptBinds(o)
             newreason == IF reason = None /\ shared # {} /\ c.mode = "enforce"
                          THEN "shared_address" ELSE reason
             newapp == [last |-> a.last, intent |-> a.intent, sharedRev |-> c.rev,
                        shared |-> retained]
  <1>1. \/ \E r : p = Unavailable(r)
        \/ /\ c.rev = 0
           /\ p = [on |-> FALSE, reason |-> None, list |-> baseline, bind |-> {},
                   hash |-> o.hash, app |-> a]
        \/ /\ c.rev # 0 /\ ~(keep /\ Undecided(a)) /\ ~(keep /\ a.last = None)
           /\ p = [on |-> TRUE, list |-> list, hash |-> o.hash, reason |-> newreason,
                   bind |-> held, app |-> newapp]
    BY DEF Prepare, Keeps, Fixed, Binds, Wants, Retains, Lists, KeptBinds
  <1>2. newapp.last = a.last /\ newapp.shared = retained
    <2> HIDE DEF a, c, retained
    <2> QED
      OBVIOUS
  <1> HIDE DEF c, a, reason, keep, retained, newreason, newapp, list, held
  <1>3. ASSUME NEW r, p = Unavailable(r) PROVE p.on = TRUE /\ p.list = None
    BY <1>3 DEF Unavailable
  <1>4. CASE /\ c.rev = 0
             /\ p = [on |-> FALSE, reason |-> None, list |-> baseline, bind |-> {},
                     hash |-> o.hash, app |-> a]
    <2>1. p.on = FALSE /\ c.rev = 0 /\ p.list = baseline /\ p.bind = {} /\ p.app = a
      BY <1>4
    <2> QED
      BY <2>1 DEF c, a, Forms
  <1>5. CASE /\ c.rev # 0 /\ ~(keep /\ Undecided(a)) /\ ~(keep /\ a.last = None)
             /\ p = [on |-> TRUE, list |-> list, hash |-> o.hash, reason |-> newreason,
                     bind |-> held, app |-> newapp]
    <2>1. p.on = TRUE /\ p.list = list /\ p.bind = held /\ p.app = newapp
      BY <1>5
    <2>2. keep => a.intent = None /\ a.last # None
      BY <1>5 DEF Undecided
    <2>3. /\ p.on = TRUE /\ c.rev # 0 /\ (keep => a.intent = None /\ a.last # None)
          /\ p.list = list /\ p.bind = held
          /\ p.app.last = a.last /\ p.app.shared = retained
      BY <1>2, <1>5, <2>1, <2>2
    <2> QED
      BY <2>3 DEF c, a, list, held, retained, keep, Forms
  <1> QED
    BY <1>1, <1>3, <1>4, <1>5 DEF Forms

\* The list a pass prepares has its reasons.
LEMMA PreparedReasons ==
    ASSUME Backed, ControlFits, aria.block \subseteq Blockable,
           NEW rows \in [Principals -> [Ips -> {"none", "fresh", "old"}]], NEW queue, NEW res, NEW rev,
           res.closed \in BOOLEAN, NEW p, p.rows = rows, p.queue = queue, p.res = res,
           NEW act, p.live = act,
           NEW dur, dur = fresh_endpoints(rows, res, rev),
           p.closed = derive_denied_set(res, dur, queue, act, rev).closed,
           p.org = Prepare(res, dur, queue, rev, derive_denied_set(res, dur, queue, act, rev).block),
           p.org.list # None, p.list = p.org.list, p.list \in SUBSET Blockable
    PROVE  Added(p, rev, load_control) /\ Freed(p, rev, load_control, aria.block)
  <1>a. PICK o : o = Observe(res, dur, queue, rev, load_control)
    OBVIOUS
  <1>b. PICK base : base = derive_denied_set(res, dur, queue, act, rev).block
    OBVIOUS
  <1>c. PICK D : D = DeniedSet(res, rev)
    OBVIOUS
  <1> DEFINE c == load_control
             a == load_application
             keep == Keeps(o)
             fixed == Fixed(o)
             bind == Binds(o)
             want == IF fixed THEN a.last.list ELSE o.base \cup AddressesOf(bind)
             retained == Retains(o)
             list == want \ ((retained \cup o.shared) \cup o.protected)
             OD == OriginDenied(res, rev)
             At1(ip) == \E d \in Devices : Where(rows, queue, c, d, ip) /\ (p.closed \/ Denied(res, rev, d))
  <1>0. /\ list = Lists(o) /\ {b \in bind : b.ip \in list} = KeptBinds(o)
        /\ fixed => keep
        /\ bind = IF keep THEN a.last.bind ELSE approved_bindings(c)
    BY DEF Lists, KeptBinds, Wants, Binds, Fixed
  <1>1. \/ p.org.on = FALSE /\ c.rev = 0 /\ p.list = base /\ p.org.bind = {} /\ p.org.app = a
        \/ /\ c.rev # 0 /\ (keep => a.intent = None /\ a.last # None)
           /\ p.list = list /\ p.org.bind = {b \in bind : b.ip \in list}
           /\ p.org.app.last = a.last /\ p.org.app.shared = retained
    <2>0. PICK w : w = p.org
      OBVIOUS
    <2>1. \/ w.on = TRUE /\ w.list = None
          \/ w.on = FALSE /\ c.rev = 0 /\ w.list = base /\ w.bind = {} /\ w.app = a
          \/ /\ w.on = TRUE /\ c.rev # 0 /\ (keep => a.intent = None /\ a.last # None)
             /\ w.list = Lists(o) /\ w.bind = KeptBinds(o)
             /\ w.app.last = a.last /\ w.app.shared = retained
      <3>1. w = Prepare(res, dur, queue, rev, base)
        BY <2>0, <1>b
      <3>2. Forms(o, w, base)
        BY ONLY <1>a, <3>1, PreparedForms
      <3> QED
        BY <3>2 DEF Forms
    <2> HIDE DEF c, a, keep, bind, list, retained
    <2> QED
      BY <2>0, <2>1, <1>0
  <1>2. p.closed = res.closed
    BY Derived
  <1>3. o.base = derive_denied_set(res, Merged(dur, c), queue, {}, rev).block
    BY <1>a, ObservedReasons
  <1>4. ASSUME NEW ip \in Blockable
        PROVE  /\ \A x \in Principals : ip \in Merged(dur, c)[x] \/ queue[x] = ip => Where(rows, queue, c, x, ip)
               /\ Knows(p, c, ip) \cap D # {} /\ Knows(p, c, ip) \subseteq D => ip \in o.base
               /\ Knows(p, c, ip) \subseteq OD => ip \notin o.protected /\ ip \notin o.shared
    <2>1. Knows(p, c, ip) = {x \in Principals : Where(rows, queue, c, x, ip)}
      BY DEF Knows
    <2>0. PICK K : K = {x \in Principals : Where(rows, queue, c, x, ip)}
      OBVIOUS
    <2>2. /\ \A x \in Principals : ip \in Merged(dur, c)[x] \/ queue[x] = ip => Where(rows, queue, c, x, ip)
          /\ K \cap D # {} /\ K \subseteq D => ip \in o.base
          /\ K \subseteq OD => ip \notin o.protected /\ ip \notin o.shared
      <3>1. PICK m : m = Merged(dur, c)
        OBVIOUS
      <3>2. o = Observe(res, dur, queue, rev, c)
        BY <1>a
      <3> HIDE DEF c
      <3> QED
        BY <1>c, <2>0, <3>1, <3>2, KnownReasons
    <2> HIDE DEF c, OD
    <2>3. Knows(p, c, ip) = K
      BY <2>0, <2>1
    <2> QED
      BY <2>2, <2>3
  <1>5. ASSUME NEW ip \in Blockable, ip \in o.base PROVE At1(ip)
    <2>1. PICK d \in Devices : (ip \in Merged(dur, c)[d] \/ queue[d] = ip) /\ (res.closed \/ Denied(res, rev, d))
      BY <1>3, <1>5, Derived
    <2>2. d \in Principals
      BY DEF Principals
    <2> QED
      BY <1>2, <1>4, <2>1, <2>2
  <1>6. c.rev = 0 => /\ approved_bindings(c) = {}
                     /\ base \subseteq o.base \/ (p.closed /\ base \subseteq o.base \cup p.live)
                     /\ o.base \subseteq base
    <2> SUFFICES ASSUME c.rev = 0
                 PROVE  /\ approved_bindings(c) = {}
                        /\ base \subseteq o.base \/ (p.closed /\ base \subseteq o.base \cup p.live)
                        /\ o.base \subseteq base
      OBVIOUS
    <2>1. approved_bindings(c) = {}
      BY DEF ControlFits, approved_bindings
    <2>2. Merged(dur, c) = dur
      BY <2>1 DEF Merged, fresh_endpoints
    <2>3. o.base = derive_denied_set(res, dur, queue, {}, rev).block
      BY <2>2, <1>3
    <2>4. /\ o.base \subseteq base
          /\ base \subseteq o.base \/ (res.closed /\ base \subseteq o.base \cup act)
      <3>1. PICK none : none = derive_denied_set(res, dur, queue, {}, rev).block
        OBVIOUS
      <3>2. none \subseteq base /\ (base \subseteq none \/ (res.closed /\ base \subseteq none \cup act))
        BY <1>b, <3>1, RegistryAdds
      <3> QED
        BY <2>3, <3>1, <3>2
    <2> QED
      BY <2>1, <2>4, <1>2
  <1>7. D \subseteq OD
    BY <1>c DEF OriginDenied
  <1>8. a.last # None /\ a.intent = None /\ c.rev # 0 => aria.block \subseteq a.last.list
    <2> SUFFICES ASSUME a.last # None, a.intent = None, c.rev # 0 PROVE aria.block \subseteq a.last.list
      OBVIOUS
    <2>1. app # Absent
      BY DEF load_application, NewApplication
    <2>2. a = app
      BY <2>1 DEF load_application
    <2> QED
      BY <2>1, <2>2 DEF Backed
  <1> HIDE DEF c, a, keep, fixed, bind, retained, OD
  <1>9. Added(p, rev, c)
    <2> SUFFICES ASSUME NEW ip \in p.list
                 PROVE  \/ At1(ip) \/ (p.closed /\ ip \in p.live) \/ ip \in AddressesOf(p.org.bind)
                        \/ p.org.app.last # None /\ ip \in p.org.app.last.list
      BY DEF Added
    <2>1. ip \in Blockable
      OBVIOUS
    <2>2. CASE c.rev = 0
      BY <2>1, <2>2, <1>1, <1>5, <1>6
    <2>3. CASE c.rev # 0
      <3>1. ip \in want /\ ip \in list
        BY <2>3, <1>1
      <3>2. CASE fixed
        BY <3>1, <3>2, <2>3, <1>0, <1>1
      <3>3. CASE ~fixed /\ ip \in o.base
        BY <3>3, <2>1, <1>5
      <3>4. CASE ~fixed /\ ip \in AddressesOf(bind)
        <4>1. PICK b \in bind : b.ip = ip
          BY <3>4 DEF AddressesOf
        <4>2. b \in p.org.bind
          <5> HIDE DEF bind, list
          <5> QED
            BY <3>1, <4>1, <2>3, <1>1
        <4> QED
          BY <4>1, <4>2 DEF AddressesOf
      <3> QED
        BY <3>1, <3>2, <3>3, <3>4
    <2> QED
      BY <2>2, <2>3
  <1>10. Freed(p, rev, c, aria.block)
    <2> SUFFICES ASSUME NEW ip \in aria.block \ p.list, ip \notin p.org.app.shared
                 PROVE  /\ Knows(p, c, ip) \cap D # {} => ~ Knows(p, c, ip) \subseteq D
                        /\ ip \in AddressesOf(approved_bindings(c)) =>
                             \/ ~ Knows(p, c, ip) \subseteq OD
                             \/ /\ p.org.app.last # None
                                /\ ip \in p.org.app.last.list \ AddressesOf(p.org.app.last.bind)
      BY <1>c DEF Freed, OD
    <2>1. ip \in Blockable
      OBVIOUS
    <2>2. CASE c.rev = 0
      <3>1. ip \notin AddressesOf(approved_bindings(c))
        BY <2>2, <1>6 DEF AddressesOf
      <3> QED
        BY <2>1, <2>2, <3>1, <1>1, <1>4, <1>6
    <2>3. CASE c.rev # 0
      <3>1. ip \notin retained /\ p.org.app.last = a.last
        BY <2>3, <1>1
      <3>2. Knows(p, c, ip) \subseteq OD => ip \notin want
        <4> SUFFICES ASSUME Knows(p, c, ip) \subseteq OD, ip \in want PROVE FALSE
          OBVIOUS
        <4>1. ip \notin o.protected /\ ip \notin o.shared
          BY <2>1, <1>4
        <4>2. ip \in list
          <5> HIDE DEF want
          <5> QED
            BY <3>1, <4>1
        <4> QED
          BY <4>2, <2>3, <1>1
      <3>3. keep => ip \in a.last.list /\ a.last # None
        BY <2>3, <1>1, <1>8
      <3>4. Knows(p, c, ip) \cap D # {} => ~ Knows(p, c, ip) \subseteq D
        <4> SUFFICES ASSUME Knows(p, c, ip) \cap D # {}, Knows(p, c, ip) \subseteq D PROVE FALSE
          OBVIOUS
        <4>1. ip \in o.base /\ ip \notin want
          BY <2>1, <1>4, <1>7, <3>2
        <4> QED
          BY <4>1, <3>3, <1>0
      <3>5. ASSUME ip \in AddressesOf(approved_bindings(c)), Knows(p, c, ip) \subseteq OD
            PROVE  a.last # None /\ ip \in a.last.list \ AddressesOf(a.last.bind)
        <4>1. ip \notin want
          BY <3>2, <3>5
        <4>2. keep /\ ip \notin AddressesOf(a.last.bind)
          BY <4>1, <3>5, <3>3, <1>0
        <4> QED
          BY <4>2, <3>3
      <3> QED
        BY <3>1, <3>4, <3>5
    <2> QED
      BY <2>2, <2>3
  <1> QED
    BY <1>9, <1>10 DEF c

LEMMA ReviewStarts == BlockInit => Reviewed
  <1> SUFFICES ASSUME BlockInit PROVE Reviewed
    OBVIOUS
  <1>1. ctl = Absent /\ trk = FreshTracker
    BY DEF BlockInit
  <1>2. load_control = default_control /\ trk.at = "idle"
    BY <1>1 DEF load_control, FreshTracker
  <1>3. load_control.rev = 0 /\ load_control.appr = None
    BY <1>2 DEF default_control
  <1> QED
    BY <1>2, <1>3 DEF Reviewed, Backed, ControlFits, Planned

\* Steps that write neither control nor journal and block nothing.
LEMMA ReviewRests ==
    ASSUME Reviewed, UNCHANGED <<ctl, app>>, aria'.block \subseteq aria.block,
           trk' = trk \/ trk'.at \notin {"qos", "apply", "call"}
    PROVE  Reviewed'
  <1>1. load_control' = load_control
    BY DEF load_control
  <1>2. Backed' /\ ControlFits'
    BY <1>1 DEF Reviewed, Backed, ControlFits
  <1>3. CASE trk' = trk
    <2>1. Added(trk.p, trk.known, load_control) => Added(trk.p, trk.known, load_control)'
      BY <1>1, <1>3 DEF Added
    <2>2. Freed(trk.p, trk.known, load_control, aria.block) => Freed(trk.p, trk.known, load_control, aria.block)'
      BY <1>1, <1>3 DEF Freed
    <2> QED
      BY <1>1, <1>2, <1>3, <2>1, <2>2 DEF Reviewed, Planned
  <1>4. CASE trk'.at \notin {"qos", "apply", "call"}
    BY <1>2, <1>4 DEF Reviewed, Planned
  <1> QED
    BY <1>3, <1>4

\* What a pass has in its hands keeps its reasons.
LEMMA ReasonsStay ==
    ASSUME NEW a, NEW b, ~a.blind, InHands(a, b), NEW known, NEW c, NEW block
    PROVE  /\ Added(a, known, c) => Added(b, known, c)
           /\ Freed(a, known, c, block) => Freed(b, known, c, block)
  <1>1. /\ b.res = a.res /\ b.rows = a.rows /\ b.queue = a.queue /\ b.closed = a.closed
        /\ b.live = a.live /\ b.list = a.list /\ b.org.bind = a.org.bind /\ b.org.app.last = a.org.app.last
        /\ b.org.app.shared = a.org.app.shared
    BY DEF InHands
  <1>2. \A ip : Knows(b, c, ip) = Knows(a, c, ip)
    BY <1>1 DEF Knows
  <1>3. Added(a, known, c) => Added(b, known, c)
    BY <1>1 DEF Added
  <1>4. Freed(a, known, c, block) => Freed(b, known, c, block)
    BY <1>1, <1>2 DEF Freed
  <1> QED
    BY <1>3, <1>4

\* The list is prepared.
LEMMA ReviewBegins ==
    ASSUME BlockInductive, Reviewed, PassBegin
    PROVE  Reviewed'
  <1>1. UNCHANGED <<ctl, app, aria>>
    BY DEF PassBegin
  <1>2. PICK res, rev, wrote, prune, gone : res \in Results /\ PassReads(res, rev, wrote, gone, prune)
    BY Initialized, LoadedPolicy DEF PassBegin, BlockInductive, PolicyOK
  <1>3. {"at", "known", "p"} \subseteq DOMAIN trk
    BY DEF BlockInductive, TrackerOK
  <1>4. PICK p : p = trk'.p
    OBVIOUS
  <1>5. /\ trk'.at = "qos" /\ trk'.known = rev /\ p.live = live
        /\ p.res = res /\ p.blind = FALSE /\ p.rows = eps' /\ p.queue = pend
    BY <1>2, <1>3, <1>4, ReadsInto
  <1>6. PICK dur, base, org :
          /\ dur = fresh_endpoints(eps', res, rev) /\ base = derive_denied_set(res, dur, pend, live, rev)
          /\ org = Prepare(res, dur, pend, rev, base.block) /\ p.org = org /\ p.closed = base.closed
          /\ p.list = IF org.list = None THEN base.block ELSE org.list
    <2>1. \E dur, base, org :
            /\ dur = fresh_endpoints(eps', res, rev) /\ base = derive_denied_set(res, dur, pend, live, rev)
            /\ org = Prepare(res, dur, pend, rev, base.block) /\ trk'.p.org = org
            /\ trk'.p.closed = base.closed
            /\ trk'.p.list = IF org.list = None THEN base.block ELSE org.list
      BY <1>2, <1>3, ReadsInto
    <2> QED
      BY <2>1, <1>4
  <1>7. BlockInductive'
    BY BlockStep DEF BlockNext, PassStep
  <1>8. PICK rows : rows = eps' /\ rows \in [Principals -> [Ips -> {"none", "fresh", "old"}]]
    BY <1>7 DEF BlockInductive, ObservedOK
  <1>9. p.list \in SUBSET Blockable
    BY <1>4, <1>5, <1>7 DEF BlockInductive, PassOK, FullPass, BlindPass
  <1>10. load_control' = load_control
    BY <1>1 DEF load_control
  <1>11. Backed' /\ ControlFits'
    BY <1>1, <1>10 DEF Reviewed, Backed, ControlFits
  <1>12. p.org.on = TRUE \/ load_control.rev = 0
    <2>1. PICK o : o = Observe(res, dur, pend, rev, load_control)
      OBVIOUS
    <2>2. Forms(o, org, base.block)
      BY <1>6, <2>1, PreparedForms
    <2> QED
      BY <1>6, <2>2 DEF Forms
  <1>13. ASSUME p.org.list # None
         PROVE  p.list = p.org.list /\ Added(p, rev, load_control) /\ Freed(p, rev, load_control, aria.block)
    <2>1. p.list = p.org.list
      BY <1>6, <1>13
    <2>2. aria.block \subseteq Blockable /\ res.closed \in BOOLEAN
      BY <1>2 DEF BlockInductive, AriaOK, Results
    <2>3. /\ dur = fresh_endpoints(rows, res, rev) /\ p.rows = rows
          /\ p.closed = derive_denied_set(res, dur, pend, live, rev).closed
          /\ p.org = Prepare(res, dur, pend, rev, derive_denied_set(res, dur, pend, live, rev).block)
      BY <1>5, <1>6, <1>8
    <2>4. PICK queue, act : queue = pend /\ act = live
      OBVIOUS
    <2>5. /\ p.queue = queue /\ p.live = act /\ p.res = res
          /\ p.closed = derive_denied_set(res, dur, queue, act, rev).closed
          /\ p.org = Prepare(res, dur, queue, rev, derive_denied_set(res, dur, queue, act, rev).block)
      BY <1>5, <2>3, <2>4
    <2>6. Backed /\ ControlFits
      BY DEF Reviewed
    <2> QED
      <3>1. /\ rows \in [Principals -> [Ips -> {"none", "fresh", "old"}]] /\ p.rows = rows
            /\ res.closed \in BOOLEAN /\ dur = fresh_endpoints(rows, res, rev)
            /\ aria.block \subseteq Blockable
            /\ p.org.list # None /\ p.list = p.org.list /\ p.list \in SUBSET Blockable
        BY <1>8, <1>9, <1>13, <2>1, <2>2, <2>3
      <3>2. Added(p, rev, load_control) /\ Freed(p, rev, load_control, aria.block)
        BY ONLY SMTT(60), <3>1, <2>5, <2>6, PreparedReasons
      <3> QED
        BY <2>1, <3>2
  <1>14. Planned'
    <2>1. /\ ~trk'.p.org.on => load_control'.rev = 0
      BY <1>4, <1>10, <1>12
    <2>2. trk'.p.org.list # None =>
             /\ trk'.p.list = trk'.p.org.list
             /\ Added(trk.p, trk.known, load_control)'
             /\ Freed(trk.p, trk.known, load_control, aria.block)'
      BY <1>1, <1>4, <1>5, <1>10, <1>13
    <2> QED
      BY <1>5, <2>1, <2>2 DEF Planned
  <1> QED
    BY <1>11, <1>14 DEF Reviewed

\* Until the call the list keeps its reasons; the call is made with its attempt in
\* the journal, or without restrictions.
LEMMA ReviewPasses ==
    ASSUME BlockInductive, Reviewed, PassQos \/ PassNoApply \/ PassJournal \/ PassCall
    PROVE  Reviewed'
  <1>1. /\ trk'.at \in {"apply", "call", "finish"} /\ trk'.known = trk.known /\ InHands(trk.p, trk'.p)
    BY HandsStay
  <1>2. UNCHANGED ctl /\ load_control' = load_control
    BY Zenon DEF PassQos, PassNoApply, PassJournal, PassCall, load_control
  <1>3. ControlFits'
    BY <1>2 DEF Reviewed, ControlFits
  <1>4. "at" \in DOMAIN trk /\ "block" \in DOMAIN aria /\ "opt" \in DOMAIN aria
    BY DEF BlockInductive, TrackerOK, AriaOK
  <1>5. ASSUME aria'.block = aria.block, trk.at \in {"qos", "apply", "call"},
               trk'.at = "call" /\ ~trk'.p.blind => trk'.p.org.list # None /\ (trk'.p.org.on => app'.intent # None)
        PROVE  Planned'
    <2> SUFFICES ASSUME trk'.at \in {"qos", "apply", "call"}, ~trk'.p.blind
                 PROVE  /\ ~trk'.p.org.on => load_control'.rev = 0
                        /\ trk'.p.org.list # None =>
                             /\ trk'.p.list = trk'.p.org.list
                             /\ Added(trk.p, trk.known, load_control)'
                             /\ Freed(trk.p, trk.known, load_control, aria.block)'
      BY <1>5 DEF Planned
    <2>1. ~trk.p.blind
      BY <1>1 DEF InHands
    <2>2. trk'.p.org.on = trk.p.org.on /\ trk'.p.org.list = trk.p.org.list /\ trk'.p.list = trk.p.list
      BY <1>1, <2>1 DEF InHands
    <2>3. /\ ~trk.p.org.on => load_control.rev = 0
          /\ trk.p.org.list # None =>
               /\ trk.p.list = trk.p.org.list
               /\ Added(trk.p, trk.known, load_control)
               /\ Freed(trk.p, trk.known, load_control, aria.block)
      BY <1>5, <2>1 DEF Reviewed, Planned
    <2>4. PICK b : b = trk'.p
      OBVIOUS
    <2>5. trk.p.org.list # None => Added(b, trk.known, load_control) /\ Freed(b, trk.known, load_control, aria.block)
      BY <1>1, <2>1, <2>3, <2>4, ReasonsStay
    <2> QED
      BY <1>1, <1>2, <1>5, <2>2, <2>3, <2>4, <2>5
  <1>6. CASE PassQos
    <2>1. UNCHANGED app /\ trk.at = "qos"
      BY Zenon, <1>6 DEF PassQos
    <2>2. aria'.block = aria.block
      <3>1. aria' = aria \/ \E x : aria' = [aria EXCEPT !.opt = x]
        BY Zenon, <1>6 DEF PassQos
      <3> QED
        BY <3>1, <1>4
    <2>3. trk'.at = "apply"
      BY <1>6, HandsStay
    <2>4. Planned'
      BY <1>5, <2>1, <2>2, <2>3
    <2>5. Backed'
      BY <1>2, <2>1, <2>2 DEF Reviewed, Backed
    <2> QED
      BY <1>3, <2>4, <2>5 DEF Reviewed
  <1>7. CASE PassNoApply
    <2>1. UNCHANGED <<app, aria>> /\ trk'.at = "finish"
      BY <1>7, <1>4 DEF PassNoApply
    <2> QED
      BY <1>2, <2>1, ReviewRests
  <1>8. CASE PassCall
    <2>1. trk.at = "call" /\ UNCHANGED app /\ trk'.at = "finish"
      BY <1>8, <1>4 DEF PassCall
    <2>2. ~trk.p.blind
      BY <2>1 DEF BlockInductive, PassOK, FullPass
    <2>3. load_control.rev = 0 \/ app.intent # None
      BY <2>1, <2>2 DEF Reviewed, Planned
    <2>4. Backed'
      BY <1>2, <2>1, <2>3 DEF Backed
    <2>5. Planned'
      BY <2>1 DEF Planned
    <2> QED
      BY <1>3, <2>4, <2>5 DEF Reviewed
  <1>9. CASE PassJournal
    <2>1. /\ UNCHANGED aria /\ trk.at = "apply" /\ ~trk.p.blind /\ trk.p.org.list # None
          /\ trk.p.org.on => trk.p.sess # None
          /\ app' = IF trk.p.org.on THEN [trk.p.org.app EXCEPT !.intent = Row(trk.p)] ELSE app
      BY <1>9 DEF PassJournal, JournalsFirst
    <2>2. FullPass(trk.p)
      BY <2>1 DEF BlockInductive, PassOK, BlindPass
    <2>3. trk.p.org.on => app'.intent # None
      <3> SUFFICES ASSUME trk.p.org.on PROVE app'.intent # None
        OBVIOUS
      <3>1. app' = [trk.p.org.app EXCEPT !.intent = Row(trk.p)] /\ "intent" \in DOMAIN trk.p.org.app
        BY <2>1, <2>2 DEF FullPass, OriginOK, JournalOK
      <3>2. app'.intent = Row(trk.p)
        BY <3>1
      <3>3. /\ load_control.rev \in Nat /\ trk.p.list \in SUBSET Ips /\ trk.p.sess \in Nat
            /\ trk.p.org.bind \in SUBSET Bindings
        BY <2>1, <2>2 DEF FullPass, OriginOK, Blockable, CommonOK, SeenSession, Reviewed, ControlFits,
                          BlockInductive, AriaOK
      <3>4. Row(trk.p) \in [rev : Nat, list : SUBSET Ips, sess : Nat, bind : SUBSET Bindings]
        BY <3>3 DEF Row
      <3>5. None \notin [rev : Nat, list : SUBSET Ips, sess : Nat, bind : SUBSET Bindings]
        BY BlockAssumption DEF Bindings, Principals, Seeder
      <3> QED
        BY <3>2, <3>4, <3>5
    <2>4. trk'.p.org.on = trk.p.org.on /\ trk'.p.org.list = trk.p.org.list
      BY <1>1, <2>1 DEF InHands
    <2>5. Planned'
      BY <1>5, <2>1, <2>3, <2>4
    <2>6. Backed'
      BY <1>2, <2>1, <2>3 DEF Reviewed, Backed
    <2> QED
      BY <1>3, <2>5, <2>6 DEF Reviewed
  <1> QED
    BY <1>6, <1>7, <1>8, <1>9

\* The list that is acknowledged is the one aria2 holds.
LEMMA ReviewFinishes ==
    ASSUME BlockInductive, Believed, Reviewed, PassFinish
    PROVE  Reviewed'
  <1> DEFINE p == trk.p
             stable == SessionStable(p)
             outcome == IF p.out = "ok" /\ ~stable THEN "failed" ELSE p.out
             success == /\ p.org.list # None /\ stable /\ (IF stable THEN trk.ok \/ outcome = "ok" ELSE FALSE)
                        /\ ~p.waiting /\ (p.force => outcome = "ok")
  <1>1. /\ trk.at = "finish" /\ UNCHANGED <<ctl, aria>>
        /\ app' = app \/ (success /\ app' = [p.org.app EXCEPT !.last = Row(p), !.intent = None])
    BY DEF PassFinish
  <1>2. trk'.at = "export"
    BY FinishesInto
  <1>3. FullPass(p) /\ p.blind = FALSE
    BY <1>1 DEF BlockInductive, PassOK, FullPass
  <1>4. /\ p.out \in {"none", "skipped"} => BlockKnown
        /\ p.out = "ok" /\ p.sess # None /\ p.sess = Session => aria.block = p.list
    BY <1>1 DEF BlockInductive, Memory
  <1>5. /\ ~p.force => p.list = trk.lastH /\ p.sess = trk.lastS
        /\ p.out # "none" => p.force
    BY <1>1, <1>3 DEF Believed
  <1>6. stable => p.sess # None /\ Session = p.sess
    BY DEF SessionStable
  <1>7. success => aria.block = p.list
    <2>1. success => stable /\ (outcome = "ok" \/ (trk.ok /\ ~p.force))
      OBVIOUS
    <2>2. outcome = "ok" => p.out = "ok"
      OBVIOUS
    <2> HIDE DEF success, outcome, stable, p
    <2>3. CASE success /\ outcome = "ok"
      BY <2>1, <2>2, <2>3, <1>4, <1>6
    <2>4. CASE success /\ trk.ok /\ ~p.force
      BY <2>1, <2>4, <1>4, <1>5, <1>6 DEF BlockKnown
    <2> QED
      BY <2>1, <2>3, <2>4
  <1>8. app' = app \/ (app'.last.list = p.list /\ aria.block = p.list)
    <2>1. JournalOK(p.org.app)
      BY <1>3 DEF FullPass, OriginOK
    <2>2. Row(p).list = p.list
      BY DEF Row
    <2> HIDE DEF success, p
    <2>3. app' = [p.org.app EXCEPT !.last = Row(p), !.intent = None] => app'.last = Row(p)
      BY <2>1 DEF JournalOK
    <2> QED
      BY <1>1, <1>7, <2>2, <2>3
  <1> HIDE DEF p, success
  <1>9. load_control' = load_control
    BY <1>1 DEF load_control
  <1>10. Backed'
    BY <1>1, <1>8, <1>9 DEF Reviewed, Backed
  <1> QED
    BY <1>2, <1>9, <1>10 DEF Reviewed, ControlFits, Planned

\* Store.change: a first approval starts a new journal.
LEMMA ReviewApproves ==
    ASSUME BlockInductive, Reviewed, Approve
    PROVE  /\ Reviewed'
           /\ ctl' # ctl /\ approved_bindings(ctl') # {} =>
                ctl'.appr = [hash |-> review.hash, bind |-> review.bind]
  <1> DEFINE c == load_control
             o == StoreView(c)
             said == [hash |-> o.hash, bind |-> o.bind]
             appr == IF review.mode = "enforce" THEN said ELSE None
             new == [rev |-> c.rev + 1, mode |-> review.mode, appr |-> appr]
  <1>1. /\ trk.at = "idle" /\ UNCHANGED <<trk, aria>> /\ review = Token(c, o, review.mode)
        /\ \/ ctl' = new /\ app' = IF c.rev = 0 THEN NewApplication ELSE app
           \/ c.rev = 0 /\ ctl' = c
    BY DEF Approve, TokenMatches
  <1>2. c.rev \in Nat /\ (c.rev = 0 => c.appr = None)
    BY DEF Reviewed, ControlFits
  <1>3. review.hash = o.hash /\ review.bind = o.bind
    <2>1. PICK h, b : h = o.hash /\ b = o.bind
      OBVIOUS
    <2>2. Token(c, o, review.mode).hash = h /\ Token(c, o, review.mode).bind = b
      <3> HIDE DEF o, c
      <3> QED
        BY <2>1 DEF Token
    <2> HIDE DEF o, c
    <2> QED
      BY <1>1, <2>1, <2>2
  <1> HIDE DEF c, o, said
  <1>4. new.rev = c.rev + 1 /\ new.appr = appr /\ DOMAIN new = {"rev", "mode", "appr"}
    <2> HIDE DEF appr
    <2> QED
      OBVIOUS
  <1>5. CASE ctl' = new /\ app' = IF c.rev = 0 THEN NewApplication ELSE app
    <2>1. ctl' # Absent
      <3>1. "rev" \notin DOMAIN Absent
        BY DEF Absent
      <3> HIDE DEF new
      <3> QED
        BY <3>1, <1>4, <1>5
    <2> HIDE DEF new
    <2>2. load_control' = new
      BY <1>5, <2>1 DEF load_control
    <2>3. ControlFits'
      BY <1>2, <1>4, <2>2 DEF ControlFits
    <2>4. Backed'
      <3>1. CASE c.rev = 0
        <4>1. app'.last = None
          BY <1>5, <3>1 DEF NewApplication
        <4> QED
          BY <4>1 DEF Backed
      <3>2. CASE c.rev # 0
        BY <3>2, <1>1, <1>5 DEF Reviewed, Backed, c
      <3> QED
        BY <3>1, <3>2
    <2>5. approved_bindings(ctl') # {} => ctl'.appr = said
      BY <1>4, <1>5 DEF approved_bindings
    <2>6. Planned'
      BY <1>1 DEF Planned
    <2> QED
      BY <1>3, <2>3, <2>4, <2>5, <2>6 DEF Reviewed, said
  <1>6. CASE c.rev = 0 /\ ctl' = c
    <2>1. load_control' = c
      <3>1. CASE ctl' = Absent
        <4>1. ctl # Absent => c = ctl
          BY DEF c, load_control
        <4>2. ctl = Absent => c = default_control
          BY DEF c, load_control
        <4>3. default_control # Absent
          BY DEF default_control, Absent
        <4> QED
          BY <1>6, <3>1, <4>1, <4>2, <4>3
      <3>2. CASE ctl' # Absent
        BY <1>6, <3>2 DEF load_control
      <3> QED
        BY <3>1, <3>2
    <2>2. approved_bindings(ctl') = {}
      BY <1>2, <1>6 DEF approved_bindings
    <2> QED
      BY <1>1, <1>2, <1>6, <2>1, <2>2 DEF Reviewed, Backed, ControlFits, Planned
  <1> QED
    BY <1>1, <1>5, <1>6

\* Only the call changes what a running aria2 blocks.
LEMMA OnlyCallsBlock ==
    ASSUME BlockInductive, [BlockNext]_blockVars, ~PassCall
    PROVE  aria'.block = aria.block \/ (aria'.block = {} /\ aria'.sess # aria.sess)
  <1>1. {"up", "sess", "block", "gids", "opt"} \subseteq DOMAIN aria /\ aria.sess \in Nat
    BY DEF BlockInductive, AriaOK
  <1>2. CASE AriaStart
    <2>1. PICK u, x, b, y : /\ aria' = [aria EXCEPT !.up = u, !.sess = x, !.block = b, !.opt = y]
                           /\ x = aria.sess + 1 /\ b = {}
      BY <1>2 DEF AriaStart
    <2>2. aria'.sess = x /\ aria'.block = b
      BY <2>1, <1>1
    <2> QED
      BY <2>1, <2>2, <1>1
  <1>3. CASE AriaStop \/ \E g \in Gids : Reseed(g)
    BY <1>3, <1>1 DEF AriaStop, Reseed
  <1>4. CASE PassQos
    <2>1. aria' = aria \/ \E x : aria' = [aria EXCEPT !.opt = x]
      BY Zenon, <1>4 DEF PassQos
    <2> QED
      BY <2>1, <1>1
  <1>5. CASE ~AriaStart /\ ~PassQos /\ ~(AriaStop \/ \E g \in Gids : Reseed(g))
    <2>1. aria' = aria
      BY <1>5 DEF BlockNext, PassStep, PassBegin, PassBlind, PassNoApply, PassJournal, PassFinish,
                  PassExport, PassStatus, PassStoreUnreadable, TrackerRestart, SecretsReadable, SetQos,
                  RestoreRevision, DamagePolicy, Approve, SetVerdict, Announce, RegistryRow, Expire, Preview, Revoke,
                  blockVars
    <2> QED
      BY <2>1
  <1> QED
    BY <1>2, <1>3, <1>4, <1>5

LEMMA ReviewStep ==
    ASSUME BlockInductive, Believed, Reviewed, [BlockNext]_blockVars
    PROVE  Reviewed' /\ OnlyReviewedBlocked /\ ReleasesAreJustified
  <1>1. Reviewed' /\ (ctl' # ctl /\ approved_bindings(ctl') # {} =>
                         ctl'.appr = [hash |-> review.hash, bind |-> review.bind])
    <2>1. CASE PassBegin \/ PassQos \/ PassNoApply \/ PassJournal \/ PassCall \/ PassFinish
      <3>1. ctl' = ctl
        BY Zenon, <2>1 DEF PassBegin, PassQos, PassNoApply, PassJournal, PassCall, PassFinish
      <3> QED
        BY <2>1, <3>1, ReviewBegins, ReviewPasses, ReviewFinishes
    <2>2. CASE Approve
      BY <2>2, ReviewApproves
    <2>3. CASE PassBlind \/ PassExport \/ PassStatus \/ TrackerRestart
      <3>1. "at" \in DOMAIN trk
        BY DEF BlockInductive, TrackerOK
      <3>2. UNCHANGED <<ctl, app, aria>>
        BY <2>3 DEF PassBlind, PassExport, PassStatus, TrackerRestart
      <3>3. trk'.at \in {"idle", "status"}
        <4>1. CASE PassBlind
          <5>1. \E ok, x, h : trk' = [trk EXCEPT !.at = "idle", !.p = NoRead, !.qOk = ok, !.qS = x, !.qH = h]
            BY <4>1 DEF PassBlind
          <5> QED
            BY <5>1, <3>1
        <4>2. CASE PassExport
          <5>1. trk' = [trk EXCEPT !.at = "status"] \/ \E x : trk' = [trk EXCEPT !.at = "status", !.p.acked = x]
            BY Zenon, <4>2 DEF PassExport
          <5> QED
            BY <5>1, <3>1
        <4>3. CASE PassStatus
          <5>1. trk' = [trk EXCEPT !.at = "idle", !.p = NoRead]
            BY <4>3 DEF PassStatus
          <5> QED
            BY <5>1, <3>1
        <4>4. CASE TrackerRestart
          BY <4>4 DEF TrackerRestart, FreshTracker
        <4> QED
          BY <2>3, <4>1, <4>2, <4>3, <4>4
      <3> QED
        BY <3>2, <3>3, ReviewRests
    <2>4. CASE PassStoreUnreadable
      <3>1. UNCHANGED <<ctl, app, aria>> /\ load_control' = load_control
        BY <2>4 DEF PassStoreUnreadable, load_control
      <3>2. PICK q : /\ q = [blind |-> TRUE, res |-> load_policy(pf'), sess |-> Session, qos |-> None,
                              qout |-> "none"]
                    /\ trk' = [trk EXCEPT !.at = "qos", !.known = RevokedView, !.p = q]
        BY <2>4 DEF PassStoreUnreadable
      <3>3. trk'.p.blind = TRUE
        BY <3>2 DEF BlockInductive, TrackerOK
      <3> QED
        BY <3>1, <3>3 DEF Reviewed, Backed, ControlFits, Planned
    <2>5. CASE \/ AriaStop \/ AriaStart \/ SecretsReadable \/ SetQos \/ RestoreRevision \/ DamagePolicy
               \/ \E d \in Devices, x \in Verdicts : SetVerdict(d, x)
               \/ \E p \in Principals, ip \in Ips : Announce(p, ip) \/ Expire(p, ip)
               \/ \E ip \in Ips : RegistryRow(ip)
               \/ \E m \in {"preflight", "enforce"} : Preview(m)
               \/ \E d \in Devices : Revoke(d)
               \/ \E g \in Gids : Reseed(g)
               \/ UNCHANGED blockVars
      <3>1. UNCHANGED <<ctl, app, trk>>
        BY <2>5 DEF AriaStop, AriaStart, SecretsReadable, SetQos, RestoreRevision, DamagePolicy, SetVerdict,
                    Announce, RegistryRow, Expire, Preview, Revoke, Reseed, blockVars
      <3>2. aria'.block \subseteq aria.block
        <4>1. CASE PassCall
          BY <2>5, <4>1, <3>1 DEF PassCall, BlockInductive, TrackerOK
        <4>2. CASE ~PassCall
          BY <4>2, OnlyCallsBlock
        <4> QED
          BY <4>1, <4>2
      <3> QED
        BY <3>1, <3>2, ReviewRests
    <2> QED
      BY <2>1, <2>2, <2>3, <2>4, <2>5 DEF BlockNext, PassStep
  <1>2. CASE ~PassCall
    <2>1. aria'.block = aria.block \/ (aria'.block = {} /\ aria'.sess # aria.sess)
      BY <1>2, OnlyCallsBlock
    <2> QED
      BY <1>1, <2>1 DEF OnlyReviewedBlocked, ReleasesAreJustified
  <1>3. CASE PassCall
    <2>1. trk.at = "call" /\ (aria' = aria \/ aria' = [aria EXCEPT !.block = trk.p.list])
      BY <1>3 DEF PassCall
    <2>2. aria'.block = aria.block \/ aria'.block = trk.p.list
      BY <2>1 DEF BlockInductive, AriaOK
    <2>3. ~trk.p.blind
      BY <2>1 DEF BlockInductive, PassOK, FullPass
    <2>4. Added(trk.p, trk.known, load_control) /\ Freed(trk.p, trk.known, load_control, aria.block)
      BY <2>1, <2>3 DEF Reviewed, Planned
    <2>5. \A x, ip : KnownAt(x, ip) = Where(trk.p.rows, trk.p.queue, load_control, x, ip)
      BY DEF KnownAt, Where
    <2>6. \A ip : Knows(trk.p, load_control, ip) = {x \in Principals : KnownAt(x, ip)}
      BY <2>5 DEF Knows
    <2>7. OnlyReviewedBlocked
      BY <1>1, <2>2, <2>4, <2>5 DEF OnlyReviewedBlocked, Added
    <2>8. ReleasesAreJustified
      BY <2>2, <2>4, <2>6 DEF ReleasesAreJustified, Freed
    <2> QED
      BY <1>1, <2>7, <2>8
  <1> QED
    BY <1>2, <1>3

\* An address is blocked only for a denied device known at it, a reviewed binding,
\* the list acknowledged last or, when no policy can be read, an address in the
\* registry, whatever is announced, edited, approved or lost while
\* the pass runs; and a confirmed approval is the one that was reviewed.
THEOREM BlocksAreReviewed == BlockSpec => [][OnlyReviewedBlocked]_blockVars
  <1>1. BlockSpec => [](BlockInductive /\ Believed /\ Reviewed)
    BY BlockStarts, BlockStep, BelievedStarts, BelievedStep, ReviewStarts, ReviewStep, PTL DEF BlockSpec
  <1>2. BlockInductive /\ Believed /\ Reviewed /\ [BlockNext]_blockVars => [OnlyReviewedBlocked]_blockVars
    BY ReviewStep
  <1> QED
    BY <1>1, <1>2, PTL DEF BlockSpec

\* Within one session of aria2 no address of a denied device alone, and no approved
\* address, is released without a reason (Runtime.prepare, _resolved_set): an attempt
\* whose outcome is unknown is never followed by the list before it.
THEOREM ReleasesHaveReasons == BlockSpec => [][ReleasesAreJustified]_blockVars
  <1>1. BlockSpec => [](BlockInductive /\ Believed /\ Reviewed)
    BY BlockStarts, BlockStep, BelievedStarts, BelievedStep, ReviewStarts, ReviewStep, PTL DEF BlockSpec
  <1>2. BlockInductive /\ Believed /\ Reviewed /\ [BlockNext]_blockVars => [ReleasesAreJustified]_blockVars
    BY ReviewStep
  <1> QED
    BY <1>1, <1>2, PTL DEF BlockSpec

\* Together, beside the rotation of the announce credential: no step says enforced of
\* what aria2 does not hold, blocks what nobody denied or reviewed, releases a denied
\* address without a reason, or loses a policy operation from the audit trail.
THEOREM PeerStepsHold == Spec => PeerSteps
  <1> DEFINE Inv == BlockInductive /\ Believed /\ Audited /\ Reviewed
             Step == /\ focus = "blocking" => EnforcedIsTrue
                     /\ focus = "blocking" => OnlyReviewedBlocked
                     /\ focus = "blocking" => ReleasesAreJustified
                     /\ focus = "blocking" => NoOperationLost
  <1>1. Init => Inv
    BY BlockStarts, BelievedStarts, AuditStarts, ReviewStarts DEF Init
  <1>2. Inv /\ [Next]_peerVars => Inv'
    BY StepOfEach, BlockStep, BelievedStep, AuditStep, ReviewStep
  <1>3. Inv /\ [Next]_peerVars => [Step]_peerVars
    BY StepOfEach, EnforcedStep, AuditStep, ReviewStep
  <1> QED
    BY <1>1, <1>2, <1>3, PTL DEF Spec, PeerSteps
=============================================================================
