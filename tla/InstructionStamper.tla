------------------------- MODULE InstructionStamper ------------------------
(***************************************************************************)
(* The instruction producer of the server (server/instruction_stamper.py): *)
(* it admits devices, publishes signed role artifacts, reserves serials,   *)
(* commits stamps to the policy rows and collects old artifacts.           *)
(*                                                                         *)
(* Producers (the stamper's loop, a key rotation's restamp, a second       *)
(* process) work concurrently under file locks: the producer lock, one     *)
(* lock per device and the role lock.  Every durable write is a step, so a *)
(* producer can die between any two; flock drops its locks with it.        *)
(*                                                                         *)
(* What a role says (its semantic body, the day and the signing            *)
(* certificate) is its body, and a body in an epoch is a generation; what  *)
(* a device's part says is a number.  A digest is the thing digested, and  *)
(* the created_at of a key is its number.                                  *)
(***************************************************************************)
EXTENDS Integers, FiniteSets

CONSTANTS
    StDevices,      \* devices of the fleet
    Late,           \* those of them registered after the first activation
    Producers,      \* concurrent producers
    Bodies,         \* what roles may say
    Generations,    \* role generations: the bodies in every epoch there may be
    MaxGenerations, \* MAX_GENERATIONS: cap of the role index
    StBudgets,      \* the budgets of outside events a behaviour starts with
    NoStamp         \* no stamp, no row

Contents == [epoch : Nat, gen : Generations, part : {0, 1}, key : Nat]
StampSet == [epoch : Nat, gen : Generations, part : {0, 1}, key : Nat, serial : Nat]
Histories == [epoch : Nat, high : Nat, reserved : Contents \cup {NoStamp}]

ASSUME StamperAssumption ==
    /\ Late \subseteq StDevices /\ MaxGenerations \in Nat \ {0}
    /\ Bodies # {} /\ \A g \in Generations : g.epoch \in Nat /\ g.body \in Bodies
    /\ IsFiniteSet(Generations) /\ [epoch : {1}, body : Bodies] \subseteq Generations
    /\ NoStamp \notin StDevices \cup Contents \cup StampSet \cup Histories

VARIABLES
    epochs,     \* the key epoch and the activated epoch
    admitted,   \* admitted-devices.json: epoch, each device's state and key
    serials,    \* serial-history: high water and reservation per device
    stamps,     \* the instr field of each device's policy row
    roles,      \* role-state.json: state and age of every generation
    artifacts,  \* the files of every generation under roles.d
    wanted,     \* current policy, part of each device and key of each device
    producer,   \* where each producer is, with its locals
    issued,     \* every stamp a device could ever have read
    stBudget    \* what is left of the outside events

stamperVars == <<epochs, admitted, serials, stamps, roles, artifacts, wanted,
                 producer, issued, stBudget>>

StEvents == {"role", "part", "key", "crash", "age", "recover"}
StSpend(e) == stBudget[e] > 0 /\ stBudget' = [stBudget EXCEPT ![e] = @ - 1]

Off == [at |-> "off", dev |-> NoStamp, want |-> NoStamp, serial |-> 0, gone |-> {}]

RoleSteps == {"file", "index", "rename", "activate", "reserve", "commit", "gc"}
InitSteps == {"admissions", "histories", "marker"}
DeviceFree(d) == \A q \in Producers : producer[q].dev # d
RoleFree == \A q \in Producers : producer[q].at \notin RoleSteps
NoProducer == \A q \in Producers : producer[q].at = "off"
NoInitializer == \A q \in Producers : producer[q].at \notin InitSteps

At(p, where) == producer[p].at = where
Move(p, where) == producer' = [producer EXCEPT ![p].at = where]
Stop(p) == producer' = [producer EXCEPT ![p] = Off]

\* _role_tuple: the identity of what the role says now.
RoleIn(e) == [epoch |-> e, body |-> wanted.role]

\* desired: what the next stamp of the device would say, without its serial.
Desired(d) == [epoch |-> epochs.active, gen |-> RoleIn(epochs.active),
               part |-> wanted.part[d], key |-> wanted.key[d]]
Content(s) == [epoch |-> s.epoch, gen |-> s.gen, part |-> s.part, key |-> s.key]

ZeroHistory(e) == [epoch |-> e, high |-> 0, reserved |-> NoStamp]

----------------------------------------------------------------------------
StamperInit ==
    /\ epochs = [key |-> 1, active |-> 1]
    /\ admitted = [epoch |-> 1, row |-> [d \in StDevices |->
                        IF d \in Late THEN "none" ELSE "active"],
                   made |-> [d \in StDevices |-> 0]]
    /\ serials = [d \in StDevices |-> IF d \in Late THEN NoStamp ELSE ZeroHistory(1)]
    /\ stamps = [d \in StDevices |-> NoStamp]
    /\ roles = [g \in Generations |-> [state |-> "none", age |-> "used"]]
    /\ artifacts = [g \in Generations |-> {}]
    /\ wanted \in [role : {CHOOSE b \in Bodies : TRUE},
                   part : [StDevices -> {0}], key : [StDevices -> {0}]]
    /\ producer = [p \in Producers |-> Off]
    /\ issued = [d \in StDevices |-> {}]
    /\ stBudget \in StBudgets

\* stamp_device: the producer lock shared, the epochs agreeing, the device
\* lock exclusive.
StartStamp(p, d) ==
    /\ At(p, "off") /\ NoInitializer /\ DeviceFree(d)
    /\ epochs.key = epochs.active /\ admitted.epoch = epochs.active
    /\ producer' = [producer EXCEPT ![p] =
                        [Off EXCEPT !.at = "admit", !.dev = d, !.want = Desired(d)]]
    /\ UNCHANGED <<epochs, admitted, serials, stamps, roles, artifacts, wanted, issued, stBudget>>

\* Mutant: the history that a cut admission left behind is taken for a used one.
Unused_Never(d) == FALSE

\* An admission that finds a history goes on only if it is a zero history.
Unused(d) == serials[d] = ZeroHistory(epochs.active)

\* _admit: pending, then a zero history, then active; each write survives.  A
\* pending admission made with another key than the current one is refused.
Admit(p) ==
    LET d == producer[p].dev
        key == producer[p].want.key
    IN  /\ \/ /\ At(p, "admit") /\ admitted.row[d] = "active"
              /\ IF serials[d] # NoStamp /\ serials[d].epoch = epochs.active
                 THEN Move(p, "ready") ELSE Stop(p)
              /\ UNCHANGED <<admitted, serials>>
           \/ /\ At(p, "admit") /\ admitted.row[d] = "none"
              /\ admitted' = [admitted EXCEPT !.row[d] = "pending", !.made[d] = key]
              /\ UNCHANGED <<serials, producer>>
           \/ /\ At(p, "admit") /\ admitted.row[d] = "pending"
              /\ \/ /\ serials[d] = NoStamp
                    /\ serials' = [serials EXCEPT ![d] = ZeroHistory(epochs.active)]
                    /\ Move(p, "admitted")
                 \/ /\ serials[d] # NoStamp
                    /\ IF Unused(d)
                       THEN Move(p, "admitted") ELSE Stop(p)
                    /\ UNCHANGED serials
              /\ UNCHANGED admitted
           \/ /\ At(p, "admitted") /\ admitted.made[d] = key
              /\ admitted' = [admitted EXCEPT !.row[d] = "active"]
              /\ Move(p, "ready")
              /\ UNCHANGED serials
           \/ /\ At(p, "admitted") /\ admitted.made[d] # key
              /\ Stop(p)
              /\ UNCHANGED <<admitted, serials>>
        /\ UNCHANGED <<epochs, stamps, roles, artifacts, wanted, issued, stBudget>>

Referenced == {stamps[d].gen : d \in {e \in StDevices : stamps[e] # NoStamp}}
Indexed == {g \in Generations : roles[g].state # "none"}

\* reconcile_roles: a pending generation is completed from either file; one
\* with neither, or a reference the index lacks, stops the producer.
Unreconcilable ==
    \/ Referenced \ Indexed # {}
    \/ \E g \in Generations : roles[g].state = "pending" /\ artifacts[g] = {}
PendingSet == {g \in Generations : roles[g].state = "pending"}
ReconciledRoles == [g \in Generations |->
    IF g \in PendingSet THEN [state |-> "active", age |-> "used"] ELSE roles[g]]
ReconciledFiles == [g \in Generations |->
    IF g \in PendingSet THEN {"final"} ELSE artifacts[g]]

Usable(g) == ReconciledRoles[g].state = "active" /\ "final" \in ReconciledFiles[g]

\* Mutant: the bound on indexed generations is off by one.
IndexFull_Late == Cardinality(Indexed) > MaxGenerations

IndexFull == Cardinality(Indexed) >= MaxGenerations

\* The comparison with the old stamp under the role lock: unchanged content
\* finishes an interrupted commit, other content goes to publication.
Compare(p) ==
    LET d == producer[p].dev
        old == stamps[d]
        want == [producer[p].want EXCEPT !.gen = RoleIn(producer[p].want.epoch), !.part = wanted.part[d]]
        same == old # NoStamp /\ Content(old) = want
        matched == ReconciledRoles[want.gen].state = "active"
    IN  /\ At(p, "ready") /\ RoleFree /\ ~Unreconcilable
        /\ roles' = ReconciledRoles /\ artifacts' = ReconciledFiles
        /\ \/ /\ old # NoStamp /\ ~Usable(old.gen)
              /\ Stop(p)
              /\ UNCHANGED serials
           \/ /\ same /\ Usable(old.gen)
              /\ serials' = IF serials[d].reserved = want /\ serials[d].high = old.serial
                            THEN [serials EXCEPT ![d].reserved = NoStamp] ELSE serials
              /\ Stop(p)
           \/ /\ ~same
              /\ old # NoStamp => Usable(old.gen)
              /\ \/ /\ matched /\ Usable(want.gen)
                    /\ producer' = [producer EXCEPT ![p].at = "reserve", ![p].want = want]
                 \/ /\ ~matched /\ ~IndexFull
                    /\ producer' = [producer EXCEPT ![p].at = "file", ![p].want = want]
                 \/ /\ IF matched THEN ~Usable(want.gen) ELSE IndexFull
                    /\ Stop(p)
              /\ UNCHANGED serials
        /\ UNCHANGED <<epochs, admitted, stamps, wanted, issued, stBudget>>

\* A reconciliation that fails leaves everything as it found it.
RefuseStamp(p) ==
    /\ At(p, "ready") /\ RoleFree /\ Unreconcilable
    /\ Stop(p)
    /\ UNCHANGED <<epochs, admitted, serials, stamps, roles, artifacts, wanted, issued, stBudget>>

\* Mutant: the generation is announced as active before its file is final.
Publish_Early(p) ==
    LET g == producer[p].want.gen
    IN  /\ At(p, "file")
        /\ roles' = [roles EXCEPT ![g] = [state |-> "active", age |-> "used"]]
        /\ artifacts' = [artifacts EXCEPT ![g] = @ \cup {"pending"}]
        /\ Move(p, "reserve")
        /\ UNCHANGED <<epochs, admitted, serials, stamps, wanted, issued, stBudget>>

\* _publish_role_locked: the pending file, the pending index entry, the
\* rename, the active entry.
Publish(p) ==
    LET g == producer[p].want.gen
    IN  /\ \/ /\ At(p, "file")
              /\ artifacts' = [artifacts EXCEPT ![g] = IF @ = {} THEN {"pending"} ELSE @]
              /\ Move(p, "index")
              /\ UNCHANGED roles
           \/ /\ At(p, "index")
              /\ roles' = [roles EXCEPT ![g] = [state |-> "pending", age |-> "used"]]
              /\ Move(p, "rename")
              /\ UNCHANGED artifacts
           \/ /\ At(p, "rename")
              /\ artifacts' = [artifacts EXCEPT ![g] = {"final"}]
              /\ Move(p, "activate")
              /\ UNCHANGED roles
           \/ /\ At(p, "activate")
              /\ roles' = [roles EXCEPT ![g].state = "active"]
              /\ Move(p, "reserve")
              /\ UNCHANGED artifacts
        /\ UNCHANGED <<epochs, admitted, serials, stamps, wanted, issued, stBudget>>

\* Mutant: a serial reserved for other content is handed out again.
NextSerial_Reuse(row, want) == IF row.reserved # NoStamp THEN row.high ELSE row.high + 1

NextSerial(row, want) == IF row.reserved = want THEN row.high ELSE row.high + 1

\* _reserve: the same content gets the serial it reserved before a crash.
Reserve(p) ==
    LET d == producer[p].dev
        want == producer[p].want
        n == NextSerial(serials[d], want)
    IN  /\ At(p, "reserve")
        /\ serials' = [serials EXCEPT ![d] =
                          [epoch |-> @.epoch, high |-> n, reserved |-> want]]
        /\ producer' = [producer EXCEPT ![p].at = "commit", ![p].serial = n]
        /\ UNCHANGED <<epochs, admitted, stamps, roles, artifacts, wanted, issued, stBudget>>

StampOf(p) == [epoch |-> producer[p].want.epoch, gen |-> producer[p].want.gen,
               part |-> producer[p].want.part, key |-> producer[p].want.key,
               serial |-> producer[p].serial]

\* The stamp is merged into the policy row unless the key changed meanwhile.
Commit(p) ==
    LET d == producer[p].dev
    IN  /\ At(p, "commit")
        /\ \/ /\ wanted.key[d] = producer[p].want.key
              /\ stamps' = [stamps EXCEPT ![d] = StampOf(p)]
              /\ issued' = [issued EXCEPT ![d] = @ \cup {StampOf(p)}]
              /\ Move(p, "confirm")
           \/ /\ wanted.key[d] # producer[p].want.key
              /\ Stop(p)
              /\ UNCHANGED <<stamps, issued>>
        /\ UNCHANGED <<epochs, admitted, serials, roles, artifacts, wanted, stBudget>>

\* _finalize; or the clean-up of a stamp whose key was superseded while it
\* was written, if it is still the one in the row.
Confirm(p) ==
    LET d == producer[p].dev
    IN  /\ At(p, "confirm")
        /\ \/ /\ wanted.key[d] = producer[p].want.key
              /\ serials' = [serials EXCEPT ![d].reserved = NoStamp]
              /\ UNCHANGED stamps
           \/ /\ wanted.key[d] # producer[p].want.key
              /\ stamps' = [stamps EXCEPT ![d] = IF @ = StampOf(p) THEN NoStamp ELSE @]
              /\ UNCHANGED serials
        /\ Stop(p)
        /\ UNCHANGED <<epochs, admitted, roles, artifacts, wanted, issued, stBudget>>

----------------------------------------------------------------------------
(* gc_roles *)

Collectable(g) ==
    roles[g].state = "active" /\ roles[g].age = "old" /\ g \notin Referenced

StartGc(p) ==
    /\ At(p, "off") /\ NoInitializer /\ RoleFree /\ ~Unreconcilable
    /\ roles' = ReconciledRoles /\ artifacts' = ReconciledFiles
    /\ producer' = [producer EXCEPT ![p] = [Off EXCEPT !.at = "gc"]]
    /\ UNCHANGED <<epochs, admitted, serials, stamps, wanted, issued, stBudget>>

\* An artifact is unlinked at once, its index entry goes with the last write.
\* A candidate without its file stops the collection.
Collect(p, g) ==
    /\ At(p, "gc") /\ Collectable(g) /\ g \notin producer[p].gone
    /\ IF "final" \in artifacts[g]
       THEN /\ artifacts' = [artifacts EXCEPT ![g] = @ \ {"final"}]
            /\ producer' = [producer EXCEPT ![p].gone = @ \cup {g}]
       ELSE Stop(p) /\ UNCHANGED artifacts
    /\ UNCHANGED <<epochs, admitted, serials, stamps, roles, wanted, issued, stBudget>>

FinishGc(p) ==
    /\ At(p, "gc")
    /\ \A g \in Generations : Collectable(g) => g \in producer[p].gone
    /\ roles' = [g \in Generations |->
          IF g \in producer[p].gone THEN [state |-> "none", age |-> "used"]
          ELSE IF roles[g].state # "active" THEN roles[g]
          ELSE IF g \in Referenced THEN [roles[g] EXCEPT !.age = "used"]
          ELSE IF roles[g].age = "used" THEN [roles[g] EXCEPT !.age = "marked"]
          ELSE roles[g]]
    /\ Stop(p)
    /\ UNCHANGED <<epochs, admitted, serials, stamps, artifacts, wanted, issued, stBudget>>

----------------------------------------------------------------------------
(* initialize_producer("recover"): a new epoch, admissions, histories and   *)
(* only then the activation, under the exclusive producer lock              *)

StartRecover(p) ==
    /\ NoProducer /\ StSpend("recover")
    /\ [epoch : {epochs.key + 1}, body : Bodies] \subseteq Generations      \* bound
    /\ epochs' = [epochs EXCEPT !.key = @ + 1]
    /\ producer' = [producer EXCEPT ![p] = [Off EXCEPT !.at = "admissions"]]
    /\ UNCHANGED <<admitted, serials, stamps, roles, artifacts, wanted, issued>>

Recovery(p) ==
    /\ \/ /\ At(p, "admissions")
          /\ admitted' = [admitted EXCEPT !.epoch = epochs.key,
                                          !.row = [d \in StDevices |-> "active"]]
          /\ Move(p, "histories")
          /\ UNCHANGED <<epochs, serials>>
       \/ /\ At(p, "histories")
          /\ serials' = [d \in StDevices |-> ZeroHistory(epochs.key)]
          /\ Move(p, "marker")
          /\ UNCHANGED <<epochs, admitted>>
       \/ /\ At(p, "marker")
          /\ epochs' = [epochs EXCEPT !.active = epochs.key]
          /\ Stop(p)
          /\ UNCHANGED <<admitted, serials>>
    /\ UNCHANGED <<stamps, roles, artifacts, wanted, issued, stBudget>>

----------------------------------------------------------------------------
(* Outside events *)

ProducerDies(p) ==
    /\ ~At(p, "off") /\ StSpend("crash")
    /\ Stop(p)
    /\ UNCHANGED <<epochs, admitted, serials, stamps, roles, artifacts, wanted, issued>>

\* The policy, a device's peers or a device's key change; time passes for
\* the generations nobody refers to.
World ==
    /\ \/ /\ StSpend("role")
          /\ \E b \in Bodies : wanted' = [wanted EXCEPT !.role = b]
          /\ UNCHANGED roles
       \/ /\ StSpend("part")
          /\ \E d \in StDevices : wanted' = [wanted EXCEPT !.part[d] = 1 - @]
          /\ UNCHANGED roles
       \/ /\ StSpend("key")
          /\ \E d \in StDevices : wanted' = [wanted EXCEPT !.key[d] = @ + 1]
          /\ UNCHANGED roles
       \/ /\ StSpend("age") /\ RoleFree
          /\ roles' = [g \in Generations |->
                IF roles[g].age = "marked" THEN [roles[g] EXCEPT !.age = "old"] ELSE roles[g]]
          /\ UNCHANGED wanted
    /\ UNCHANGED <<epochs, admitted, serials, stamps, artifacts, producer, issued>>

ProducerWork(p) ==
    \/ Admit(p) \/ Compare(p) \/ RefuseStamp(p) \/ Publish(p) \/ Reserve(p)
    \/ Commit(p) \/ Confirm(p)
    \/ (\E g \in Generations : Collect(p, g)) \/ FinishGc(p) \/ Recovery(p)

StamperNext ==
    \/ \E p \in Producers : ProducerWork(p) \/ StartGc(p) \/ StartRecover(p) \/ ProducerDies(p)
    \/ \E p \in Producers, d \in StDevices : StartStamp(p, d)
    \/ World

StamperSpec == StamperInit /\ [][StamperNext]_stamperVars

----------------------------------------------------------------------------
(* Properties *)

\* Epochs, admissions, histories, stamps and the role index keep their shape.
StamperTypeOK ==
    /\ epochs \in [key : Nat, active : Nat]
    /\ admitted \in [epoch : Nat, row : [StDevices -> {"none", "pending", "active"}],
                     made : [StDevices -> Nat]]
    /\ \A d \in StDevices :
          /\ serials[d] \in Histories \cup {NoStamp}
          /\ stamps[d] \in StampSet \cup {NoStamp}
    /\ roles \in [Generations -> [state : {"none", "pending", "active"},
                                  age : {"used", "marked", "old"}]]
    /\ artifacts \in [Generations -> SUBSET {"pending", "final"}]
    /\ Cardinality(Indexed) <= MaxGenerations

Newer(a, b) == a.epoch > b.epoch \/ (a.epoch = b.epoch /\ a.serial > b.serial)

\* Devices refuse a pair below their floor and a second content for an equal
\* pair.  Every stamp that becomes visible carries a pair above all earlier
\* ones of its device, however reservations, crashes, superseded keys and a
\* recovery of the producer fall between (_reserve, _finalize, _admit).
StampsOnlyAdvance ==
    \A d \in StDevices : \A new \in issued'[d] \ issued[d] :
       \A old \in issued[d] : Newer(new, old)

\* The catalog serves a stamp from the artifact it names
\* (read_role_artifact_snapshot): neither a cut publication nor a collection
\* that races a policy change leaves a visible stamp without one.
StampHasArtifact ==
    \A d \in StDevices : stamps[d] # NoStamp =>
        roles[stamps[d].gen].state = "active" /\ "final" \in artifacts[stamps[d].gen]

\* A collection that died between the unlink and the index write: no later
\* collection gets past this generation.
GcBlocked == \E g \in Generations : roles[g].state = "active" /\ "final" \notin artifacts[g]

\* A pending admission was cut and the device's key replaced before the next
\* visit: every later visit refuses it.
AdmissionRefused(d) == admitted.row[d] = "pending" /\ admitted.made[d] # wanted.key[d]

\* When the policy rests, every device ends with a stamp of the current
\* epoch, role, part and key, unless the index has no room for the role, a cut
\* collection or a cut recovery waits for an operator, or the device's cut admission
\* does (stamp_device, status_loop).  Holds for good in the end.
StampsConverge ==
    \/ GcBlocked \/ (IndexFull /\ RoleIn(epochs.active) \notin Indexed)
    \/ epochs.key # epochs.active \/ admitted.epoch # epochs.active
    \/ \A d \in StDevices :
          AdmissionRefused(d) \/ (stamps[d] # NoStamp /\ Content(stamps[d]) = Desired(d))

\* instruction_stamper.py:472 "A later key rotation changes the current key record
\* and must not rewrite or invalidate that established fact": no key rotation makes
\* an admission that was begun a refused one.
AdmissionSurvivesRotation == \A d \in StDevices : ~AdmissionRefused(d)

\* What holds in every state of the producer.
StamperSafe ==
  /\ StamperTypeOK
  /\ StampHasArtifact
=============================================================================
