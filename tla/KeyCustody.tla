----------------------------- MODULE KeyCustody -----------------------------
(***************************************************************************)
(* The custody of the server's signing and TLS material: the online        *)
(* signer's key, certificate and revocation keylist                        *)
(* (server/instruction_keys.py), the replacement and retirement of that    *)
(* signer (server/instruction_rotation.py), the replacement of the device  *)
(* TLS identity, the peer CA and the offline roots                         *)
(* (server/trust_rotation.py, tools/iris_installer/trust_maintenance.py)   *)
(* and the Console's certificate (server/tls_rotation.py,                  *)
(* server/gui_tls.py).                                                     *)
(*                                                                         *)
(* Every handler reads what it needs under its lock and then replaces      *)
(* files one by one.  A handler is therefore an action that computes the   *)
(* list of its writes; the writes are taken one at a time, may fail and    *)
(* may be cut short by a crash.  A retirement and an attestation leave     *)
(* the lock around the publication of the keylist: their second and third  *)
(* parts are continuations that take it again.                             *)
(*                                                                         *)
(* A key is a number, a certificate is the key it certifies, the root and  *)
(* the generation of that root's key that signed it, and its last day; a   *)
(* digest is the value itself.                                             *)
(***************************************************************************)
EXTENDS Integers, Sequences, FiniteSets, SequencesExt

CONSTANTS MaxKey,        \* online keys ever made
          MaxSeq,        \* the last keylist sequence
          MaxDay,        \* the last day
          Life,          \* CERTIFICATE_LIFETIME_SECONDS, in days
          Refuse,        \* CERTIFICATE_REFUSE_SECONDS, in days
          CustodyBudgets \* initial budgets, see CustodyInit

ASSUME CustodyAssumption ==
  /\ {MaxKey, MaxSeq, MaxDay, Life} \subseteq (Nat \ {0})
  /\ Refuse \in 0 .. (Life - 1)

VARIABLES disk,    \* the files, by name
          pen,     \* the handler that is writing: [todo, undo, next]
          conts,   \* handlers between two of their locks
          desk,    \* what operators and custodians hold
          day,     \* the clock
          up,      \* whether the services run
          dev,     \* the deployment of the one device
          kleft    \* what is left of the budgets

custodyVars == <<disk, pen, conts, desk, day, up, dev, kleft>>

Roots7 == {"ra", "rb"}
Families7 == {"device-tls", "peer-ca", "instruction-roots"}
NoCert == [key |-> 0, root |-> "ra", gen |-> 0, end |-> 0]
NoList == [seq |-> 0, krl |-> {}, root |-> "ra", gen |-> 0]
NoReq == [seq |-> 0, krl |-> {}, root |-> "ra"]
NoLState == [of |-> NoList, att |-> {}]
NoCont == [op |-> "", part |-> 0, art |-> NoList, for |-> 0]
NoPen == [todo |-> <<>>, undo |-> <<>>, next |-> NoCont]
NoTrust == [state |-> "idle", roots |-> [r \in Roots7 |-> 1], req |-> NoReq,
            before |-> <<>>, out |-> <<>>, guards |-> <<0, 0, 0>>]

Targets7(f) == CASE f = "device-tls" -> <<"dkey", "dcert">>
                 [] f = "peer-ca" -> <<"pca">>
                 [] f = "instruction-roots" ->
                      <<"ra", "rb", "cert", "list", "lstate">>

\* A set-up server, or one where no key was generated yet.
Material(made) ==
  [cipher |-> IF made THEN 1 ELSE 0, public |-> IF made THEN 1 ELSE 0,
   rkey |-> 0, rpub |-> 0,
   cert |-> IF made THEN [key |-> 1, root |-> "ra", gen |-> 1, end |-> Life]
                    ELSE NoCert,
   rcert |-> NoCert, list |-> NoList, lstate |-> NoLState,
   rot |-> [state |-> "idle", old |-> 0, new |-> 1, oldcert |-> NoCert,
            cert |-> NoCert, at |-> 0, roots |-> <<1, 1>>, req |-> NoReq,
            base |-> NoList, seq |-> 0],
   att |-> [roots |-> <<1, 1>>, req |-> NoReq, base |-> NoList, art |-> NoList],
   ra |-> 1, rb |-> 1, epoch |-> 0, dkey |-> 1, dcert |-> 1, pca |-> 1,
   gkey |-> 0, gcrt |-> 0, gcomb |-> 0,
   gj |-> [state |-> "idle", new |-> 0, before |-> <<0, 0, 0>>]]
  @@ [f \in Families7 |-> NoTrust]

CustodyInit ==
  /\ kleft \in CustodyBudgets
  /\ disk = Material(kleft.make = 0)
  /\ pen = NoPen
  /\ conts = {}
  /\ desk = [renew |-> <<0, NoCert>>, base |-> NoList, g |-> 0, failed |-> {}]
  /\ day = 0
  /\ up = TRUE
  /\ dev = "none"

KSpend(what) ==
  /\ kleft[what] > 0
  /\ kleft' = [kleft EXCEPT ![what] = @ - 1]

----------------------------------------------------------------------------
(* Locks and writes.                                                       *)

Free7 == pen.todo = <<>>

\* _custody_lock: recover_locked runs before the body of every holder.
Lock7 == /\ Free7
         /\ disk.rot.state # "committing"

TrustLock == Free7 /\ ~ \E c \in conts : c.op = "attest"

Hold(writes, undo, next) ==
  pen' = [todo |-> writes, undo |-> undo, next |-> next]

\* A handler whose only effect is its writes.
Does7(writes) ==
  /\ Hold(writes, <<>>, NoCont)
  /\ UNCHANGED <<disk, conts, desk, day, up, dev>>

\* _atomic_write of the next file; after the last one the lock is left.
WriteNext ==
  /\ ~Free7
  /\ LET w == Head(pen.todo)
         last == Tail(pen.todo) = <<>>
     IN /\ disk' = [disk EXCEPT ![w[1]] = w[2]]
        /\ pen' = IF last THEN NoPen ELSE [pen EXCEPT !.todo = Tail(@)]
        /\ conts' = IF last /\ pen.next.part > 0 THEN conts \cup {pen.next}
                                                 ELSE conts
        /\ desk' = IF last /\ pen.next.op = "failed"
                   THEN [desk EXCEPT !.failed = @ \cup {desk.g}] ELSE desk
  /\ UNCHANGED <<day, up, dev, kleft>>

\* A write fails: the handler raises, after putting back what it owns.
WriteFails ==
  /\ ~Free7 /\ KSpend("fault")
  /\ pen' = [NoPen EXCEPT !.todo = pen.undo, !.next.op = "failed"]
  /\ UNCHANGED <<disk, conts, desk, day, up, dev>>

\* The runtime directory is a tmpfs.
Wiped == [disk EXCEPT !.rkey = 0, !.rpub = 0, !.rcert = NoCert, !.gcomb = 0]

Crash7 ==
  /\ KSpend("crash")
  /\ up' = FALSE /\ pen' = NoPen /\ conts' = {} /\ disk' = Wiped
  /\ UNCHANGED <<desk, day, dev>>

\* The installer stops the services for a trust replacement.
StopServices ==
  /\ up /\ Free7 /\ conts = {}
  /\ \E f \in Families7 : disk[f].state = "approved"
  /\ KSpend("stop")
  /\ up' = FALSE /\ disk' = Wiped
  /\ UNCHANGED <<pen, conts, desk, day, dev>>

\* The entrypoint builds the Console's file from a matching durable pair.
\* The installer starts no service over a half-published replacement.
Boot ==
  /\ ~up /\ Free7
  /\ \A f \in Families7 : disk[f].state # "committing"
  /\ up' = TRUE
  /\ disk' = [disk EXCEPT !.gcomb =
                IF disk.gkey = disk.gcrt THEN disk.gkey ELSE 0]
  /\ UNCHANGED <<pen, conts, desk, day, dev, kleft>>

NextDay ==
  /\ day < MaxDay /\ Free7 /\ KSpend("days")
  /\ day' = day + 1
  /\ UNCHANGED <<disk, pen, conts, desk, up, dev>>

----------------------------------------------------------------------------
(* The online key, its certificate and the keylist.                        *)

RootKeys == [r \in Roots7 |-> disk[r]]

\* _load_keylist_snapshot_locked
Ahead == \/ disk.lstate.of.seq > disk.list.seq
         \/ disk.lstate.of.seq = disk.list.seq /\ disk.lstate.of # disk.list
Consistent == ~Ahead /\ disk.lstate.of = disk.list

\* _ensure_runtime_key_locked
HasKey == IF disk.rkey # 0 THEN disk.cipher # 0 /\ disk.rkey = disk.public
          ELSE disk.cipher # 0 /\ disk.cipher = disk.public
EnsureKey == IF disk.rkey # 0 THEN <<<<"rpub", disk.public>>>>
             ELSE <<<<"rpub", disk.public>>, <<"rkey", disk.cipher>>>>

\* _certificate_operation_locked; a body is refused in the last days.
CertOk(key, cert, roots, krl, now, body) ==
  /\ cert.key = key /\ key # 0
  /\ now < cert.end
  /\ cert.gen = roots[cert.root]
  /\ key \notin krl
  /\ body => cert.end - now > Refuse

Verified(list, roots) == list.gen = roots[list.root]

\* _generate_online_key_locked: published one by one, unlinked on failure.
GenerateKey ==
  /\ Lock7 /\ up /\ KSpend("make")
  /\ {disk.cipher, disk.public, disk.rkey, disk.rpub} = {0}
  /\ disk.cert = NoCert /\ disk.rcert = NoCert
  /\ Hold(<<<<"cipher", 1>>, <<"public", 1>>, <<"rpub", 1>>, <<"rkey", 1>>>>,
          <<<<"rkey", 0>>, <<"rpub", 0>>, <<"public", 0>>, <<"cipher", 0>>>>,
          NoCont)
  /\ UNCHANGED <<disk, conts, desk, day, up, dev>>

ImportWrites(cert) == EnsureKey \o <<<<"rcert", cert>>, <<"cert", cert>>>>

\* The first certificate, through the command line.
ImportFirst(root) ==
  /\ Lock7 /\ up /\ HasKey /\ Consistent
  /\ disk.cert = NoCert
  /\ LET cert == [key |-> disk.public, root |-> root, gen |-> disk[root],
                  end |-> day + Life]
     IN CertOk(disk.public, cert, RootKeys, disk.list.krl, day, FALSE)
        /\ Does7(ImportWrites(cert))
  /\ UNCHANGED kleft

RenewalRequest ==
  /\ Lock7 /\ up /\ HasKey /\ disk.cert # NoCert
  /\ desk.renew # <<disk.public, disk.cert>>
  /\ KSpend("renew")
  /\ Hold(EnsureKey, <<>>, NoCont)
  /\ desk' = [desk EXCEPT !.renew = <<disk.public, disk.cert>>]
  /\ UNCHANGED <<disk, conts, day, up, dev>>

\* Mutant: the lifetime of a renewed certificate is not checked.
Renew_Longer(root) ==
  LET cert == [key |-> desk.renew[1], root |-> root, gen |-> disk[root],
               end |-> disk.cert.end + Life]
  IN /\ Lock7 /\ up /\ HasKey /\ Consistent
     /\ disk.public = desk.renew[1] /\ disk.cert = desk.renew[2]
     /\ Does7(ImportWrites(cert))
     /\ UNCHANGED kleft

\* import_online_certificate with the renewal's digests.
Renew(root) ==
  LET cert == [key |-> desk.renew[1], root |-> root, gen |-> disk[root],
               end |-> day + Life]
  IN /\ Lock7 /\ up /\ HasKey /\ Consistent
     /\ disk.public = desk.renew[1]
     /\ disk.cert \in {desk.renew[2], cert}
     /\ CertOk(disk.public, cert, RootKeys, disk.list.krl, day, FALSE)
     /\ cert.end - day > Refuse
     /\ disk.cert # cert => cert.end > disk.cert.end
     /\ Does7(ImportWrites(cert))
     /\ UNCHANGED kleft

CanSign == /\ HasKey /\ Consistent
           /\ CertOk(disk.public, disk.cert, RootKeys, disk.list.krl, day, TRUE)

SignInstruction ==
  /\ Lock7 /\ up /\ CanSign
  /\ disk.rcert # disk.cert \/ disk.rkey = 0 \/ disk.rpub # disk.public
  /\ Does7(EnsureKey \o <<<<"rcert", disk.cert>>>>)
  /\ UNCHANGED kleft

\* _keylist_state: attestations by keys that are still configured are kept.
ListState(art, roots, previous) ==
  [of |-> art, att |-> {a \in previous.att : a[2] = roots[a[1]]}
                         \cup {<<art.root, art.gen>>}]

Installable(art) ==
  /\ ~Ahead
  /\ art.seq > disk.list.seq \/ art = disk.list
  /\ art # disk.list => Consistent
  /\ Verified(art, RootKeys)

\* Mutant: the state is written before the artifact.
InstallWrites_StateFirst(art) ==
  LET state == ListState(art, RootKeys, disk.lstate)
  IN IF art = disk.list THEN <<<<"lstate", state>>>>
     ELSE <<<<"lstate", state>>, <<"list", art>>>>

InstallWrites(art) ==
  LET state == ListState(art, RootKeys, disk.lstate)
  IN IF art = disk.list THEN <<<<"lstate", state>>>>
     ELSE <<<<"list", art>>, <<"lstate", state>>>>

\* iris-instructions --keylist-request: the custodian starts from what is
\* installed now, and may come back late.
ListRequest ==
  /\ Lock7 /\ up /\ desk.base # disk.list /\ KSpend("list")
  /\ desk' = [desk EXCEPT !.base = disk.list]
  /\ UNCHANGED <<disk, pen, conts, day, up, dev>>

SignedBy(req, keyOf) == [seq |-> req.seq, krl |-> req.krl, root |-> req.root,
                         gen |-> keyOf[req.root]]

InstallList(root) ==
  LET req == [seq |-> desk.base.seq + 1, krl |-> desk.base.krl, root |-> root]
      art == SignedBy(req, RootKeys)
  IN /\ Lock7 /\ up /\ KSpend("list")
     /\ req.seq <= MaxSeq /\ art # disk.list
     /\ Installable(art)
     /\ Does7(InstallWrites(art))

\* The identical retry that an interrupted installation asks for.
RetryList ==
  /\ Lock7 /\ up /\ disk.list.seq > 0 /\ ~Consistent
  /\ Installable(disk.list)
  /\ Does7(InstallWrites(disk.list))
  /\ UNCHANGED kleft

NewEpoch ==
  /\ up /\ Free7 /\ KSpend("epoch")
  /\ disk' = [disk EXCEPT !.epoch = @ + 1]
  /\ UNCHANGED <<pen, conts, desk, day, up, dev>>

\* Mutant: an unfinished publication does not make the status invalid.
CustodyState_Blind ==
  CASE ~HasKey -> "invalid"
    [] ~CertOk(disk.public, disk.cert, RootKeys, disk.list.krl, day, FALSE)
         -> "invalid"
    [] disk.cert.end - day <= Refuse -> "signing_refused"
    [] disk.list = NoList -> "keylist_missing"
    [] 2 * (disk.cert.end - day) <= Life -> "renewal_due"
    [] OTHER -> "ready"

\* refresh_custody_status, for a server with custody.
CustodyValid ==
  /\ HasKey /\ Consistent
  /\ CertOk(disk.public, disk.cert, RootKeys, disk.list.krl, day, FALSE)

\* build_custody_status
CustodyState ==
  CASE ~CustodyValid -> "invalid"
    [] disk.cert.end - day <= Refuse -> "signing_refused"
    [] disk.list = NoList -> "keylist_missing"
    [] 2 * (disk.cert.end - day) <= Life -> "renewal_due"
    [] OTHER -> "ready"

----------------------------------------------------------------------------
(* Replacing the online signer.                                            *)

Trusts == <<disk.ra, disk.rb>>

PrepareRotation ==
  /\ Lock7 /\ up /\ KSpend("rot")
  /\ disk.rot.state \in {"idle", "completed", "cancelled"}
  /\ HasKey /\ disk.cert # NoCert
  /\ disk.rot.new < MaxKey
  /\ Does7(EnsureKey \o <<<<"rot",
       [state |-> "awaiting-approval", old |-> disk.public,
        new |-> disk.rot.new + 1, oldcert |-> disk.cert, cert |-> NoCert,
        at |-> 0, roots |-> Trusts, req |-> NoReq, base |-> NoList,
        seq |-> 0]>>>>)

\* Mutant: the journal is closed before the files are replaced.
RecoverWrites_Early(rot) ==
  <<<<"rot", [rot EXCEPT !.state = "retirement-pending"]>>,
    <<"cipher", rot.new>>, <<"public", rot.new>>, <<"cert", rot.cert>>,
    <<"rkey", rot.new>>, <<"rpub", rot.new>>, <<"rcert", rot.cert>>>>

\* recover_locked: the six files, then the journal.
RecoverWrites(rot) ==
  <<<<"cipher", rot.new>>, <<"public", rot.new>>, <<"cert", rot.cert>>,
    <<"rkey", rot.new>>, <<"rpub", rot.new>>, <<"rcert", rot.cert>>,
    <<"rot", [rot EXCEPT !.state = "retirement-pending"]>>>>

Activate(root) ==
  LET cert == [key |-> disk.rot.new, root |-> root, gen |-> disk[root],
               end |-> day + Life]
      rot == [disk.rot EXCEPT !.state = "committing", !.cert = cert,
                              !.at = day]
  IN /\ Lock7 /\ up
     /\ disk.rot.state = "awaiting-approval"
     /\ disk.rot.roots = Trusts /\ disk.cert = disk.rot.oldcert
     /\ disk.cipher = disk.rot.old /\ disk.public = disk.rot.old
     /\ Consistent
     /\ CertOk(cert.key, cert, RootKeys, disk.list.krl, day, FALSE)
     /\ cert.end - day > Refuse
     /\ Does7(<<<<"rot", rot>>>> \o RecoverWrites(rot))
     /\ UNCHANGED kleft

\* Whoever takes the lock next completes an activation that was cut short.
RecoverRotation ==
  LET rot == disk.rot
  IN /\ Free7 /\ up /\ rot.state = "committing"
     /\ rot.roots = Trusts
     /\ {disk.cipher, disk.public} \subseteq {rot.old, rot.new}
     /\ disk.cert \in {rot.oldcert, rot.cert}
     /\ Consistent
     /\ CertOk(rot.new, rot.cert, RootKeys, disk.list.krl, rot.at, FALSE)
     /\ Does7(RecoverWrites(rot))
     /\ UNCHANGED kleft

CancelRotation ==
  /\ Lock7 /\ up /\ disk.rot.state = "awaiting-approval" /\ KSpend("cancel")
  /\ Does7(<<<<"rot", [disk.rot EXCEPT !.state = "cancelled"]>>>>)

\* retirement_request: the installed revocations and the former key.
RetirementRequest(root) ==
  LET req == [seq |-> disk.list.seq + 1,
              krl |-> disk.list.krl \cup {disk.rot.old}, root |-> root]
  IN /\ Lock7 /\ up /\ KSpend("ask")
     /\ disk.rot.state \in {"retirement-pending", "retiring"}
     /\ disk.public = disk.rot.new
     /\ Consistent
     /\ disk.list.seq < MaxSeq
     /\ disk.rot.req = NoReq \/ disk.rot.base # disk.list
          \/ disk.rot.req.root # root
     /\ Does7(<<<<"rot", [disk.rot EXCEPT !.state = "retirement-pending",
                            !.req = req, !.base = disk.list]>>>>)

\* Mutant: the record is completed before the keylist is published.
RetireBegin_Early ==
  LET art == SignedBy(disk.rot.req, RootKeys)
  IN /\ Lock7 /\ up
     /\ disk.rot.state = "retirement-pending" /\ disk.rot.req # NoReq
     /\ disk.list = disk.rot.base
     /\ Hold(<<<<"rot", [disk.rot EXCEPT !.state = "completed",
                                         !.seq = art.seq]>>>>,
             <<>>, [op |-> "retire", part |-> 1, art |-> art,
                    for |-> disk.rot.new])
     /\ UNCHANGED <<disk, conts, desk, day, up, dev, kleft>>

\* retire up to the point where it leaves the lock.
RetireBegin ==
  LET art == SignedBy(disk.rot.req, RootKeys)
  IN /\ Lock7 /\ up
     /\ disk.rot.state \in {"retirement-pending", "retiring"}
     /\ disk.rot.req # NoReq
     /\ ~ \E c \in conts : c.op = "retire"
     /\ disk.public = disk.rot.new
     /\ HasKey
     /\ CertOk(disk.public, disk.cert, RootKeys, art.krl, day, TRUE)
     /\ disk.rot.old \in art.krl /\ disk.rot.new \notin art.krl
     /\ ~Ahead /\ disk.list \in {disk.rot.base, art}
     /\ Verified(art, RootKeys)
     /\ Hold(EnsureKey \o <<<<"rot", [disk.rot EXCEPT !.state = "retiring"]>>>>,
             <<>>, [op |-> "retire", part |-> 1, art |-> art,
                    for |-> disk.rot.new])
     /\ UNCHANGED <<disk, conts, desk, day, up, dev, kleft>>

\* install_keylist, called between the locks.
Publish7(c) ==
  /\ Lock7 /\ c.part = 1
  /\ conts' = conts \ {c}
  /\ IF Installable(c.art)
     THEN Hold(InstallWrites(c.art), <<>>, [c EXCEPT !.part = 2])
     ELSE pen' = pen
  /\ UNCHANGED <<disk, desk, day, up, dev, kleft>>

Confirms(c) ==
  /\ disk.rot.new = c.for
  /\ disk.rot.state \in {"retiring", "completed"}
  /\ SignedBy(disk.rot.req, RootKeys) = c.art
  /\ disk.public = disk.rot.new
  /\ Consistent /\ disk.list = c.art

RetireEnd(c) ==
  /\ Lock7 /\ c.op = "retire" /\ c.part = 2
  /\ conts' = conts \ {c}
  /\ IF Confirms(c)
     THEN Hold(<<<<"rot", [disk.rot EXCEPT !.state = "completed",
                                           !.seq = c.art.seq]>>>>, <<>>, NoCont)
     ELSE pen' = pen
  /\ UNCHANGED <<disk, desk, day, up, dev, kleft>>

----------------------------------------------------------------------------
(* Attesting the configured roots.                                         *)

Settled7(f) == disk[f].state \in {"idle", "published", "cancelled"}

\* Mutant: the request carries no revocations over.
AttestationRequest_Empty(root) ==
  /\ TrustLock /\ Lock7 /\ up /\ KSpend("attest")
  /\ Settled7("instruction-roots") /\ Consistent /\ disk.list.seq < MaxSeq
  /\ Does7(<<<<"att", [roots |-> Trusts, base |-> disk.list, art |-> NoList,
                       req |-> [seq |-> disk.list.seq + 1, krl |-> {},
                                root |-> root]]>>>>)

AttestationRequest(root) ==
  LET req == [seq |-> disk.list.seq + 1, krl |-> disk.list.krl, root |-> root]
  IN /\ TrustLock /\ Lock7 /\ up /\ KSpend("attest")
     /\ Settled7("instruction-roots")
     /\ Consistent
     /\ disk.list.seq < MaxSeq
     /\ disk.list # NoList => Verified(disk.list, RootKeys)
     /\ disk.att.req.root # root \/ disk.att.base # disk.list
          \/ disk.att.req = NoReq
     /\ Does7(<<<<"att", [roots |-> Trusts, req |-> req, base |-> disk.list,
                          art |-> NoList]>>>>)

AttestBegin ==
  LET art == SignedBy(disk.att.req, RootKeys)
  IN /\ TrustLock /\ Lock7 /\ up
     /\ Settled7("instruction-roots")
     /\ disk.att.req # NoReq
     /\ disk.att.roots = Trusts
     /\ ~Ahead /\ disk.list \in {disk.att.base, art}
     /\ disk.list = art => ~Consistent
     /\ disk.att.art \in {NoList, art}
     /\ Verified(art, RootKeys)
     /\ Hold(<<<<"att", [disk.att EXCEPT !.art = art]>>>>, <<>>,
             [op |-> "attest", part |-> 1, art |-> art, for |-> 0])
     /\ UNCHANGED <<disk, conts, desk, day, up, dev, kleft>>

\* The published root replacement learns of the new keylist.
AttestEnd(c) ==
  /\ Lock7 /\ c.op = "attest" /\ c.part = 2
  /\ conts' = conts \ {c}
  /\ LET tr == disk["instruction-roots"]
         same == tr.state = "published" /\ tr.roots = RootKeys
     IN IF Consistent /\ disk.list = c.art
        THEN Hold((IF same THEN <<<<"instruction-roots",
                     [tr EXCEPT !.before.list = disk.list,
                                !.before.lstate = disk.lstate]>>>>
                           ELSE <<>>)
                  \o <<<<"att", disk.att>>>>, <<>>, NoCont)
        ELSE pen' = pen
  /\ UNCHANGED <<disk, desk, day, up, dev, kleft>>

----------------------------------------------------------------------------
(* Replacing deployment trust.                                             *)

Guards7 == <<disk.epoch, disk.cipher, disk.public>>
SignerIdle == disk.rot.state \in {"idle", "completed", "cancelled"}
OnDisk(f) == [t \in ToSet(Targets7(f)) |-> disk[t]]

\* drain_status: a device with a deployment that is not proved removed, or
\* with a credential newer than its removal.
Drained == dev \in {"none", "removed"}

Fresh7(f, changed, signer) ==
  [NoTrust EXCEPT !.state = IF f = "peer-ca" THEN "approved"
                                             ELSE "awaiting-approval",
     !.roots = [r \in Roots7 |-> disk[r] + IF r \in changed THEN 1 ELSE 0],
     !.req = [seq |-> disk.list.seq + 1, krl |-> disk.list.krl,
              root |-> signer],
     !.before = OnDisk(f), !.guards = Guards7,
     !.out = IF f = "peer-ca" THEN [pca |-> disk.pca + 1] ELSE <<>>]

\* _prepare_roots: the keylist to be preserved is whole and verified.
RootsPreparable(changed) ==
  /\ Lock7 /\ SignerIdle /\ Consistent /\ disk.list.seq < MaxSeq
  /\ changed # {}
  /\ disk.list # NoList => Verified(disk.list, RootKeys)

PrepareTrust(f, changed, signer) ==
  /\ TrustLock /\ up /\ KSpend(f)
  /\ \A o \in Families7 : Settled7(o)
  /\ IF f = "instruction-roots"
     THEN RootsPreparable(changed)
     ELSE changed = {} /\ signer = "ra"
  /\ Does7(<<<<f, Fresh7(f, changed, signer)>>>>)

\* _approve_roots, with the certificate that the new root's custodian signs.
RootsOutput(tr, cert) ==
  LET art == SignedBy(tr.req, tr.roots)
  IN [ra |-> tr.roots["ra"], rb |-> tr.roots["rb"], cert |-> cert,
      list |-> art, lstate |-> ListState(art, tr.roots, NoLState)]

\* _approve_tls: the candidate key and the certificate made for it.
TlsOutput == [dkey |-> disk.dkey + 1, dcert |-> disk.dkey + 1]

RootsAcceptable(tr, cert) ==
  /\ disk.rot.state # "committing" /\ HasKey /\ Consistent
  /\ CertOk(disk.public, cert, tr.roots, disk.list.krl, day, FALSE)

ApproveTrust(f, root) ==
  LET tr == disk[f]
      cert == [key |-> disk.public, root |-> root, gen |-> tr.roots[root],
               end |-> day + Life]
      out == IF f = "device-tls" THEN TlsOutput ELSE RootsOutput(tr, cert)
  IN /\ TrustLock /\ up /\ f # "peer-ca"
     /\ tr.state = "awaiting-approval"
     /\ f = "instruction-roots" => RootsAcceptable(tr, cert)
     /\ f = "device-tls" => root = "ra"
     /\ Does7(<<<<f, [tr EXCEPT !.state = "approved", !.out = out]>>>>)
     /\ UNCHANGED kleft

CancelTrust(f) ==
  /\ TrustLock /\ up /\ disk[f].state \in {"awaiting-approval", "approved"}
  /\ KSpend("cancel")
  /\ Does7(<<<<f, [disk[f] EXCEPT !.state = "cancelled", !.out = <<>>]>>>>)

\* Mutant: the journal says published before the files are replaced.
PublishWrites_Early(f) ==
  LET tr == disk[f]
      ts == Targets7(f)
  IN <<<<f, [tr EXCEPT !.state = "published", !.out = <<>>,
                       !.before = tr.out]>>>>
     \o [i \in 1 .. Len(ts) |-> <<ts[i], tr.out[ts[i]]>>]

PublishWrites(f) ==
  LET tr == disk[f]
      ts == Targets7(f)
  IN <<<<f, [tr EXCEPT !.state = "committing"]>>>>
     \o [i \in 1 .. Len(ts) |-> <<ts[i], tr.out[ts[i]]>>]
     \o <<<<f, [tr EXCEPT !.state = "published", !.out = <<>>,
                          !.before = tr.out]>>>>

\* Mutant: the drain is not evaluated again once the services stopped.
Admits7_NoDrain(f) ==
  /\ disk[f].state = "approved"
  /\ OnDisk(f) = disk[f].before
  /\ f = "instruction-roots" =>
       /\ disk[f].guards = Guards7 /\ SignerIdle
       /\ RootsAcceptable(disk[f], disk[f].out.cert)

\* check_prepared, and apply_prepared of an approved record.
Admits7(f) ==
  /\ disk[f].state = "approved"
  /\ Drained
  /\ OnDisk(f) = disk[f].before
  /\ f = "instruction-roots" =>
       /\ disk[f].guards = Guards7 /\ SignerIdle
       /\ RootsAcceptable(disk[f], disk[f].out.cert)

\* Mutant: a resumed publication accepts no file it wrote before.
Resumes7_Strict(f) ==
  /\ disk[f].state = "committing"
  /\ Drained
  /\ f = "instruction-roots" => disk[f].guards = Guards7 /\ SignerIdle
  /\ OnDisk(f) = disk[f].before

\* apply_prepared of a record that was cut short.
Resumes7(f) ==
  /\ disk[f].state = "committing"
  /\ Drained
  /\ f = "instruction-roots" => disk[f].guards = Guards7 /\ SignerIdle
  /\ \A t \in ToSet(Targets7(f)) :
       disk[t] = disk[f].before[t] \/ disk[t] = disk[f].out[t]

ApplyTrust(f) ==
  /\ TrustLock /\ ~up
  /\ Admits7(f) \/ Resumes7(f)
  /\ Does7(PublishWrites(f))
  /\ UNCHANGED kleft

\* Onboarding mints the credential first; a removed device may come back.
DeviceMoves ==
  /\ up /\ KSpend("dev")
  /\ dev' = CASE dev = "none" -> "enrolled" [] dev = "enrolled" -> "deployed"
              [] dev = "deployed" -> "removed" [] dev = "removed" -> "again"
              [] dev = "again" -> "deployed"
  /\ UNCHANGED <<disk, pen, conts, desk, day, up>>

----------------------------------------------------------------------------
(* The Console's certificate.                                              *)

GuiFiles == <<disk.gkey, disk.gcrt, disk.gcomb>>
GuiPut(new) == <<<<"gkey", new>>, <<"gcrt", new>>, <<"gcomb", new>>>>
NextGui == [desk EXCEPT !.g = @ + 1]

PrepareGui(state) ==
  /\ Free7 /\ up /\ KSpend("gui")
  /\ disk.gj.state \in {"idle", "published", "cancelled"}
  /\ desk' = NextGui
  /\ Hold(<<<<"gj", [state |-> state, new |-> desk.g + 1,
                     before |-> GuiFiles]>>>>, <<>>, NoCont)
  /\ UNCHANGED <<disk, conts, day, up, dev>>

ApproveGui ==
  /\ Free7 /\ up /\ disk.gj.state = "awaiting-approval"
  /\ Does7(<<<<"gj", [disk.gj EXCEPT !.state = "approved"]>>>>)
  /\ UNCHANGED kleft

CancelGui ==
  /\ Free7 /\ up /\ disk.gj.state \in {"awaiting-approval", "approved"}
  /\ KSpend("cancel")
  /\ Does7(<<<<"gj", [disk.gj EXCEPT !.state = "cancelled"]>>>>)

ApplyGui ==
  LET gj == disk.gj
      gone == gj.state = "committing" /\ disk.gcomb = 0
  IN /\ Free7 /\ up
     /\ \/ gj.state = "approved" /\ GuiFiles = gj.before
        \/ gj.state = "committing"
           /\ \A i \in 1 .. 3 : GuiFiles[i] \in {gj.before[i], gj.new}
                                \/ (i = 3 /\ gone)
     /\ Does7(<<<<"gj", [gj EXCEPT !.state = "committing"]>>>>
              \o GuiPut(gj.new)
              \o <<<<"gj", [gj EXCEPT !.state = "published"]>>>>)
     /\ UNCHANGED kleft

\* Mutant: only the runtime file is put back.
PutBack_Runtime == <<<<"gcomb", disk.gcomb>>>>

PutBack == <<<<"gcrt", disk.gcrt>>, <<"gkey", disk.gkey>>>>

\* persist_override: the durable pair first, put back if the rest fails.
UploadGui ==
  /\ Free7 /\ up /\ disk.gj.state # "committing" /\ KSpend("gui")
  /\ desk' = NextGui
  /\ Hold(GuiPut(desk.g + 1), PutBack, NoCont)
  /\ UNCHANGED <<disk, conts, day, up, dev>>

RemoveGui ==
  /\ Free7 /\ up /\ disk.gj.state # "committing" /\ KSpend("gui")
  /\ Does7(<<<<"gcrt", 0>>, <<"gkey", 0>>, <<"gcomb", 0>>>>)

----------------------------------------------------------------------------
RotationStep ==
  \/ PrepareRotation \/ RecoverRotation \/ CancelRotation \/ RetireBegin
  \/ \E r \in Roots7 : Activate(r) \/ RetirementRequest(r)
  \/ \E c \in conts : Publish7(c) \/ RetireEnd(c) \/ AttestEnd(c)

ListStep ==
  \/ GenerateKey \/ RenewalRequest \/ SignInstruction \/ ListRequest
  \/ RetryList \/ NewEpoch
  \/ \E r \in Roots7 : ImportFirst(r) \/ Renew(r) \/ InstallList(r)

TrustStep ==
  \/ AttestBegin
  \/ \E r \in Roots7 : AttestationRequest(r)
  \/ \E f \in Families7 :
       \/ ApplyTrust(f) \/ CancelTrust(f)
       \/ \E r \in Roots7 : ApproveTrust(f, r)
       \/ \E r \in Roots7, ch \in SUBSET Roots7 : PrepareTrust(f, ch, r)

GuiStep ==
  \/ ApproveGui \/ CancelGui \/ ApplyGui \/ UploadGui \/ RemoveGui
  \/ \E s \in {"awaiting-approval", "approved"} : PrepareGui(s)

CustodyNext ==
  \/ WriteNext \/ WriteFails \/ Crash7 \/ StopServices \/ Boot \/ NextDay
  \/ DeviceMoves
  \/ ListStep \/ RotationStep \/ TrustStep \/ GuiStep

CustodySpec == CustodyInit /\ [][CustodyNext]_custodyVars

----------------------------------------------------------------------------
CertType == [key : 0 .. MaxKey, root : Roots7, gen : 0 .. 3,
             end : 0 .. (MaxDay + Life)]
ListType == [seq : 0 .. MaxSeq, krl : SUBSET (1 .. MaxKey), root : Roots7,
             gen : 0 .. 3]

\* The files hold what their names promise.
KeyTypeOK ==
  /\ {disk.cipher, disk.public, disk.rkey, disk.rpub} \subseteq 0 .. MaxKey
  /\ {disk.cert, disk.rcert} \subseteq CertType
  /\ {disk.list, disk.lstate.of} \subseteq ListType
  /\ disk.rot.new \in 1 .. MaxKey
  /\ {disk[f].state : f \in Families7} \subseteq
       {"idle", "awaiting-approval", "approved", "committing", "published",
        "cancelled"}
  /\ day \in 0 .. MaxDay

\* Whoever takes the custody lock outside an activation that is still to be
\* completed finds one signer: ciphertext, public key, certificate and
\* runtime key belong to the same key (instruction_rotation.recover_locked
\* replaces six files one by one).
OneSigner ==
  (Free7 /\ disk.rot.state # "committing") =>
    /\ disk.cipher = disk.public \/ disk.public = 0
    /\ disk.cert.key \in {0, disk.public}
    /\ disk.rkey \in {0, disk.public}

\* A retirement that is recorded as completed is in force: the installed
\* keylist revokes the former signer (instruction_rotation.retire leaves its
\* lock around the publication).
RetiredIsRevoked ==
  disk.rot.state = "completed" =>
    disk.rot.old \in disk.list.krl /\ disk.rot.seq <= disk.list.seq

\* A revocation is never lost, whoever publishes the next keylist: the
\* command line from an older copy, a retirement, an attestation or a root
\* replacement prepared before.
RevocationsGrow ==
  disk.list.krl \subseteq disk'.list.krl
  /\ disk.list.seq <= disk'.list.seq

\* The keylist's state file is never ahead of the keylist, which no retry
\* could repair (_load_keylist_snapshot_locked).
ListCanBeRetried == ~Ahead

\* Running services see one generation of trust: the certificate and the
\* keylist were signed by configured roots, and the device TLS pair matches
\* (trust_rotation.apply_prepared writes up to five files).
OneTrust ==
  (up /\ Free7) =>
    /\ disk.cert # NoCert => Verified(disk.cert, RootKeys)
    /\ disk.list # NoList => Verified(disk.list, RootKeys)
    /\ disk.dkey = disk.dcert

\* The custody status says ready or renewal due exactly when an instruction
\* can be signed under an installed keylist.
StatusMatchesSigning ==
  Lock7 => (CustodyState \in {"ready", "renewal_due"}
            <=> CanSign /\ disk.list # NoList)

\* The Console never serves an upload that was reported as failed, also
\* after the boot that rebuilds its file from the durable pair
\* (gui_tls.persist_override).
FailedUploadNotServed == disk.gcomb # 0 => disk.gcomb \notin desk.failed

\* Deployment trust changes only while no device holds a deployment or a
\* live credential, however the device moved since the preparation.
NoDeviceAtSwitch ==
  \A t \in {"ra", "rb", "dkey", "pca"} :
    disk'[t] # disk[t] => Drained

\* A first generation that a crash cut in two: it needs a manual clean-up.
Stuck == disk.cipher # 0 /\ disk.public = 0

\* A rotation, a replacement or an upload that was admitted ends, and a
\* consistent set of files is reached again and again, whatever fails or is
\* killed (recover_locked, apply_prepared, gui_tls.persist_override).
\* Holds again and again.
AdmittedReplacementEnds ==
  /\ disk.rot.state # "committing" /\ disk.gj.state # "committing"
  /\ \A f \in Families7 : disk[f].state # "committing"
  /\ Consistent \/ Stuck

\* What holds in every state of the key files.
KeysSafe ==
  /\ KeyTypeOK
  /\ OneSigner
  /\ RetiredIsRevoked
  /\ ListCanBeRetried
  /\ OneTrust
  /\ StatusMatchesSigning
  /\ FailedUploadNotServed
=============================================================================
