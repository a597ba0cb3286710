------------------------------- MODULE MCPeers -------------------------------
(* Small instances of what decides whom peers talk to: the tracker's       *)
(* origin blocking, and the rotation of the credential every torrent       *)
(* announces with.  Each behaviour runs one of the two (focus) while the   *)
(* other rests.                                                            *)
EXTENDS PeerBlocking, AnnounceRotation

CONSTANTS d1, d2, a1, a2

VARIABLE focus

peerVars == <<focus, blockVars, rotVars>>

\* Outside events around the tracker's passes.
Calm == [e \in {"edit", "qos", "restore", "damage", "announce", "expire", "io",
                "review", "crash", "revoke", "secrets", "aria", "reseed", "rpc",
                "legacy", "leave"} |-> 0]

\* A policy that says something of each device, with or without roles.
Doc(first, second, roles) ==
    [base_document EXCEPT !.rev = 1, !.epoch = 1, !.say = d1 :> first @@ d2 :> second,
                          !.roles = roles, !.rolesPresent = roles]
\* The seeder at the origin and d1 at a1 have announced; d2 at a2, too.
One == [p \in Principals |-> [ip \in Ips |->
          IF <<p, ip>> \in {<<Seeder, OriginIp>>, <<d1, a1>>} THEN "fresh" ELSE "none"]]
Two == [One EXCEPT ![d2][a2] = "fresh"]
Scene(doc, endpoints, revoked, events) ==
    [doc |-> doc, eps |-> endpoints, revoked |-> revoked, outside |-> events @@ Calm]

Scenes == {
  Scene(Doc("deny", "open", FALSE), One, {}, [announce |-> 1, io |-> 1, rpc |-> 1]),
  Scene(Doc("deny", "open", FALSE), One, {}, [announce |-> 1, aria |-> 1]),
  Scene(Doc("noorigin", "open", TRUE), Two, {}, [review |-> 2, announce |-> 1, expire |-> 1]),
  Scene(Doc("noorigin", "open", TRUE), Two, {}, [review |-> 2, expire |-> 1, rpc |-> 1]),
  Scene(Doc("noorigin", "open", TRUE), Two, {}, [review |-> 1, announce |-> 1, crash |-> 1]),
  Scene(Doc("open", "deny", FALSE), Two, {}, [edit |-> 1, restore |-> 1, damage |-> 1]),
  Scene(Doc("open", "deny", FALSE), Two, {}, [damage |-> 1, announce |-> 1]),
  Scene(Doc("open", "deny", FALSE), Two, {}, [damage |-> 1, legacy |-> 1, leave |-> 1]),
  Scene(Doc("deny", "noorigin", TRUE), One, {}, [announce |-> 2, review |-> 1]),
  Scene(Doc("open", "open", FALSE), Two, {d1}, [revoke |-> 1, secrets |-> 1, expire |-> 1]),
  Scene(Doc("noorigin", "open", TRUE), One, {}, [review |-> 2, edit |-> 1, rpc |-> 1]),
  Scene(Doc("noorigin", "open", TRUE), Two, {}, [review |-> 2, aria |-> 1]),
  Scene(Doc("noorigin", "open", TRUE), One, {}, [review |-> 1, announce |-> 1, aria |-> 1]),
  Scene(Doc("open", "open", FALSE), One, {}, [qos |-> 3, io |-> 1, damage |-> 1]),
  Scene(Doc("open", "open", FALSE), One, {}, [qos |-> 2, reseed |-> 1, rpc |-> 1]),
  Scene(Doc("open", "open", FALSE), One, {}, [qos |-> 1, rpc |-> 1, aria |-> 1])}

Init ==
    /\ focus \in {"blocking", "announce"}
    /\ BlockInit /\ (focus = "blocking" \/ outside["qos"] = 3)
    /\ AnnounceInit

Next ==
    \/ focus = "blocking" /\ BlockNext /\ UNCHANGED <<focus, rotVars>>
    \/ focus = "announce" /\ AnnounceNext /\ UNCHANGED <<focus, blockVars>>

\* The component that runs is scheduled as its module says.
Fairness ==
    \/ focus = "blocking" /\ BlockFairness
    \/ focus = "announce" /\ AnnounceFairness

Spec == Init /\ [][Next]_peerVars /\ Fairness

\* The tracker's memory is what aria2 holds (tracker.py); a rotation keeps the old
\* bytes, reports what it lost and never leaves a torrent with a rejected
\* credential (rotate_seeder_announce.py).
PeersSafe ==
    /\ focus = "blocking" => BlockingSafe
    /\ focus = "announce" => AnnounceSafe

\* No step says enforced of what aria2 does not hold, blocks what nobody denied or
\* reviewed, releases a denied address without a reason, or loses a policy
\* operation from the audit trail.
PeerSteps ==
    [][/\ focus = "blocking" => EnforcedIsTrue
       /\ focus = "blocking" => OnlyReviewedBlocked
       /\ focus = "blocking" => ReleasesAreJustified
       /\ focus = "blocking" => NoOperationLost
      ]_peerVars

\* The list aria2 holds follows the policy, and an interrupted rotation ends.
PeersConverge ==
    /\ focus = "blocking" => BlockingConverges
    /\ focus = "announce" => RotationRecovers
=============================================================================
