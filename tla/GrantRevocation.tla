---- MODULE GrantRevocation ----
(***************************************************************************)
(* The ceremonies that take a party's authority back: the disconnect of an *)
(* app (revokeAppAccess), the revoke of an agent (revokeAgentAccess), and  *)
(* the removal of one share (unshareCollection).                           *)
(*                                                                         *)
(* Each reads the directory once, and everything it does afterwards goes   *)
(* by that reading: whom the fresh key epochs admit, which capabilities it *)
(* POSTs, and which it may retire.  A stage that does not land throws, and *)
(* the owner runs the whole ceremony again.                                *)
(***************************************************************************)
EXTENDS Connections

\* The collections a party may still be a recipient of: what its grants
\* target, and what is stamped with it when the Space's listing can be read.
\* Without the listing a public target is a candidate too, and is then found
\* to carry no roster.
Candidates(p, seen, listed) ==
  ({Target[g] : g \in seen[p]}
     \cup (IF listed THEN {c \in Provisioned : generator[c] = p} ELSE {}))
  \cap Private

\* The owner revokes an agent, which is listed only while it has a grant.
\* revokeAgentAccess's first write reads nothing the later stages use.
DisconnectClearChannel(s, p) ==
  /\ pc[s] = "idle"
  /\ p \in Agents
  /\ IsListed(entry[p])
  /\ entry[p].grants # {}
  /\ WriteEntry(p, ClearReceivedGrants(entry[p]))
  /\ run' = [run EXCEPT ![s] = [NoRun EXCEPT !.party = p]]
  /\ Goto(s, "read")
  /\ UNCHANGED <<zcap, held, connected, knownAs, audit, roster, generator,
                 appKey>>

\* The owner disconnects a listed app.
DisconnectApp(s, p) ==
  /\ pc[s] = "idle"
  /\ p \in Apps
  /\ IsListed(entry[p])
  /\ run' = [run EXCEPT ![s] = [NoRun EXCEPT !.party = p]]
  /\ Goto(s, "read")
  /\ UNCHANGED stored

\* The one directory read, and the collection listing behind it.
DisconnectRead(s) ==
  /\ pc[s] = "read"
  /\ \E listed \in BOOLEAN :
       run' = [run EXCEPT ![s].seen = Listing,
                          ![s].todo = Candidates(run[s].party, Listing, listed),
                          ![s].failed = ~listed]
  /\ Goto(s, "rotate")
  /\ UNCHANGED stored

\* directoryAdmissions: a fresh epoch of c admits the parties the reading
\* records a grant on c for.
Admits(seen, c) == {q \in Parties : \E g \in seen[q] : Target[g] = c}

\* Mutant of RotateOff: the fresh epoch is wrapped to the owner alone.
RotateToOwnerOnly(p, c, seen) == roster' = [roster EXCEPT ![c] = {}]

\* Rotating a collection off p wraps the fresh epoch only to the recipients
\* the directory reading admits.
RotateOff(p, c, seen) ==
  roster' = [roster EXCEPT ![c] = (@ \cap Admits(seen, c)) \ {p}]

\* Mutant of DisconnectRotate: a roster without the party is a failure, so a
\* retry after a rotation that landed never gets past it.
RotateListedOnly(s, c) ==
  LET p == run[s].party IN
  /\ pc[s] = "rotate"
  /\ c \in run[s].todo
  /\ p \in roster[c]
  /\ RotateOff(p, c, run[s].seen)
  /\ run' = [run EXCEPT ![s].todo = @ \ {c}]
  /\ UNCHANGED <<entry, zcap, held, connected, knownAs, audit, generator,
                 appKey, pc>>

\* One candidate is rotated, and the pull axis revokes the capabilities on it,
\* each POST landing or not.  A roster that no longer lists the party is
\* skipped.
DisconnectRotate(s, c) ==
  LET p == run[s].party IN
  /\ pc[s] = "rotate"
  /\ c \in run[s].todo
  /\ \/ /\ p \in roster[c]
        /\ RotateOff(p, c, run[s].seen)
        /\ \E G \in SUBSET Live({g \in run[s].seen[p] : Target[g] = c}) :
             Revoke(G)
     \/ /\ p \notin roster[c]
        /\ UNCHANGED <<roster, zcap>>
  /\ run' = [run EXCEPT ![s].todo = @ \ {c}]
  /\ UNCHANGED <<entry, held, connected, knownAs, audit, generator, appKey, pc>>

\* The rotation of one candidate throws, landed or not, with nothing pulled.
\* The others proceed.
DisconnectRotateFails(s, c) ==
  LET p == run[s].party IN
  /\ pc[s] = "rotate"
  /\ c \in run[s].todo
  /\ \/ p \in roster[c] /\ RotateOff(p, c, run[s].seen)
     \/ UNCHANGED roster
  /\ run' = [run EXCEPT ![s].todo = @ \ {c}, ![s].failed = TRUE]
  /\ UNCHANGED <<entry, zcap, held, connected, knownAs, audit, generator,
                 appKey, pc>>

\* Mutant of DisconnectPost: the outcomes of the POSTs are not looked at.
PostBestEffort(s) ==
  LET p == run[s].party IN
  /\ pc[s] = "rotate"
  /\ run[s].todo = {}
  /\ ~run[s].failed
  /\ \E G \in SUBSET Live(run[s].seen[p]) : Revoke(G)
  /\ Goto(s, IF p \in Apps THEN "delkey" ELSE "retire")
  /\ UNCHANGED <<entry, held, connected, knownAs, audit, roster, generator,
                 appKey, run>>

\* The grant stage: every capability of the reading is POSTed, a dead one
\* skipped, and the ceremony goes on only when all of them are dead and every
\* rotation landed.
DisconnectPost(s) ==
  LET p == run[s].party IN
  /\ pc[s] = "rotate"
  /\ run[s].todo = {}
  /\ ~run[s].failed
  /\ Revoke(Live(run[s].seen[p]))
  /\ Goto(s, IF p \in Apps THEN "delkey" ELSE "retire")
  /\ UNCHANGED <<entry, held, connected, knownAs, audit, roster, generator,
                 appKey, run>>

\* Some POST fails, or some rotation did.
DisconnectPostFails(s) ==
  /\ pc[s] = "rotate"
  /\ run[s].todo = {}
  /\ \E G \in SUBSET Live(run[s].seen[run[s].party]) : Revoke(G)
  /\ Finish(s)
  /\ UNCHANGED <<entry, held, connected, knownAs, audit, roster, generator,
                 appKey>>

\* deleteAppKeyResource: the app can never prove that identity again.
DisconnectDeleteKey(s) ==
  /\ pc[s] = "delkey"
  /\ appKey' = [appKey EXCEPT ![run[s].party] = "deleted"]
  /\ Goto(s, "retire")
  /\ UNCHANGED <<entry, zcap, held, connected, knownAs, audit, roster,
                 generator, run>>

DisconnectDeleteKeyFails(s) ==
  /\ pc[s] = "delkey"
  /\ \/ appKey' = [appKey EXCEPT ![run[s].party] = "deleted"]
     \/ UNCHANGED appKey
  /\ Finish(s)
  /\ UNCHANGED <<entry, zcap, held, connected, knownAs, audit, roster,
                 generator>>

\* retireConnectionEntry, then the Revoke activity, which is audit alone.
DisconnectRetire(s) ==
  LET p == run[s].party IN
  /\ pc[s] = "retire"
  /\ MayRetire(entry[p], run[s].seen[p])
  /\ WriteEntry(p, RetireConnection(entry[p]))
  /\ connected' = connected \ {p}
  /\ Finish(s)
  /\ UNCHANGED <<zcap, held, knownAs, audit, roster, generator, appKey>>

\* Refused, since a consent merged a grant since the reading, or failed.
DisconnectRetireFails(s) ==
  /\ pc[s] = "retire"
  /\ Finish(s)
  /\ UNCHANGED stored

\* unshareCollection: one directory read.
UnshareStart(s, p, c) ==
  /\ pc[s] = "idle"
  /\ IsListed(entry[p])
  /\ SharesOn(entry[p].grants, c) # {}
  /\ run' = [run EXCEPT ![s] =
       [NoRun EXCEPT !.party = p, !.seen = Listing, !.todo = {c}]]
  /\ Goto(s, "unrotate")
  /\ UNCHANGED stored

\* The capabilities an unshare handles.
Unshared(s) ==
  {g \in run[s].seen[run[s].party] : Target[g] \in run[s].todo}

\* The rotation lands, a no-op on a roster without the reader, and every
\* capability is revoked or found dead.
UnshareRotate(s, c) ==
  LET p == run[s].party IN
  /\ pc[s] = "unrotate"
  /\ c \in run[s].todo
  /\ IF p \in roster[c] THEN RotateOff(p, c, run[s].seen) ELSE UNCHANGED roster
  /\ Revoke(Live(Unshared(s)))
  /\ Goto(s, "ungrant")
  /\ UNCHANGED <<entry, held, connected, knownAs, audit, generator, appKey, run>>

\* Mutant of UnshareRotateFails: the failure is logged, and the unshare goes on.
UnshareRegardless(s, c) ==
  /\ pc[s] = "unrotate"
  /\ c \in run[s].todo
  /\ Goto(s, "ungrant")
  /\ UNCHANGED <<stored, run>>

\* The rotation throws, landed or not, or some POST fails.
UnshareRotateFails(s, c) ==
  LET p == run[s].party IN
  /\ pc[s] = "unrotate"
  /\ c \in run[s].todo
  /\ \/ UNCHANGED <<roster, zcap>>
     \/ /\ IF p \in roster[c] THEN RotateOff(p, c, run[s].seen)
           ELSE UNCHANGED roster
        /\ \E G \in SUBSET Live(Unshared(s)) : Revoke(G)
  /\ Finish(s)
  /\ UNCHANGED <<entry, held, connected, knownAs, audit, generator, appKey>>

\* removeGrants: the entry stays live, since the party may hold other grants.
\* A removal whose response is lost reads as a failed unshare.
UnshareRemove(s) ==
  /\ pc[s] = "ungrant"
  /\ \/ WriteEntry(run[s].party, RemoveGrants(entry[run[s].party], Unshared(s)))
     \/ UNCHANGED entry
  /\ Finish(s)
  /\ UNCHANGED <<zcap, held, connected, knownAs, audit, roster, generator,
                 appKey>>

RevocationStep(s) ==
  \/ \E p \in Parties :
       \/ DisconnectClearChannel(s, p)
       \/ DisconnectApp(s, p)
       \/ \E c \in Shared : UnshareStart(s, p, c)
  \/ DisconnectRead(s)
  \/ \E c \in Collections :
       \/ DisconnectRotate(s, c)
       \/ DisconnectRotateFails(s, c)
       \/ UnshareRotate(s, c)
       \/ UnshareRotateFails(s, c)
  \/ DisconnectPost(s)
  \/ DisconnectPostFails(s)
  \/ DisconnectDeleteKey(s)
  \/ DisconnectDeleteKeyFails(s)
  \/ DisconnectRetire(s)
  \/ DisconnectRetireFails(s)
  \/ UnshareRemove(s)
====
