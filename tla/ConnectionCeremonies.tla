---- MODULE ConnectionCeremonies ----
(***************************************************************************)
(* The connection ceremonies together: any number of wallet sessions run   *)
(* consents, disconnects, agent revokes and unshares over one directory,   *)
(* interleaved at every remote call, while tabs close and capabilities     *)
(* lapse.                                                                  *)
(***************************************************************************)
EXTENDS RequestConsent, GrantRevocation

Next ==
  \/ \E s \in Sessions : ConsentStep(s) \/ RevocationStep(s) \/ Crash(s)
  \/ \E g \in Grants : Lapse(g)

Spec == Init /\ [][Next]_vars

\* An owner who keeps asking for the disconnect of a listed app, in a session
\* whose ceremonies end, over calls none of which fails every time.
RetriesDisconnect(s, p) ==
  /\ WF_vars(pc[s] # "idle" /\ (ConsentStep(s) \/ RevocationStep(s)))
  /\ SF_vars(DisconnectApp(s, p))
  /\ SF_vars(DisconnectRead(s) /\ ~run'[s].failed)
  /\ \A todo \in SUBSET Private : \A c \in todo :
       SF_vars(run[s].todo = todo /\ ~run[s].failed /\ DisconnectRotate(s, c))
  /\ SF_vars(DisconnectPost(s))
  /\ SF_vars(DisconnectDeleteKey(s))
  /\ SF_vars(DisconnectRetire(s))

-----------------------------------------------------------------------------

RunType ==
  [party : Parties \cup {NoParty}, zcaps : SUBSET Grants,
   prior : {"absent", "live", "retired"}, escrowed : SUBSET Grants,
   audited : BOOLEAN, seed : Sessions \cup {NoSeed},
   seen : [Parties -> SUBSET Grants], todo : SUBSET Collections,
   failed : BOOLEAN]

EntryType ==
  [state : {"absent", "live", "retired"}, grants : SUBSET Grants,
   seed : Sessions \cup {NoSeed}, channel : SUBSET Channels,
   outbox : SUBSET SUBSET Grants, declined : BOOLEAN]

Steps ==
  {"idle", "prior", "record", "audit", "escrow", "rollback", "reretire",
   "unaudit", "read", "rotate", "delkey", "retire", "unrotate", "ungrant"}

\* The shape of all but pc.
StoredOK ==
  /\ entry \in [Parties -> EntryType]
  /\ zcap \in [Grants -> {"unsigned", "live", "dead"}]
  /\ held \in SUBSET Grants
  /\ connected \in SUBSET Parties
  /\ knownAs \in [Parties -> SUBSET Sessions]
  /\ audit \in SUBSET Grants
  /\ roster \in [Collections -> SUBSET Parties]
  /\ generator \in [Collections -> Parties \cup {NoParty}]
  /\ appKey \in [Parties -> {"none", "stored", "deleted"}]
  /\ run \in [Sessions -> RunType]
  /\ \A s \in Sessions : pc[s] # "idle" => run[s].party \in Parties
  /\ \A p \in Parties : entry[p].grants # {} => entry[p].state = "live"

\* Every variable keeps its shape, and only a listed entry records grants.
TypeOK == StoredOK /\ pc \in [Sessions -> Steps]

\* A capability some party was handed, and that still verifies, stands on the
\* party's listed entry: the owner can find it and revoke it, whatever
\* ceremonies ran at the same time.
HeldIsListed ==
  \A g \in held :
    zcap[g] = "live" => /\ IsListed(entry[Grantee[g]])
                        /\ g \in entry[Grantee[g]].grants

\* No capability is handed over without a Grant activity naming it, and no
\* rollback deletes the activity of one that was.
HandedOverIsAudited == held \subseteq audit

\* Whoever has access can be found to take it away.  A party that reads the
\* current epoch of a collection has a listed entry recording a grant on it,
\* from which a disconnect finds the roster entry; and a party holding a
\* connection response is listed until a disconnect ends the connection, one
\* that was granted nothing included.
AccessIsListed ==
  /\ \A c \in Private : \A p \in roster[c] :
       /\ IsListed(entry[p])
       /\ \E g \in entry[p].grants : Target[g] = c
  /\ \A p \in connected : IsListed(entry[p])

\* The responses an agent ever received are all signed by the one pairwise key
\* its entry holds.
PairwiseStable == \A p \in Agents : knownAs[p] \subseteq {entry[p].seed}

\* Taking one party off a collection's epoch leaves every other party with a
\* recorded grant on the collection on it.
CoAdmittedKeepsAccess ==
  [][\A c \in Collections : \A q \in roster[c] \ roster'[c] :
       \/ \E s \in Sessions : pc[s] \in {"rotate", "unrotate"} /\ run[s].party = q
       \/ ~\E g \in entry[q].grants : Target[g] = c]_vars

\* In one session, whatever a party can open the owner finds it by, and a
\* rotation takes the collection from the party it is meant for alone.
AccessIsTrue == []AccessIsListed /\ CoAdmittedKeepsAccess

\* An app the owner keeps disconnecting is retired in the end, though tabs
\* close, calls fail, and other sessions merge grants the disconnect must
\* start over for.  And once a disconnect deleted the app's key, it ends up
\* unlisted for good: only the consents in flight can still list it again.
DisconnectConverges ==
  \A p \in Apps :
    /\ IsListed(entry[p]) ~> (entry[p].state = "retired")
    /\ (appKey[p] = "deleted") ~> []~IsListed(entry[p])

\* The directory is the grant index.
Index == INSTANCE GrantIndex
  WITH index <- {g \in Grants : g \in entry[Grantee[g]].grants},
       dead <- {g \in Grants : zcap[g] = "dead"}

IsGrantIndex == Index!Spec
====
