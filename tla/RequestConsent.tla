---- MODULE RequestConsent ----
(***************************************************************************)
(* The request consent ceremony (composeAndDeliverResponse): a party asks  *)
(* for capabilities, the wallet signs them, records them on the party's    *)
(* entry, writes the Grant activity, escrows the party into the key epochs *)
(* it may read, and only then hands the response over.                     *)
(*                                                                         *)
(* Every step below is one remote call of the sequence.  A call that fails *)
(* takes the rollback, and may have landed with its response lost.         *)
(***************************************************************************)
EXTENDS Connections

\* What still has to be escrowed before the response may be composed: each
\* share on its own, then one provisioning per collection.
PendingShares(s) == {g \in run[s].zcaps \ run[s].escrowed : Target[g] \in Shared}

PendingProvisions(s) ==
  {Target[g] : g \in {h \in run[s].zcaps \ run[s].escrowed :
                        Target[h] \in Provisioned}}

\* Whether the entry is written before the response is composed: on App
\* Connect always, on the interaction-URL path when something needs escrow.
RecordsAhead(s) ==
  \/ run[s].party \in Apps
  \/ \E g \in run[s].zcaps : Target[g] \in Shared \cup Provisioned

\* resolvePairwiseSeed: the entry's own seed, or a fresh one.
PairwiseSeed(s, p) == IF entry[p].seed = NoSeed THEN s ELSE entry[p].seed

\* processAppConnect finds the app's key, or mints and stores it.  A key once
\* deleted is never found again, and a new one is a new party.
AppKeyFound(p) ==
  /\ p \in Apps => appKey[p] # "deleted"
  /\ appKey' = [appKey EXCEPT ![p] = IF p \in Apps THEN "stored" ELSE @]

\* The first pass of processZcaps signs every delegation, which reaches no
\* server.
Sign(p, G) ==
  /\ \A g \in G : Grantee[g] = p /\ zcap[g] = "unsigned"
  /\ zcap' = [g \in Grants |-> IF g \in G THEN "live" ELSE zcap[g]]

\* The owner approves a request of party p for the capabilities G.  An agent's
\* request that is a connection request resolves the pairwise seed first.
ConsentStart(s, p, G) ==
  /\ pc[s] = "idle"
  /\ p \in Agents => G # {}
  /\ Sign(p, G)
  /\ AppKeyFound(p)
  /\ \E seed \in {NoSeed} \cup (IF p \in Agents THEN {PairwiseSeed(s, p)} ELSE {}) :
       run' = [run EXCEPT ![s] =
         [NoRun EXCEPT !.party = p, !.zcaps = G, !.seed = seed]]
  /\ Goto(s, "prior")
  /\ UNCHANGED <<entry, held, connected, knownAs, audit, roster, generator>>

\* priorEntryState, its own read just ahead of the write.
ConsentPrior(s) ==
  /\ pc[s] = "prior"
  /\ run' = [run EXCEPT ![s].prior = entry[run[s].party].state]
  /\ Goto(s, "record")
  /\ UNCHANGED stored

\* That read fails: nothing was recorded, and nothing is rolled back.
ConsentPriorFails(s) ==
  /\ pc[s] = "prior"
  /\ Finish(s)
  /\ UNCHANGED stored

\* recordConsentEntry: the directory write every escrow and delivery follows.
ConsentRecord(s) ==
  LET e == entry[run[s].party] IN
  /\ pc[s] = "record"
  /\ SeedAgrees(e, run[s].seed)
  /\ WriteEntry(run[s].party, RecordGrants(e, run[s].zcaps, run[s].seed))
  /\ Goto(s, "audit")
  /\ UNCHANGED <<zcap, held, connected, knownAs, audit, roster, generator,
                 appKey, run>>

\* It fails, or a different seed on the entry refuses it.  The put may have
\* landed with its response lost.
ConsentRecordFails(s) ==
  LET e == entry[run[s].party] IN
  /\ pc[s] = "record"
  /\ \/ UNCHANGED entry
     \/ /\ SeedAgrees(e, run[s].seed)
        /\ WriteEntry(run[s].party, RecordGrants(e, run[s].zcaps, run[s].seed))
  /\ Goto(s, "rollback")
  /\ UNCHANGED <<zcap, held, connected, knownAs, audit, roster, generator,
                 appKey, run>>

\* recordRequestActivity.
ConsentAudit(s) ==
  /\ pc[s] = "audit"
  /\ audit' = audit \cup run[s].zcaps
  /\ run' = [run EXCEPT ![s].audited = TRUE]
  /\ Goto(s, "escrow")
  /\ UNCHANGED <<entry, zcap, held, connected, knownAs, roster, generator,
                 appKey>>

\* Mutant of ConsentAuditFails: the failed row is never fatal.
AuditBestEffort(s) ==
  /\ pc[s] = "audit"
  /\ Goto(s, "escrow")
  /\ UNCHANGED <<stored, run>>

\* Its failure is fatal to a request that granted something, and only to one.
\* The activity's id is not known then, so a row that landed stays.
ConsentAuditFails(s) ==
  /\ pc[s] = "audit"
  /\ audit' \in {audit, audit \cup run[s].zcaps}
  /\ Goto(s, IF run[s].zcaps = {} THEN "escrow" ELSE "rollback")
  /\ UNCHANGED <<entry, zcap, held, connected, knownAs, roster, generator,
                 appKey, run>>

\* ensureGovernedCollection / ensureCollection: the collection is created,
\* and stamped with the party, when it does not stand.
ConsentCreate(s, c) ==
  /\ pc[s] = "escrow"
  /\ PendingShares(s) = {}
  /\ c \in PendingProvisions(s)
  /\ generator[c] = NoParty
  /\ generator' = [generator EXCEPT ![c] = run[s].party]
  /\ UNCHANGED <<entry, zcap, held, connected, knownAs, audit, roster, appKey,
                 pc, run>>

\* The collection and the capabilities one escrow call of the second pass
\* covers: a share alone, then a provisioned collection's capabilities.
EscrowUnit(s, c, G) ==
  \/ /\ c \in Shared
     /\ \E g \in PendingShares(s) : Target[g] = c /\ G = {g}
  \/ /\ PendingShares(s) = {}
     /\ c \in PendingProvisions(s)
     /\ generator[c] # NoParty
     /\ G = {g \in run[s].zcaps : Target[g] = c}

Admit(p, c) ==
  roster' = IF c \in Private THEN [roster EXCEPT ![c] = @ \cup {p}]
            ELSE roster

\* addRecipient lands, or the party already reads the current epoch; a public
\* collection merely stands.  onEscrowed reports the grants it covers.
ConsentEscrow(s, c) ==
  /\ pc[s] = "escrow"
  /\ \E G \in SUBSET run[s].zcaps :
       /\ EscrowUnit(s, c, G)
       /\ run' = [run EXCEPT ![s].escrowed = @ \cup G]
  /\ Admit(run[s].party, c)
  /\ UNCHANGED <<entry, zcap, held, connected, knownAs, audit, generator,
                 appKey, pc>>

\* The escrow call, or its bookkeeping, throws.  The append may have landed;
\* the current epoch is re-read, and lists the party or not.  The re-read may
\* fail too.
ConsentEscrowFails(s, c) ==
  /\ pc[s] = "escrow"
  /\ \/ Admit(run[s].party, c)
     \/ UNCHANGED roster
  /\ \E G \in SUBSET run[s].zcaps :
       /\ EscrowUnit(s, c, G)
       /\ \/ /\ run[s].party \in roster'[c]
             /\ run' = [run EXCEPT ![s].escrowed = @ \cup G]
          \/ /\ RereadFails \/ run[s].party \notin roster'[c]
             /\ UNCHANGED run
  /\ Goto(s, "rollback")
  /\ UNCHANGED <<entry, zcap, held, connected, knownAs, audit, generator,
                 appKey>>

\* Every escrow of the request landed.
EscrowDone(s) == PendingShares(s) = {} /\ PendingProvisions(s) = {}

\* The response is composed and reaches the party, through the CHAPI channel,
\* the exchange, or the manual delivery a failed exchange POST leaves open.
ConsentDeliver(s) ==
  /\ pc[s] = "escrow"
  /\ EscrowDone(s)
  /\ held' = held \cup run[s].zcaps
  /\ connected' = connected \cup {run[s].party}
  /\ knownAs' = [knownAs EXCEPT ![run[s].party] = @ \cup ({run[s].seed} \ {NoSeed})]
  /\ Finish(s)
  /\ UNCHANGED <<entry, zcap, audit, roster, generator, appKey>>

\* The exchange refused the response and the owner delivered it nowhere: the
\* record is kept.
ConsentUndelivered(s) ==
  /\ pc[s] = "escrow"
  /\ EscrowDone(s)
  /\ Finish(s)
  /\ UNCHANGED stored

\* Composing the response fails after the record.
ConsentComposeFails(s) ==
  /\ pc[s] = "escrow"
  /\ RecordsAhead(s)
  /\ EscrowDone(s)
  /\ Goto(s, "rollback")
  /\ UNCHANGED <<stored, run>>

\* Whether a rollback retires the entry again.
RetiresAgain(s) == run[s].escrowed = {} /\ run[s].prior # "live"

\* rollBackConsentEntry's first write: the capabilities whose escrow did not
\* land leave the entry.  Best-effort: a failed write ends the rollback of the
\* entry, and may have landed.
RollbackRemove(s) ==
  LET p == run[s].party
      undelivered == run[s].zcaps \ run[s].escrowed IN
  /\ pc[s] = "rollback"
  /\ \/ /\ WriteEntry(p, RemoveGrants(entry[p], undelivered))
        /\ Goto(s, IF RetiresAgain(s) THEN "reretire" ELSE "unaudit")
     \/ /\ entry' \in {entry, [entry EXCEPT ![p] = RemoveGrants(@, undelivered)]}
        /\ Goto(s, "unaudit")
  /\ UNCHANGED <<zcap, held, connected, knownAs, audit, roster, generator,
                 appKey, run>>

\* Its second write: an entry that was absent or retired before the consent is
\* retired, unless it holds a capability of someone else's consent.
RollbackRetire(s) ==
  LET p == run[s].party IN
  /\ pc[s] = "reretire"
  /\ \/ /\ MayRetire(entry[p], run[s].zcaps)
        /\ WriteEntry(p, RetireConnection(entry[p]))
     \/ UNCHANGED entry
  /\ Goto(s, "unaudit")
  /\ UNCHANGED <<zcap, held, connected, knownAs, audit, roster, generator,
                 appKey, run>>

\* The Grant activity of a request that escrowed nothing is deleted, when its
\* id is known and the delete lands, and the request fails.
RollbackAudit(s) ==
  /\ pc[s] = "unaudit"
  /\ \/ /\ run[s].audited /\ run[s].escrowed = {}
        /\ audit' = audit \ run[s].zcaps
     \/ UNCHANGED audit
  /\ Finish(s)
  /\ UNCHANGED <<entry, zcap, held, connected, knownAs, roster, generator,
                 appKey>>

ConsentStep(s) ==
  \/ \E p \in Parties : \E G \in SUBSET Grants : ConsentStart(s, p, G)
  \/ ConsentPrior(s)
  \/ ConsentPriorFails(s)
  \/ ConsentRecord(s)
  \/ ConsentRecordFails(s)
  \/ ConsentAudit(s)
  \/ ConsentAuditFails(s)
  \/ \E c \in Collections :
       \/ ConsentCreate(s, c)
       \/ ConsentEscrow(s, c)
       \/ ConsentEscrowFails(s, c)
  \/ ConsentDeliver(s)
  \/ ConsentUndelivered(s)
  \/ ConsentComposeFails(s)
  \/ RollbackRemove(s)
  \/ RollbackRetire(s)
  \/ RollbackAudit(s)
====
