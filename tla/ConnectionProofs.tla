---- MODULE ConnectionProofs ----
(***************************************************************************)
(* What the connection ceremonies guarantee for every number of sessions,  *)
(* parties, capabilities and collections: the variables keep their shape;  *)
(* the directory is the grant index, so that a capability some party holds *)
(* and that still verifies is recorded on the party's listed entry; every  *)
(* capability handed over has its Grant activity; an agent sees one        *)
(* pairwise key; and in one session whoever has access can be found.       *)
(***************************************************************************)
EXTENDS AgentConnections, TLAPS

-----------------------------------------------------------------------------
\* The shape of the state.

\* The steps a session may stand at, the restore of an agent among them.
AllSteps == Steps \cup {"restore"}

Shape == StoredOK /\ pc \in [Sessions -> AllSteps]

\* The ceremonies in memory, and the directory, on their own.
RunOK ==
  /\ pc \in [Sessions -> AllSteps]
  /\ run \in [Sessions -> RunType]
  /\ \A s \in Sessions : pc[s] # "idle" => run[s].party \in Parties

EntryOK ==
  /\ entry \in [Parties -> EntryType]
  /\ \A p \in Parties : entry[p].grants # {} => entry[p].state = "live"

RestOK ==
  /\ zcap \in [Grants -> {"unsigned", "live", "dead"}]
  /\ held \in SUBSET Grants
  /\ connected \in SUBSET Parties
  /\ knownAs \in [Parties -> SUBSET Sessions]
  /\ audit \in SUBSET Grants
  /\ roster \in [Collections -> SUBSET Parties]
  /\ generator \in [Collections -> Parties \cup {NoParty}]
  /\ appKey \in [Parties -> {"none", "stored", "deleted"}]

\* The shape, in the parts the lemmas below deal with one at a time.
LEMMA TypeParts == Shape <=> RunOK /\ EntryOK /\ RestOK
  BY DEF Shape, StoredOK, RunOK, EntryOK, RestOK

\* The same after a step, from the parts to the whole.
LEMMA TypePrimed == RunOK' /\ EntryOK' /\ RestOK' => Shape'
  BY DEF Shape, StoredOK, RunOK, EntryOK, RestOK

\* The helpers of an entry keep its shape, and leave grants on listed ones only.
LEMMA EntryHelpers ==
  ASSUME NEW e \in EntryType, NEW G \in SUBSET Grants,
         NEW seed \in Sessions \cup {NoSeed},
         e.grants # {} => e.state = "live"
  PROVE  /\ RecordGrants(e, G, seed) \in EntryType
         /\ RecordGrants(e, G, seed).state = "live"
         /\ RecordGrants(e, G, seed).grants = e.grants \cup G
         /\ RemoveGrants(e, G) \in EntryType
         /\ RemoveGrants(e, G).grants = e.grants \ G
         /\ RemoveGrants(e, G).state = e.state
         /\ RetireConnection(e) \in EntryType
         /\ RetireConnection(e).grants = {}
         /\ ClearReceivedGrants(e) \in EntryType
         /\ ClearReceivedGrants(e).grants = e.grants
         /\ ClearReceivedGrants(e).state = e.state
  BY DEF EntryType, RecordGrants, RemoveGrants, RetireConnection,
         ClearReceivedGrants

\* What recording grants makes of an entry.
LEMMA RecordedEntry ==
  ASSUME NEW e \in EntryType, NEW G \in SUBSET Grants,
         NEW seed \in Sessions \cup {NoSeed}
  PROVE  /\ RecordGrants(e, G, seed) \in EntryType
         /\ RecordGrants(e, G, seed).state = "live"
  BY DEF EntryType, RecordGrants

\* A write of one well-shaped entry keeps the directory well shaped.
LEMMA WriteTyped ==
  ASSUME EntryOK, NEW p \in Parties, NEW e \in EntryType, WriteEntry(p, e),
         e.grants # {} => e.state = "live"
  PROVE  EntryOK'
  BY DEF EntryOK, WriteEntry

\* A ceremony that has ended holds nothing of the wrong shape.
LEMMA NoRunType == NoRun \in RunType
  BY DEF NoRun, RunType, NoListing

\* A step that ends the ceremony keeps the sessions well shaped.
LEMMA FinishTyped ==
  ASSUME RunOK, NEW s \in Sessions, Finish(s)
  PROVE  RunOK'
  BY NoRunType DEF RunOK, Finish, AllSteps, Steps

\* A step of one ceremony that leaves its memory alone.
LEMMA GotoTyped ==
  ASSUME RunOK, NEW s \in Sessions, pc[s] # "idle", NEW step \in Steps,
         Goto(s, step), UNCHANGED run
  PROVE  RunOK'
  BY DEF RunOK, Goto, AllSteps

\* A step that rewrites it.
LEMMA RunTyped ==
  ASSUME RunOK, NEW s \in Sessions, NEW r \in RunType, r.party \in Parties,
         run' = [run EXCEPT ![s] = r], NEW step \in Steps,
         Goto(s, step) \/ UNCHANGED pc
  PROVE  RunOK'
  BY DEF RunOK, Goto, AllSteps

\* A reading of the directory gives each party a set of capabilities.
LEMMA ListingType ==
  ASSUME EntryOK
  PROVE  Listing \in [Parties -> SUBSET Grants]
  BY DEF EntryOK, EntryType, Listing

\* The first state is well shaped.
LEMMA InitType == Init => TypeOK /\ Shape
<1> SUFFICES ASSUME Init PROVE TypeOK /\ Shape
  OBVIOUS
<1>1. entry \in [Parties -> EntryType]
  BY DEF Init, EntryType, AbsentEntry
<1>2. run \in [Sessions -> RunType]
  BY NoRunType DEF Init
<1> QED
  BY <1>1, <1>2 DEF Init, TypeOK, Shape, AllSteps, StoredOK, Steps, AbsentEntry

\* A consent step keeps the shape of the state.
LEMMA ConsentType ==
  ASSUME ConnectionsAssumption, Shape, NEW s \in Sessions, ConsentStep(s)
  PROVE  Shape'
<1>0. RunOK /\ EntryOK /\ RestOK
  BY TypeParts
<1>r. run[s] \in RunType /\ pc[s] \in AllSteps
  BY <1>0 DEF RunOK
<1>p. ASSUME pc[s] # "idle"
      PROVE  /\ run[s].party \in Parties
             /\ entry[run[s].party] \in EntryType
             /\ LET e == entry[run[s].party] IN e.grants # {} => e.state = "live"
  BY <1>p, <1>0 DEF RunOK, EntryOK
<1>z. run[s].zcaps \in SUBSET Grants /\ run[s].seed \in Sessions \cup {NoSeed}
  BY <1>r DEF RunType
<1>1. ASSUME NEW p \in Parties, NEW G \in SUBSET Grants, ConsentStart(s, p, G)
      PROVE  Shape'
  <2>1. PICK seed \in {NoSeed} \cup (IF p \in Agents THEN {PairwiseSeed(s, p)} ELSE {}) :
          run' = [run EXCEPT ![s] =
                   [NoRun EXCEPT !.party = p, !.zcaps = G, !.seed = seed]]
    BY <1>1 DEF ConsentStart
  <2> DEFINE r == [NoRun EXCEPT !.party = p, !.zcaps = G, !.seed = seed]
  <2>2. seed \in Sessions \cup {NoSeed}
    BY <1>0 DEF EntryOK, EntryType, PairwiseSeed
  <2>3. r \in RunType /\ r.party \in Parties
    BY <2>2, NoRunType DEF RunType, NoRun
  <2>4. RunOK'
    <3>1. run' = [run EXCEPT ![s] = r] /\ Goto(s, "prior")
      BY <1>1, <2>1 DEF ConsentStart
    <3> HIDE DEF r
    <3> QED BY <1>0, <2>3, <3>1, RunTyped DEF Steps
  <2>5. EntryOK'
    BY <1>0, <1>1 DEF EntryOK, ConsentStart
  <2>6. RestOK'
    BY <1>0, <1>1 DEF RestOK, ConsentStart, Sign, AppKeyFound
  <2> QED
    BY <2>4, <2>5, <2>6, TypePrimed
<1>2. CASE ConsentPrior(s)
  <2>1. EntryOK' /\ RestOK'
    BY <1>0, <1>2 DEF EntryOK, RestOK, ConsentPrior, stored
  <2>2. [run[s] EXCEPT !.prior = entry[run[s].party].state] \in RunType
    BY <1>r, <1>p, <1>2 DEF ConsentPrior, RunType, EntryType
  <2>3. RunOK'
    BY <1>0, <1>2, <1>p, <2>2 DEF ConsentPrior, RunOK, Goto, AllSteps, Steps
  <2> QED
    BY <2>1, <2>3, TypePrimed
<1>3. CASE ConsentPriorFails(s)
  BY <1>0, <1>3, FinishTyped, TypePrimed
  DEF ConsentPriorFails, stored, EntryOK, RestOK
<1>4. CASE ConsentRecord(s)
  <2>1. EntryOK'
    <3> DEFINE e == RecordGrants(entry[run[s].party], run[s].zcaps, run[s].seed)
    <3>1. WriteEntry(run[s].party, e) /\ pc[s] # "idle"
      BY <1>4 DEF ConsentRecord
    <3>2. entry[run[s].party] \in EntryType
      BY <1>p, <3>1
    <3>3. e \in EntryType /\ e.state = "live"
      BY <1>z, <3>2, RecordedEntry
    <3> QED
      BY <1>0, <1>p, <3>1, <3>3, WriteTyped
  <2>2. RunOK' /\ RestOK'
    BY <1>0, <1>4, GotoTyped DEF ConsentRecord, RestOK, Steps
  <2> QED
    BY <2>1, <2>2, TypePrimed
<1>5. CASE ConsentRecordFails(s)
  <2>1. EntryOK'
    <3>1. CASE UNCHANGED entry
      BY <1>0, <3>1 DEF EntryOK
    <3>2. CASE ~UNCHANGED entry
      <4> DEFINE e == RecordGrants(entry[run[s].party], run[s].zcaps, run[s].seed)
      <4>1. WriteEntry(run[s].party, e) /\ pc[s] # "idle"
        BY <1>5, <3>2 DEF ConsentRecordFails
      <4>2. entry[run[s].party] \in EntryType
        BY <1>p, <4>1
      <4>3. e \in EntryType /\ e.state = "live"
        BY <1>z, <4>2, RecordedEntry
      <4> QED
        BY <1>0, <1>p, <4>1, <4>3, WriteTyped
    <3> QED
      BY <3>1, <3>2
  <2>2. RunOK' /\ RestOK'
    BY <1>0, <1>5, GotoTyped DEF ConsentRecordFails, RestOK, Steps
  <2> QED
    BY <2>1, <2>2, TypePrimed
<1>6. CASE ConsentAudit(s)
  <2>1. EntryOK' /\ RestOK'
    BY <1>0, <1>6, <1>z DEF EntryOK, RestOK, ConsentAudit
  <2>2. [run[s] EXCEPT !.audited = TRUE] \in RunType
    BY <1>r DEF RunType
  <2>3. RunOK'
    BY <1>0, <1>6, <1>p, <2>2 DEF ConsentAudit, RunOK, Goto, AllSteps, Steps
  <2> QED
    BY <2>1, <2>3, TypePrimed
<1>7. CASE ConsentAuditFails(s)
  <2>1. EntryOK' /\ RestOK'
    BY <1>0, <1>7, <1>z DEF EntryOK, RestOK, ConsentAuditFails
  <2>2. RunOK'
    BY <1>0, <1>7, GotoTyped DEF ConsentAuditFails, Steps
  <2> QED
    BY <2>1, <2>2, TypePrimed
<1>8. ASSUME NEW c \in Collections, ConsentCreate(s, c)
      PROVE  Shape'
  BY <1>0, <1>8, <1>p, TypePrimed DEF EntryOK, RestOK, RunOK, ConsentCreate
<1>9. ASSUME NEW c \in Collections, ConsentEscrow(s, c)
      PROVE  Shape'
  <2>1. EntryOK' /\ RestOK'
    BY <1>0, <1>9, <1>p DEF EntryOK, RestOK, ConsentEscrow, Admit
  <2>2. PICK G \in SUBSET run[s].zcaps :
          run' = [run EXCEPT ![s] = [run[s] EXCEPT !.escrowed = @ \cup G]]
    BY <1>9 DEF ConsentEscrow
  <2>3. /\ [run[s] EXCEPT !.escrowed = @ \cup G] \in RunType
        /\ [run[s] EXCEPT !.escrowed = @ \cup G].party = run[s].party
    BY <1>r, <1>z DEF RunType
  <2>4. RunOK'
    <3>1. UNCHANGED pc /\ pc[s] # "idle" /\ "escrow" \in Steps
      BY <1>9 DEF ConsentEscrow, Steps
    <3> QED
      BY <1>0, <1>p, <2>2, <2>3, <3>1, RunTyped
  <2> QED
    BY <2>1, <2>4, TypePrimed
<1>10. ASSUME NEW c \in Collections, ConsentEscrowFails(s, c)
       PROVE  Shape'
  <2>1. EntryOK' /\ RestOK'
    BY <1>0, <1>10, <1>p DEF EntryOK, RestOK, ConsentEscrowFails, Admit
  <2>2. PICK G \in SUBSET run[s].zcaps :
          \/ run' = [run EXCEPT ![s] = [run[s] EXCEPT !.escrowed = @ \cup G]]
          \/ UNCHANGED run
    BY <1>10 DEF ConsentEscrowFails
  <2>3. /\ [run[s] EXCEPT !.escrowed = @ \cup G] \in RunType
        /\ [run[s] EXCEPT !.escrowed = @ \cup G].party = run[s].party
    BY <1>r, <1>z DEF RunType
  <2>4. RunOK'
    <3>1. Goto(s, "rollback") /\ pc[s] # "idle" /\ "rollback" \in Steps
      BY <1>10 DEF ConsentEscrowFails, Steps
    <3> QED
      BY <1>0, <1>p, <2>2, <2>3, <3>1, RunTyped, GotoTyped
  <2> QED
    BY <2>1, <2>4, TypePrimed
<1>11. CASE ConsentDeliver(s)
  <2>1. EntryOK' /\ RestOK'
    BY <1>0, <1>11, <1>p, <1>z DEF EntryOK, RestOK, ConsentDeliver
  <2> QED
    BY <1>0, <1>11, <2>1, FinishTyped, TypePrimed DEF ConsentDeliver
<1>12. CASE ConsentUndelivered(s)
  BY <1>0, <1>12, FinishTyped, TypePrimed
  DEF ConsentUndelivered, stored, EntryOK, RestOK
<1>13. CASE ConsentComposeFails(s)
  <2>1. EntryOK' /\ RestOK'
    BY <1>0, <1>13 DEF ConsentComposeFails, stored, EntryOK, RestOK
  <2> QED
    BY <1>0, <1>13, <2>1, GotoTyped, TypePrimed DEF ConsentComposeFails, Steps
<1>14. CASE RollbackRemove(s)
  <2>1. EntryOK'
    <3> DEFINE U == run[s].zcaps \ run[s].escrowed
    <3>1. entry' = entry \/ WriteEntry(run[s].party, RemoveGrants(entry[run[s].party], U))
      BY <1>14 DEF RollbackRemove, WriteEntry
    <3>2. U \in SUBSET Grants
      BY <1>z
    <3>3. CASE entry' = entry
      BY <1>0, <3>3 DEF EntryOK
    <3>4. CASE WriteEntry(run[s].party, RemoveGrants(entry[run[s].party], U))
      BY <1>0, <1>p, <1>14, <3>2, <3>4, EntryHelpers, WriteTyped
      DEF RollbackRemove
    <3> QED
      BY <3>1, <3>3, <3>4
  <2>2. RunOK' /\ RestOK'
    BY <1>0, <1>14, GotoTyped DEF RollbackRemove, RestOK, Steps
  <2> QED
    BY <2>1, <2>2, TypePrimed
<1>15. CASE RollbackRetire(s)
  <2>1. EntryOK'
    <3>1. CASE UNCHANGED entry
      BY <1>0, <3>1 DEF EntryOK
    <3>2. CASE ~UNCHANGED entry
      BY <1>0, <1>15, <1>p, <1>z, <3>2, EntryHelpers, WriteTyped DEF RollbackRetire
    <3> QED
      BY <3>1, <3>2
  <2>2. RunOK' /\ RestOK'
    BY <1>0, <1>15, GotoTyped DEF RollbackRetire, RestOK, Steps
  <2> QED
    BY <2>1, <2>2, TypePrimed
<1>16. CASE RollbackAudit(s)
  <2>1. EntryOK' /\ RestOK'
    BY <1>0, <1>16 DEF EntryOK, RestOK, RollbackAudit
  <2> QED
    BY <1>0, <1>16, <2>1, FinishTyped, TypePrimed DEF RollbackAudit
<1> QED
  BY <1>1, <1>2, <1>3, <1>4, <1>5, <1>6, <1>7, <1>8, <1>9, <1>10, <1>11, <1>12,
     <1>13, <1>14, <1>15, <1>16 DEF ConsentStep

\* A revocation step keeps the shape of the state.
LEMMA RevocationType ==
  ASSUME ConnectionsAssumption, Shape, NEW s \in Sessions, RevocationStep(s)
  PROVE  Shape'
<1>0. RunOK /\ EntryOK /\ RestOK
  BY TypeParts
<1>r. run[s] \in RunType
  BY <1>0 DEF RunOK
<1>p. ASSUME pc[s] # "idle"
      PROVE  /\ run[s].party \in Parties
             /\ entry[run[s].party] \in EntryType
             /\ LET e == entry[run[s].party] IN e.grants # {} => e.state = "live"
  BY <1>p, <1>0 DEF RunOK, EntryOK
<1>l. Listing \in [Parties -> SUBSET Grants]
  BY <1>0, ListingType
\* A rotation leaves parties on the roster, a revocation known states.
<1>o. ASSUME NEW p, NEW c \in Collections, NEW seen,
             RotateOff(p, c, seen) \/ UNCHANGED roster
      PROVE  roster' \in [Collections -> SUBSET Parties]
  BY <1>0, <1>o DEF RestOK, RotateOff
<1>v. ASSUME NEW G, Revoke(G) \/ UNCHANGED zcap
      PROVE  zcap' \in [Grants -> {"unsigned", "live", "dead"}]
  BY <1>0, <1>v DEF RestOK, Revoke
<1>1. ASSUME NEW p \in Parties, DisconnectClearChannel(s, p)
      PROVE  Shape'
  <2> DEFINE e == ClearReceivedGrants(entry[p])
             r == [NoRun EXCEPT !.party = p]
  <2>1. entry[p] \in EntryType /\ (entry[p].grants # {} => entry[p].state = "live")
    BY <1>0 DEF EntryOK
  <2>2. e \in EntryType /\ (e.grants # {} => e.state = "live")
    BY <2>1, EntryHelpers
  <2>3. r \in RunType /\ r.party \in Parties
    BY NoRunType DEF RunType, NoRun
  <2>4. WriteEntry(p, e) /\ run' = [run EXCEPT ![s] = r] /\ Goto(s, "read")
    BY <1>1 DEF DisconnectClearChannel
  <2>5. EntryOK' /\ RunOK'
    <3> HIDE DEF e, r
    <3> QED BY <1>0, <2>2, <2>3, <2>4, WriteTyped, RunTyped DEF Steps
  <2>6. RestOK'
    BY <1>0, <1>1 DEF RestOK, DisconnectClearChannel
  <2> QED
    BY <2>5, <2>6, TypePrimed
<1>2. ASSUME NEW p \in Parties, DisconnectApp(s, p)
      PROVE  Shape'
  <2> DEFINE r == [NoRun EXCEPT !.party = p]
  <2>1. r \in RunType /\ r.party \in Parties
    BY NoRunType DEF RunType, NoRun
  <2>2. run' = [run EXCEPT ![s] = r] /\ Goto(s, "read")
    BY <1>2 DEF DisconnectApp
  <2>3. RunOK'
    <3> HIDE DEF r
    <3> QED BY <1>0, <2>1, <2>2, RunTyped DEF Steps
  <2>4. EntryOK' /\ RestOK'
    BY <1>0, <1>2 DEF EntryOK, RestOK, DisconnectApp, stored
  <2> QED
    BY <2>3, <2>4, TypePrimed
<1>3. CASE DisconnectRead(s)
  <2>1. PICK listed \in BOOLEAN :
          run' = [run EXCEPT ![s].seen = Listing,
                             ![s].todo = Candidates(run[s].party, Listing, listed),
                             ![s].failed = ~listed]
    BY <1>3 DEF DisconnectRead
  <2> DEFINE todo == Candidates(run[s].party, Listing, listed)
             r == [run[s] EXCEPT !.seen = Listing, !.todo = todo, !.failed = ~listed]
  <2>2. todo \in SUBSET Collections
    BY DEF ConnectionsAssumption, Candidates, Private, Provisioned
  <2>3. r \in RunType /\ r.party = run[s].party
    <3> HIDE DEF todo
    <3> QED BY <1>r, <1>l, <2>2 DEF RunType
  <2>4. run' = [run EXCEPT ![s] = r]
    BY <2>1
  <2>5. pc[s] # "idle" /\ Goto(s, "rotate") /\ "rotate" \in Steps
    BY <1>3 DEF DisconnectRead, Steps
  <2>6. RunOK'
    <3> HIDE DEF r
    <3> QED BY <1>0, <1>p, <2>3, <2>4, <2>5, RunTyped
  <2>7. EntryOK' /\ RestOK'
    BY <1>0, <1>3 DEF EntryOK, RestOK, DisconnectRead, stored
  <2> QED
    BY <2>6, <2>7, TypePrimed
<1>4. ASSUME NEW c \in Collections, DisconnectRotate(s, c)
      PROVE  Shape'
  <2>1. [run[s] EXCEPT !.todo = @ \ {c}] \in RunType
    BY <1>r DEF RunType
  <2>2. RunOK'
    BY <1>0, <1>4, <1>p, <2>1 DEF DisconnectRotate, RunOK, Goto, AllSteps, Steps
  <2>3. EntryOK' /\ RestOK'
    BY <1>0, <1>4, <1>o, <1>v DEF EntryOK, RestOK, DisconnectRotate
  <2> QED
    BY <2>2, <2>3, TypePrimed
<1>5. ASSUME NEW c \in Collections, DisconnectRotateFails(s, c)
      PROVE  Shape'
  <2>1. [run[s] EXCEPT !.todo = @ \ {c}, !.failed = TRUE] \in RunType
    BY <1>r DEF RunType
  <2>2. RunOK'
    BY <1>0, <1>5, <1>p, <2>1 DEF DisconnectRotateFails, RunOK, Goto, AllSteps, Steps
  <2>3. EntryOK' /\ RestOK'
    BY <1>0, <1>5, <1>o DEF EntryOK, RestOK, DisconnectRotateFails
  <2> QED
    BY <2>2, <2>3, TypePrimed
<1>6. CASE DisconnectPost(s)
  <2>1. RunOK'
    BY <1>0, <1>6, GotoTyped DEF DisconnectPost, Steps
  <2>2. EntryOK' /\ RestOK'
    BY <1>0, <1>6, <1>v DEF EntryOK, RestOK, DisconnectPost
  <2> QED
    BY <2>1, <2>2, TypePrimed
<1>7. CASE DisconnectPostFails(s)
  <2>1. EntryOK' /\ RestOK'
    BY <1>0, <1>7, <1>v DEF EntryOK, RestOK, DisconnectPostFails
  <2> QED
    BY <1>0, <1>7, <2>1, FinishTyped, TypePrimed DEF DisconnectPostFails
<1>8. CASE DisconnectDeleteKey(s)
  <2>1. RunOK'
    BY <1>0, <1>8, GotoTyped DEF DisconnectDeleteKey, Steps
  <2>2. EntryOK' /\ RestOK'
    BY <1>0, <1>8 DEF EntryOK, RestOK, DisconnectDeleteKey
  <2> QED
    BY <2>1, <2>2, TypePrimed
<1>9. CASE DisconnectDeleteKeyFails(s)
  <2>1. EntryOK' /\ RestOK'
    BY <1>0, <1>9 DEF EntryOK, RestOK, DisconnectDeleteKeyFails
  <2> QED
    BY <1>0, <1>9, <2>1, FinishTyped, TypePrimed DEF DisconnectDeleteKeyFails
<1>10. CASE DisconnectRetire(s)
  <2> DEFINE e == RetireConnection(entry[run[s].party])
  <2>1. pc[s] # "idle" /\ WriteEntry(run[s].party, e)
    BY <1>10 DEF DisconnectRetire
  <2>2. e \in EntryType /\ e.grants = {}
    BY <1>p, <2>1, EntryHelpers
  <2>3. EntryOK'
    BY <1>0, <1>p, <2>1, <2>2, WriteTyped
  <2>4. RestOK'
    BY <1>0, <1>10 DEF RestOK, DisconnectRetire
  <2> QED
    BY <1>0, <1>10, <2>3, <2>4, FinishTyped, TypePrimed DEF DisconnectRetire
<1>11. CASE DisconnectRetireFails(s)
  BY <1>0, <1>11, FinishTyped, TypePrimed
  DEF DisconnectRetireFails, stored, EntryOK, RestOK
<1>12. ASSUME NEW p \in Parties, NEW c \in Shared, UnshareStart(s, p, c)
       PROVE  Shape'
  <2> DEFINE r == [NoRun EXCEPT !.party = p, !.seen = Listing, !.todo = {c}]
  <2>1. c \in Collections
    BY DEF ConnectionsAssumption
  <2>2. r \in RunType /\ r.party \in Parties
    BY <1>l, <2>1, NoRunType DEF RunType, NoRun
  <2>3. run' = [run EXCEPT ![s] = r] /\ Goto(s, "unrotate")
    BY <1>12 DEF UnshareStart
  <2>4. RunOK'
    <3> HIDE DEF r
    <3> QED BY <1>0, <2>2, <2>3, RunTyped DEF Steps
  <2>5. EntryOK' /\ RestOK'
    BY <1>0, <1>12 DEF EntryOK, RestOK, UnshareStart, stored
  <2> QED
    BY <2>4, <2>5, TypePrimed
<1>13. ASSUME NEW c \in Collections, UnshareRotate(s, c)
       PROVE  Shape'
  <2>1. RunOK'
    BY <1>0, <1>13, GotoTyped DEF UnshareRotate, Steps
  <2>2. EntryOK' /\ RestOK'
    BY <1>0, <1>13, <1>o, <1>v DEF EntryOK, RestOK, UnshareRotate
  <2> QED
    BY <2>1, <2>2, TypePrimed
<1>14. ASSUME NEW c \in Collections, UnshareRotateFails(s, c)
       PROVE  Shape'
  <2>1. EntryOK' /\ RestOK'
    BY <1>0, <1>14, <1>o, <1>v DEF EntryOK, RestOK, UnshareRotateFails
  <2> QED
    BY <1>0, <1>14, <2>1, FinishTyped, TypePrimed DEF UnshareRotateFails
<1>15. CASE UnshareRemove(s)
  <2>1. EntryOK'
    <3> DEFINE e == RemoveGrants(entry[run[s].party], Unshared(s))
    <3>1. pc[s] # "idle"
      BY <1>15 DEF UnshareRemove
    <3>2. Unshared(s) \in SUBSET Grants
      BY <1>r, <1>p, <3>1 DEF Unshared, RunType
    <3>3. e \in EntryType /\ (e.grants # {} => e.state = "live")
      BY <1>p, <3>1, <3>2, EntryHelpers
    <3>4. CASE UNCHANGED entry
      BY <1>0, <3>4 DEF EntryOK
    <3>5. CASE WriteEntry(run[s].party, e)
      BY <1>0, <1>p, <3>1, <3>3, <3>5, WriteTyped
    <3> QED
      BY <1>15, <3>4, <3>5 DEF UnshareRemove
  <2>2. RestOK'
    BY <1>0, <1>15 DEF RestOK, UnshareRemove
  <2> QED
    BY <1>0, <1>15, <2>1, <2>2, FinishTyped, TypePrimed DEF UnshareRemove
<1> QED
  BY <1>1, <1>2, <1>3, <1>4, <1>5, <1>6, <1>7, <1>8, <1>9, <1>10, <1>11, <1>12,
     <1>13, <1>14, <1>15 DEF RevocationStep

\* No consent and no revocation goes to the restore of an agent.
LEMMA StepsKept ==
  ASSUME NEW s \in Sessions, pc \in [Sessions -> Steps],
         ConsentStep(s) \/ RevocationStep(s)
  PROVE  pc' \in [Sessions -> Steps]
<1>1. ASSUME NEW step \in Steps, Goto(s, step) PROVE pc' \in [Sessions -> Steps]
  BY <1>1 DEF Goto
<1>2. ASSUME Finish(s) PROVE pc' \in [Sessions -> Steps]
  BY <1>2 DEF Finish, Steps
<1>3. CASE ConsentStep(s)
  BY <1>1, <1>2, <1>3
  DEF ConsentStep, ConsentStart, ConsentPrior, ConsentPriorFails, ConsentRecord,
      ConsentRecordFails, ConsentAudit, ConsentAuditFails, ConsentCreate,
      ConsentEscrow, ConsentEscrowFails, ConsentDeliver, ConsentUndelivered,
      ConsentComposeFails, RollbackRemove, RollbackRetire, RollbackAudit, Steps
<1>4. CASE RevocationStep(s)
  BY <1>1, <1>2, <1>4
  DEF RevocationStep, DisconnectClearChannel, DisconnectApp, UnshareStart,
      DisconnectRead, DisconnectRotate, DisconnectRotateFails, UnshareRotate,
      UnshareRotateFails, DisconnectPost, DisconnectPostFails,
      DisconnectDeleteKey, DisconnectDeleteKeyFails, DisconnectRetire,
      DisconnectRetireFails, UnshareRemove, Steps
<1> QED
  BY <1>3, <1>4

\* Every variable keeps its shape, and only listed entries record grants, for
\* any number of sessions, parties, capabilities and collections.
THEOREM TypeSafety == Spec => []TypeOK
<1> USE ConnectionsAssumption
<1>1. TypeOK /\ [Next]_vars => TypeOK'
  <2> SUFFICES ASSUME TypeOK, [Next]_vars PROVE TypeOK'
    OBVIOUS
  <2>0. RunOK /\ EntryOK /\ RestOK /\ Shape /\ pc \in [Sessions -> Steps]
    BY TypeParts DEF TypeOK, Shape, AllSteps
  <2>s. ASSUME Shape', pc' \in [Sessions -> Steps] PROVE TypeOK'
    BY <2>s DEF TypeOK, Shape
  <2>1. ASSUME NEW s \in Sessions, ConsentStep(s) PROVE TypeOK'
    BY <2>0, <2>1, <2>s, ConsentType, StepsKept
  <2>2. ASSUME NEW s \in Sessions, RevocationStep(s) PROVE TypeOK'
    BY <2>0, <2>2, <2>s, RevocationType, StepsKept
  <2>3. ASSUME NEW s \in Sessions, Crash(s) PROVE TypeOK'
    <3>1. pc' \in [Sessions -> Steps]
      BY <2>0, <2>3 DEF Crash, Finish, Steps
    <3> QED
      BY <2>0, <2>3, <2>s, <3>1, FinishTyped, TypePrimed
      DEF Crash, stored, EntryOK, RestOK
  <2>4. ASSUME NEW g \in Grants, Lapse(g) PROVE TypeOK'
    BY <2>0, <2>4, <2>s, TypePrimed DEF Lapse, RunOK, EntryOK, RestOK
  <2>5. CASE UNCHANGED vars
    BY <2>0, <2>5, <2>s, TypePrimed DEF vars, RunOK, EntryOK, RestOK
  <2> QED
    BY <2>1, <2>2, <2>3, <2>4, <2>5 DEF Next
<1> QED
  BY <1>1, InitType, PTL DEF Spec

-----------------------------------------------------------------------------
(***************************************************************************)
(* The directory is the grant index.                                       *)
(***************************************************************************)
\* The inductive invariant.

\* Whatever the state records was signed.
Signed ==
  \A g \in Grants : zcap[g] = "unsigned" =>
    /\ g \notin held
    /\ \A p \in Parties : g \notin entry[p].grants
    /\ \A s \in Sessions : /\ g \notin run[s].zcaps
                           /\ \A p \in Parties : g \notin run[s].seen[p]

\* A consent in flight is alone in holding its capabilities, which are its
\* party's and which nobody was handed.
Own ==
  \A s \in Sessions : \A g \in run[s].zcaps :
    /\ Grantee[g] = run[s].party
    /\ g \notin held
    /\ \A t \in Sessions : g \in run[t].zcaps => t = s

\* HeldIsListed, without the state of the entry.
Indexed ==
  \A g \in held : zcap[g] = "live" => g \in entry[Grantee[g]].grants

\* From its record to its delivery, a consent's capabilities stand on the entry.
RecordedBy(s) ==
  pc[s] \in {"audit", "escrow"} =>
    \A g \in run[s].zcaps : zcap[g] = "live" => g \in entry[Grantee[g]].grants

\* A disconnect, or an unshare, empties the entry only of dead capabilities.
HandledBy(s) ==
  /\ pc[s] \in {"delkey", "retire"} =>
       \A g \in run[s].seen[run[s].party] : zcap[g] = "dead"
  /\ pc[s] = "ungrant" => \A g \in Unshared(s) : zcap[g] = "dead"

IndexInv ==
  /\ Shape
  /\ Signed
  /\ Own
  /\ Indexed
  /\ \A s \in Sessions : RecordedBy(s) /\ HandledBy(s)

-----------------------------------------------------------------------------
\* What almost every step of session s does, to the invariant.

\* The other sessions' ceremonies stand still.
Elsewhere(s) == \A t \in Sessions \ {s} : run'[t] = run[t] /\ pc'[t] = pc[t]

\* Capabilities are revoked, never revived.
Fades ==
  \A g \in Grants : \/ zcap'[g] = zcap[g]
                    \/ zcap[g] = "live" /\ zcap'[g] = "dead"

\* The ceremony keeps its capabilities or drops them, and reads only entries.
Remembers(s) ==
  /\ \/ run'[s].zcaps = {}
     \/ run'[s].zcaps = run[s].zcaps /\ run'[s].party = run[s].party
  /\ \A p \in Parties : run'[s].seen[p] \subseteq run[s].seen[p] \cup entry[p].grants

\* What a consent or a restore records, and what a rollback takes back.
Recorded(s, p) ==
  IF pc[s] \in {"record", "restore"} /\ run[s].party = p THEN run[s].zcaps ELSE {}

Released(s) == IF pc[s] \in {"rollback", "reretire"} THEN run[s].zcaps ELSE {}

\* An entry gains what the ceremony records, loses what it takes back, or the
\* dead, and is listed again by a consent alone.
Tended(s, p, e) ==
  /\ e.grants \subseteq entry[p].grants \cup Recorded(s, p)
  /\ \A g \in entry[p].grants \ e.grants : zcap[g] = "dead" \/ g \in Released(s)
  /\ e.state = "live" =>
       entry[p].state = "live" \/ (pc[s] = "record" /\ run[s].party = p)

Tends(s) == \A p \in Parties : Tended(s, p, entry'[p])

\* A ceremony that has not recorded its capabilities yet has written nothing.
Waits(s) ==
  pc'[s] \in {"prior", "record", "restore"} /\ run'[s].zcaps # {} =>
    /\ pc[s] = "prior"
    /\ run'[s].zcaps = run[s].zcaps
    /\ UNCHANGED entry

\* Such a step as a whole, which does what its own session promised.
Local(s) ==
  /\ Elsewhere(s)
  /\ Fades
  /\ Remembers(s)
  /\ Tends(s)
  /\ Waits(s)
  /\ held' = held
  /\ RecordedBy(s)' /\ HandledBy(s)'

\* Such a step keeps the invariant.
LEMMA LocalStep ==
  ASSUME ConnectionsAssumption, IndexInv, Shape', NEW s \in Sessions, Local(s)
  PROVE  IndexInv'
<1>l. /\ Elsewhere(s) /\ Fades /\ Remembers(s) /\ Tends(s) /\ held' = held
      /\ RecordedBy(s)' /\ HandledBy(s)'
  BY DEF Local
<1>e. \A p \in Parties :
        /\ entry'[p].grants \subseteq entry[p].grants \cup run[s].zcaps
        /\ \A g \in entry[p].grants \ entry'[p].grants :
             zcap[g] = "dead" \/ g \in run[s].zcaps
  BY <1>l DEF Tends, Tended, Recorded, Released
<1>t. /\ zcap \in [Grants -> {"unsigned", "live", "dead"}]
      /\ held \in SUBSET Grants
      /\ Grantee \in [Grants -> Parties]
      /\ \A t \in Sessions : /\ run[t] \in RunType
                             /\ pc[t] # "idle" => run[t].party \in Parties
  BY DEF IndexInv, Shape, StoredOK, ConnectionsAssumption
<1>z. \A t \in Sessions : /\ run[t].zcaps \in SUBSET Grants
                          /\ \A p \in Parties : run[t].seen[p] \in SUBSET Grants
  BY <1>t DEF RunType
<1>1. Signed'
  BY <1>l, <1>e, <1>t DEF IndexInv, Signed, Elsewhere, Fades, Remembers
<1>2. Own'
  BY <1>l DEF IndexInv, Own, Elsewhere, Remembers
<1>3. Indexed'
  BY <1>l, <1>e, <1>t DEF IndexInv, Indexed, Own, Fades
<1>4. ASSUME NEW t \in Sessions, t # s PROVE RecordedBy(t)'
  BY <1>l, <1>e, <1>4, <1>t, <1>z DEF IndexInv, RecordedBy, Own, Elsewhere, Fades
<1>5. ASSUME NEW t \in Sessions, t # s PROVE HandledBy(t)'
  <2>1. run'[t] = run[t] /\ pc'[t] = pc[t]
    BY <1>l, <1>5 DEF Elsewhere
  <2>2. HandledBy(t)
    BY DEF IndexInv
  <2>3. \A g \in Grants : zcap[g] = "dead" => zcap'[g] = "dead"
    BY <1>l DEF Fades
  <2> QED
    BY <1>t, <1>z, <2>1, <2>2, <2>3 DEF HandledBy, Unshared
<1> QED
  BY <1>l, <1>1, <1>2, <1>3, <1>4, <1>5 DEF IndexInv

\* The ways a step satisfies the premises.
LEMMA StillWrites ==
  ASSUME NEW s \in Sessions
  PROVE  /\ UNCHANGED entry => Tends(s)
         /\ UNCHANGED zcap => Fades
  BY DEF Tends, Tended, Fades

\* A write of one entry.
LEMMA WriteTends ==
  ASSUME Shape, NEW s \in Sessions, NEW p \in Parties, NEW e, WriteEntry(p, e),
         Tended(s, p, e)
  PROVE  Tends(s)
<1>1. \A q \in Parties : entry'[q] = IF q = p THEN e ELSE entry[q]
  BY DEF Shape, StoredOK, WriteEntry
<1>2. \A q \in Parties : Tended(s, q, entry[q])
  BY DEF Tended
<1> QED
  BY <1>1, <1>2 DEF Tends

\* The helpers of an entry, applied where the ceremonies apply them.
LEMMA HelperTended ==
  ASSUME NEW s \in Sessions, NEW p \in Parties, entry[p] \in EntryType
  PROVE  /\ pc[s] = "record" /\ run[s].party = p =>
              \A seed : Tended(s, p, RecordGrants(entry[p], run[s].zcaps, seed))
         /\ \A G : (\A g \in G : zcap[g] = "dead" \/ g \in Released(s))
              => Tended(s, p, RemoveGrants(entry[p], G))
         /\ (\A g \in entry[p].grants : zcap[g] = "dead" \/ g \in Released(s))
              => Tended(s, p, RetireConnection(entry[p]))
         /\ Tended(s, p, ClearReceivedGrants(entry[p]))
<1>1. ASSUME NEW seed
      PROVE  /\ RecordGrants(entry[p], run[s].zcaps, seed).grants
                   = entry[p].grants \cup run[s].zcaps
             /\ RecordGrants(entry[p], run[s].zcaps, seed).state = "live"
  BY DEF RecordGrants, EntryType
<1>2. ASSUME NEW G
      PROVE  /\ RemoveGrants(entry[p], G).grants = entry[p].grants \ G
             /\ RemoveGrants(entry[p], G).state = entry[p].state
  BY DEF RemoveGrants, EntryType
<1>3. \/ RetireConnection(entry[p]) = entry[p]
      \/ /\ RetireConnection(entry[p]).grants = {}
         /\ RetireConnection(entry[p]).state = "retired"
  BY DEF RetireConnection, EntryType
<1>4. /\ ClearReceivedGrants(entry[p]).grants = entry[p].grants
      /\ ClearReceivedGrants(entry[p]).state = entry[p].state
  BY DEF ClearReceivedGrants, EntryType
<1>5. ASSUME pc[s] = "record", run[s].party = p, NEW seed
      PROVE  Tended(s, p, RecordGrants(entry[p], run[s].zcaps, seed))
  BY <1>1, <1>5 DEF Tended, Recorded
<1>6. ASSUME NEW G, \A g \in G : zcap[g] = "dead" \/ g \in Released(s)
      PROVE  Tended(s, p, RemoveGrants(entry[p], G))
  BY <1>2, <1>6 DEF Tended
<1>7. ASSUME \A g \in entry[p].grants : zcap[g] = "dead" \/ g \in Released(s)
      PROVE  Tended(s, p, RetireConnection(entry[p]))
  BY <1>3, <1>7 DEF Tended
<1>8. Tended(s, p, ClearReceivedGrants(entry[p]))
  BY <1>4 DEF Tended
<1> QED
  BY <1>5, <1>6, <1>7, <1>8

\* Revoking a set of capabilities only turns live ones dead, all of its own
\* signed ones among them.
LEMMA Revoked ==
  ASSUME Shape, NEW G, NEW H \in SUBSET Live(G), Revoke(H)
  PROVE  /\ Fades
         /\ H = Live(G) => \A g \in Grants :
              g \in G /\ zcap[g] # "unsigned" => zcap'[g] = "dead"
  BY DEF Shape, StoredOK, Revoke, Live, Fades

\* A ceremony that ends promises nothing any more.
LEMMA FinishLocal ==
  ASSUME Shape, NEW s \in Sessions, Finish(s)
  PROVE  /\ Elsewhere(s) /\ Remembers(s) /\ Waits(s)
         /\ RecordedBy(s)' /\ HandledBy(s)'
  BY DEF Shape, StoredOK, Finish, NoRun, NoListing, Elsewhere, Remembers,
         Waits, RecordedBy, HandledBy

\* A step that moves the ceremony on, with its memory untouched.
LEMMA GotoLocal ==
  ASSUME Shape, NEW s \in Sessions, NEW step, Goto(s, step), UNCHANGED run
  PROVE  Elsewhere(s) /\ Remembers(s) /\ pc'[s] = step
  BY DEF Shape, StoredOK, Goto, Elsewhere, Remembers

\* A step that rewrites the ceremony's memory, elsewhere than at the points
\* that promise something.
LEMMA RunLocal ==
  ASSUME Shape, NEW s \in Sessions, NEW r, run' = [run EXCEPT ![s] = r],
         \/ r.zcaps = {}
         \/ r.zcaps = run[s].zcaps /\ r.party = run[s].party,
         \A p \in Parties : r.seen[p] \subseteq run[s].seen[p] \cup entry[p].grants,
         NEW step, Goto(s, step) \/ (UNCHANGED pc /\ pc[s] = step)
  PROVE  Elsewhere(s) /\ Remembers(s) /\ pc'[s] = step
  BY DEF Shape, StoredOK, Goto, Elsewhere, Remembers

\* A session elsewhere than at the promising points promises nothing.
LEMMA Unpromised ==
  ASSUME NEW s \in Sessions
  PROVE  /\ pc'[s] \notin {"audit", "escrow"} => RecordedBy(s)'
         /\ pc'[s] \notin {"delkey", "retire", "ungrant"} => HandledBy(s)'
         /\ pc'[s] \notin {"prior", "record", "restore"} => Waits(s)
  BY DEF RecordedBy, HandledBy, Waits

\* A consent step, but for the first and the delivery, is local.
LEMMA ConsentLocal ==
  ASSUME IndexInv, NEW s \in Sessions, ConsentStep(s),
         \A p \in Parties : \A G \in SUBSET Grants : ~ConsentStart(s, p, G),
         ~ConsentDeliver(s)
  PROVE  Local(s)
<1>0. Shape /\ RecordedBy(s)
  BY DEF IndexInv
<1>r. run[s] \in RunType /\ run[s].zcaps \in SUBSET Grants
  BY <1>0 DEF Shape, StoredOK, RunType
<1>p. ASSUME pc[s] # "idle"
      PROVE  run[s].party \in Parties /\ entry[run[s].party] \in EntryType
  BY <1>p, <1>0 DEF Shape, StoredOK
<1>2. CASE ConsentPrior(s)
  <2> DEFINE r == [run[s] EXCEPT !.prior = entry[run[s].party].state]
  <2>1. r.zcaps = run[s].zcaps /\ r.party = run[s].party /\ r.seen = run[s].seen
    BY <1>r DEF RunType
  <2>2. run' = [run EXCEPT ![s] = r] /\ Goto(s, "record") /\ UNCHANGED stored
    BY <1>2 DEF ConsentPrior
  <2>3. Elsewhere(s) /\ Remembers(s) /\ pc'[s] = "record"
    <3> HIDE DEF r
    <3> QED BY <1>0, <2>1, <2>2, RunLocal
  <2>4. pc[s] = "prior" /\ run'[s].zcaps = run[s].zcaps
    <3>1. run \in [Sessions -> RunType]
      BY <1>0 DEF Shape, StoredOK
    <3> HIDE DEF r
    <3> QED BY <1>2, <2>1, <2>2, <3>1 DEF ConsentPrior
  <2>5. Waits(s)
    BY <2>2, <2>4 DEF Waits, stored
  <2> QED
    BY <2>2, <2>3, <2>5, StillWrites, Unpromised DEF Local, stored
<1>3. CASE ConsentPriorFails(s)
  BY <1>0, <1>3, FinishLocal, StillWrites DEF Local, ConsentPriorFails, stored
<1>4. CASE ConsentRecord(s)
  <2>1. /\ Goto(s, "audit") /\ UNCHANGED <<run, zcap, held>>
        /\ WriteEntry(run[s].party,
             RecordGrants(entry[run[s].party], run[s].zcaps, run[s].seed))
        /\ pc[s] # "idle"
    BY <1>4 DEF ConsentRecord
  <2>2. Elsewhere(s) /\ Remembers(s) /\ pc'[s] = "audit"
    BY <1>0, <2>1, GotoLocal
  <2>3. entry'[run[s].party].grants = entry[run[s].party].grants \cup run[s].zcaps
    BY <1>0, <1>p, <2>1 DEF Shape, StoredOK, WriteEntry, RecordGrants, EntryType
  <2>4. Tends(s)
    BY <1>0, <1>4, <1>p, <2>1, HelperTended, WriteTends DEF ConsentRecord
  <2>5. RecordedBy(s)'
    BY <2>1, <2>3 DEF IndexInv, Own, RecordedBy
  <2> QED
    BY <2>1, <2>2, <2>4, <2>5, StillWrites, Unpromised DEF Local
<1>5. CASE ConsentRecordFails(s)
  <2>1. /\ Goto(s, "rollback") /\ UNCHANGED <<run, zcap, held>>
        /\ \/ UNCHANGED entry
           \/ WriteEntry(run[s].party,
                RecordGrants(entry[run[s].party], run[s].zcaps, run[s].seed))
        /\ pc[s] # "idle"
    BY <1>5 DEF ConsentRecordFails
  <2>2. Elsewhere(s) /\ Remembers(s) /\ pc'[s] = "rollback"
    BY <1>0, <2>1, GotoLocal
  <2>3. Tends(s)
    BY <1>0, <1>5, <1>p, <2>1, HelperTended, WriteTends, StillWrites
    DEF ConsentRecordFails
  <2> QED
    BY <2>1, <2>2, <2>3, StillWrites, Unpromised DEF Local
<1>6. CASE ConsentAudit(s)
  <2> DEFINE r == [run[s] EXCEPT !.audited = TRUE]
  <2>1. r.zcaps = run[s].zcaps /\ r.party = run[s].party /\ r.seen = run[s].seen
    BY <1>r DEF RunType
  <2>2. /\ run' = [run EXCEPT ![s] = r] /\ Goto(s, "escrow") /\ pc[s] = "audit"
        /\ UNCHANGED <<entry, zcap, held>>
    BY <1>6 DEF ConsentAudit
  <2>3. Elsewhere(s) /\ Remembers(s) /\ pc'[s] = "escrow" /\ run'[s].zcaps = r.zcaps
    <3> HIDE DEF r
    <3> QED BY <1>0, <2>1, <2>2, RunLocal DEF Shape, StoredOK
  <2>4. RecordedBy(s)'
    BY <1>0, <2>1, <2>2, <2>3 DEF RecordedBy
  <2> QED
    BY <2>2, <2>3, <2>4, StillWrites, Unpromised DEF Local
<1>7. CASE ConsentAuditFails(s)
  <2>1. /\ Goto(s, "escrow") \/ Goto(s, "rollback")
        /\ UNCHANGED <<entry, run, zcap, held>> /\ pc[s] = "audit"
    BY <1>7 DEF ConsentAuditFails
  <2>2. Elsewhere(s) /\ Remembers(s) /\ pc'[s] \in {"escrow", "rollback"}
    BY <1>0, <2>1, GotoLocal
  <2>3. RecordedBy(s)'
    BY <1>0, <2>1 DEF RecordedBy
  <2> QED
    BY <2>1, <2>2, <2>3, StillWrites, Unpromised DEF Local
<1>8. ASSUME NEW c \in Collections, ConsentCreate(s, c)
      PROVE  Local(s)
  <2>1. UNCHANGED <<entry, run, pc, zcap, held>> /\ pc[s] = "escrow"
    BY <1>8 DEF ConsentCreate
  <2>2. Elsewhere(s) /\ Remembers(s) /\ RecordedBy(s)'
    BY <1>0, <2>1 DEF Elsewhere, Remembers, RecordedBy
  <2> QED
    BY <2>1, <2>2, StillWrites, Unpromised DEF Local
<1>9. ASSUME NEW c \in Collections, ConsentEscrow(s, c)
      PROVE  Local(s)
  <2>1. PICK G \in SUBSET run[s].zcaps :
          run' = [run EXCEPT ![s] = [run[s] EXCEPT !.escrowed = @ \cup G]]
    BY <1>9 DEF ConsentEscrow
  <2> DEFINE r == [run[s] EXCEPT !.escrowed = @ \cup G]
  <2>2. r.zcaps = run[s].zcaps /\ r.party = run[s].party /\ r.seen = run[s].seen
    BY <1>r DEF RunType
  <2>3. UNCHANGED <<entry, pc, zcap, held>> /\ pc[s] = "escrow"
    BY <1>9 DEF ConsentEscrow
  <2>4. /\ Elsewhere(s) /\ Remembers(s) /\ pc'[s] = "escrow"
        /\ run'[s].zcaps = r.zcaps
    <3>1. run' = [run EXCEPT ![s] = r]
      BY <2>1
    <3> HIDE DEF r
    <3> QED BY <1>0, <2>2, <2>3, <3>1, RunLocal DEF Shape, StoredOK
  <2>5. RecordedBy(s)'
    BY <1>0, <2>2, <2>3, <2>4 DEF RecordedBy
  <2> QED
    BY <2>3, <2>4, <2>5, StillWrites, Unpromised DEF Local
<1>10. ASSUME NEW c \in Collections, ConsentEscrowFails(s, c)
       PROVE  Local(s)
  <2>1. PICK G \in SUBSET run[s].zcaps :
          \/ run' = [run EXCEPT ![s] = [run[s] EXCEPT !.escrowed = @ \cup G]]
          \/ UNCHANGED run
    BY <1>10 DEF ConsentEscrowFails
  <2> DEFINE r == [run[s] EXCEPT !.escrowed = @ \cup G]
  <2>2. r.zcaps = run[s].zcaps /\ r.party = run[s].party /\ r.seen = run[s].seen
    BY <1>r DEF RunType
  <2>3. UNCHANGED <<entry, zcap, held>> /\ Goto(s, "rollback")
    BY <1>10 DEF ConsentEscrowFails
  <2>4. Elsewhere(s) /\ Remembers(s) /\ pc'[s] = "rollback"
    <3>1. run' = [run EXCEPT ![s] = r] \/ UNCHANGED run
      BY <2>1
    <3> HIDE DEF r
    <3> QED BY <1>0, <2>2, <2>3, <3>1, RunLocal, GotoLocal
  <2> QED
    BY <2>3, <2>4, StillWrites, Unpromised DEF Local
<1>12. CASE ConsentUndelivered(s)
  BY <1>0, <1>12, FinishLocal, StillWrites DEF Local, ConsentUndelivered, stored
<1>13. CASE ConsentComposeFails(s)
  BY <1>0, <1>13, GotoLocal, StillWrites, Unpromised DEF Local, ConsentComposeFails, stored
<1>14. CASE RollbackRemove(s)
  <2>1. /\ Goto(s, "reretire") \/ Goto(s, "unaudit")
        /\ UNCHANGED <<run, zcap, held>>
        /\ pc[s] = "rollback"
        /\ \/ entry' = entry
           \/ WriteEntry(run[s].party, RemoveGrants(entry[run[s].party],
                           run[s].zcaps \ run[s].escrowed))
    BY <1>14 DEF RollbackRemove, WriteEntry
  <2>2. Elsewhere(s) /\ Remembers(s) /\ pc'[s] \in {"reretire", "unaudit"}
    BY <1>0, <2>1, GotoLocal
  <2>3. Tends(s)
    BY <1>0, <1>p, <2>1, HelperTended, WriteTends, StillWrites DEF Released
  <2> QED
    BY <2>1, <2>2, <2>3, StillWrites, Unpromised DEF Local
<1>15. CASE RollbackRetire(s)
  <2>1. /\ Goto(s, "unaudit")
        /\ UNCHANGED <<run, zcap, held>>
        /\ pc[s] = "reretire"
        /\ \/ UNCHANGED entry
           \/ /\ MayRetire(entry[run[s].party], run[s].zcaps)
              /\ WriteEntry(run[s].party, RetireConnection(entry[run[s].party]))
    BY <1>15 DEF RollbackRetire
  <2>2. Elsewhere(s) /\ Remembers(s) /\ pc'[s] = "unaudit"
    BY <1>0, <2>1, GotoLocal
  <2>3. Tends(s)
    BY <1>0, <1>p, <2>1, HelperTended, WriteTends, StillWrites
    DEF MayRetire, Released
  <2> QED
    BY <2>1, <2>2, <2>3, StillWrites, Unpromised DEF Local
<1>16. CASE RollbackAudit(s)
  BY <1>0, <1>16, FinishLocal, StillWrites DEF Local, RollbackAudit
<1> QED
  BY <1>2, <1>3, <1>4, <1>5, <1>6, <1>7, <1>8, <1>9, <1>10, <1>12, <1>13, <1>14,
     <1>15, <1>16 DEF ConsentStep

\* A consent step keeps the invariant.
LEMMA ConsentIndex ==
  ASSUME ConnectionsAssumption, IndexInv, NEW s \in Sessions, ConsentStep(s)
  PROVE  IndexInv'
<1>0. Shape /\ RecordedBy(s)
  BY DEF IndexInv
<1>t. Shape'
  BY <1>0, ConsentType
<1>r. run[s] \in RunType /\ run[s].zcaps \in SUBSET Grants
  BY <1>0 DEF Shape, StoredOK, RunType
<1>1. ASSUME NEW p \in Parties, NEW G \in SUBSET Grants, ConsentStart(s, p, G)
      PROVE  IndexInv'
  <2>1. /\ \A g \in G : Grantee[g] = p /\ zcap[g] = "unsigned"
        /\ \A g \in Grants : zcap'[g] = IF g \in G THEN "live" ELSE zcap[g]
        /\ UNCHANGED <<entry, held>>
    BY <1>1 DEF ConsentStart, Sign
  <2>2. /\ run'[s].zcaps = G /\ run'[s].party = p
        /\ run'[s].seen = NoListing
        /\ pc'[s] = "prior"
        /\ Elsewhere(s)
    BY <1>0, <1>1 DEF ConsentStart, Shape, StoredOK, NoRun, Goto, Elsewhere
  <2>3. Signed'
    BY <2>1, <2>2 DEF IndexInv, Signed, Elsewhere, NoListing
  <2>4. Own'
    <3>1. \A g \in G : g \notin held /\ \A t \in Sessions : g \notin run[t].zcaps
      BY <2>1 DEF IndexInv, Signed
    <3> QED
      BY <2>1, <2>2, <3>1 DEF IndexInv, Own, Elsewhere
  <2>5. Indexed'
    BY <1>0, <2>1 DEF IndexInv, Indexed, Signed, Shape, StoredOK
  <2>6. ASSUME NEW t \in Sessions PROVE RecordedBy(t)' /\ HandledBy(t)'
    <3>1. CASE t = s
      BY <2>2, <3>1 DEF RecordedBy, HandledBy
    <3>2. CASE t # s
      <4>1. run'[t] = run[t] /\ pc'[t] = pc[t] /\ RecordedBy(t) /\ HandledBy(t)
        BY <2>2, <3>2 DEF Elsewhere, IndexInv
      <4>2. \A g \in Grants : g \in G => g \notin run[t].zcaps
        BY <2>1 DEF IndexInv, Signed
      <4>3. run[t].zcaps \in SUBSET Grants
        BY <1>0 DEF Shape, StoredOK, RunType
      <4>4. RecordedBy(t)'
        BY <2>1, <4>1, <4>2, <4>3 DEF RecordedBy
      <4>5. \A g \in Grants : zcap[g] = "dead" => zcap'[g] = "dead"
        BY <2>1
      <4>6. /\ \A q \in Parties : run[t].seen[q] \in SUBSET Grants
            /\ pc[t] # "idle" => run[t].party \in Parties
        BY <1>0 DEF Shape, StoredOK, RunType
      <4>7. HandledBy(t)'
        BY <4>1, <4>5, <4>6 DEF HandledBy, Unshared
      <4> QED
        BY <4>4, <4>7
    <3> QED
      BY <3>1, <3>2
  <2> QED
    BY <1>t, <2>3, <2>4, <2>5, <2>6 DEF IndexInv
<1>2. CASE ConsentDeliver(s)
  <2>1. /\ held' = held \cup run[s].zcaps /\ UNCHANGED <<entry, zcap>>
        /\ Finish(s) /\ pc[s] = "escrow"
    BY <1>2 DEF ConsentDeliver
  <2>2. /\ Elsewhere(s) /\ Remembers(s) /\ RecordedBy(s)' /\ HandledBy(s)'
        /\ run'[s] = NoRun
    BY <1>0, <2>1, FinishLocal DEF Finish, Shape, StoredOK
  <2>3. Signed'
    BY <1>r, <2>1, <2>2 DEF IndexInv, Signed, Elsewhere, Remembers
  <2>4. Own'
    BY <2>1, <2>2 DEF IndexInv, Own, Elsewhere, NoRun
  <2>5. Indexed'
    BY <1>0, <2>1 DEF IndexInv, Indexed, RecordedBy
  <2>6. ASSUME NEW t \in Sessions, t # s PROVE RecordedBy(t)' /\ HandledBy(t)'
    BY <2>1, <2>2, <2>6 DEF IndexInv, Elsewhere, RecordedBy, HandledBy, Unshared
  <2> QED
    BY <1>t, <2>2, <2>3, <2>4, <2>5, <2>6 DEF IndexInv
<1> QED
  BY <1>t, <1>1, <1>2, ConsentLocal, LocalStep

\* A revocation step is local.
LEMMA RevocationLocal ==
  ASSUME IndexInv, NEW s \in Sessions, RevocationStep(s)
  PROVE  Local(s)
<1>0. Shape /\ HandledBy(s)
  BY DEF IndexInv
<1>r. run[s] \in RunType /\ run[s].seen \in [Parties -> SUBSET Grants]
  BY <1>0 DEF Shape, StoredOK, RunType
<1>p. ASSUME pc[s] # "idle"
      PROVE  run[s].party \in Parties /\ entry[run[s].party] \in EntryType
  BY <1>p, <1>0 DEF Shape, StoredOK
<1>1. ASSUME NEW p \in Parties, DisconnectClearChannel(s, p)
      PROVE  Local(s)
  <2> DEFINE r == [NoRun EXCEPT !.party = p]
             e == ClearReceivedGrants(entry[p])
  <2>1. r.zcaps = {} /\ r.seen = NoListing
    BY DEF NoRun
  <2>2. Tended(s, p, e)
    BY <1>0, HelperTended DEF Shape, StoredOK
  <2>3. /\ run' = [run EXCEPT ![s] = r] /\ Goto(s, "read") /\ WriteEntry(p, e)
        /\ UNCHANGED <<zcap, held>>
    BY <1>1 DEF DisconnectClearChannel
  <2>4. Elsewhere(s) /\ Remembers(s) /\ pc'[s] = "read" /\ Tends(s)
    <3> HIDE DEF r, e
    <3>1. Elsewhere(s) /\ Remembers(s) /\ pc'[s] = "read"
      BY <1>0, <2>1, <2>3, RunLocal DEF NoListing
    <3>2. Tends(s)
      BY <1>0, <2>2, <2>3, WriteTends
    <3> QED BY <3>1, <3>2
  <2> QED
    BY <2>3, <2>4, StillWrites, Unpromised DEF Local
<1>2. ASSUME NEW p \in Parties, DisconnectApp(s, p)
      PROVE  Local(s)
  <2> DEFINE r == [NoRun EXCEPT !.party = p]
  <2>1. r.zcaps = {} /\ r.seen = NoListing
    BY DEF NoRun
  <2>2. run' = [run EXCEPT ![s] = r] /\ Goto(s, "read") /\ UNCHANGED stored
    BY <1>2 DEF DisconnectApp
  <2>3. Elsewhere(s) /\ Remembers(s) /\ pc'[s] = "read"
    <3> HIDE DEF r
    <3> QED BY <1>0, <2>1, <2>2, RunLocal DEF NoListing
  <2> QED
    BY <2>2, <2>3, StillWrites, Unpromised DEF Local, stored
<1>3. CASE DisconnectRead(s)
  <2>1. PICK listed \in BOOLEAN :
          run' = [run EXCEPT ![s].seen = Listing,
                             ![s].todo = Candidates(run[s].party, Listing, listed),
                             ![s].failed = ~listed]
    BY <1>3 DEF DisconnectRead
  <2> DEFINE todo == Candidates(run[s].party, Listing, listed)
             r == [run[s] EXCEPT !.seen = Listing, !.todo = todo, !.failed = ~listed]
  <2>2. r.zcaps = run[s].zcaps /\ r.party = run[s].party /\ r.seen = Listing
    <3> HIDE DEF todo
    <3> QED BY <1>r DEF RunType
  <2>3. run' = [run EXCEPT ![s] = r] /\ Goto(s, "rotate") /\ UNCHANGED stored
    BY <1>3, <2>1 DEF DisconnectRead
  <2>4. Elsewhere(s) /\ Remembers(s) /\ pc'[s] = "rotate"
    <3>1. \A p \in Parties : r.seen[p] \subseteq entry[p].grants
      <4> HIDE DEF r
      <4> QED BY <2>2 DEF Listing
    <3> HIDE DEF r
    <3> QED BY <1>0, <2>2, <2>3, <3>1, RunLocal
  <2> QED
    BY <2>3, <2>4, StillWrites, Unpromised DEF Local, stored
<1>4. ASSUME NEW c \in Collections, DisconnectRotate(s, c)
      PROVE  Local(s)
  <2> DEFINE r == [run[s] EXCEPT !.todo = @ \ {c}]
  <2>1. r.zcaps = run[s].zcaps /\ r.party = run[s].party /\ r.seen = run[s].seen
    BY <1>r DEF RunType
  <2>2. /\ run' = [run EXCEPT ![s] = r] /\ UNCHANGED <<entry, held, pc>>
        /\ pc[s] = "rotate"
    BY <1>4 DEF DisconnectRotate
  <2>3. Elsewhere(s) /\ Remembers(s) /\ pc'[s] = "rotate"
    <3> HIDE DEF r
    <3> QED BY <1>0, <2>1, <2>2, RunLocal
  <2>4. Fades
    BY <1>0, <1>4, Revoked, StillWrites DEF DisconnectRotate
  <2> QED
    BY <2>2, <2>3, <2>4, StillWrites, Unpromised DEF Local
<1>5. ASSUME NEW c \in Collections, DisconnectRotateFails(s, c)
      PROVE  Local(s)
  <2> DEFINE r == [run[s] EXCEPT !.todo = @ \ {c}, !.failed = TRUE]
  <2>1. r.zcaps = run[s].zcaps /\ r.party = run[s].party /\ r.seen = run[s].seen
    BY <1>r DEF RunType
  <2>2. /\ run' = [run EXCEPT ![s] = r] /\ UNCHANGED <<entry, zcap, held, pc>>
        /\ pc[s] = "rotate"
    BY <1>5 DEF DisconnectRotateFails
  <2>3. Elsewhere(s) /\ Remembers(s) /\ pc'[s] = "rotate"
    <3> HIDE DEF r
    <3> QED BY <1>0, <2>1, <2>2, RunLocal
  <2> QED
    BY <2>2, <2>3, StillWrites, Unpromised DEF Local
<1>6. CASE DisconnectPost(s)
  <2>1. /\ pc[s] = "rotate" /\ UNCHANGED <<entry, held, run>>
        /\ Revoke(Live(run[s].seen[run[s].party]))
        /\ Goto(s, "delkey") \/ Goto(s, "retire")
    BY <1>6 DEF DisconnectPost
  <2>2. Elsewhere(s) /\ Remembers(s) /\ pc'[s] \in {"delkey", "retire"}
    BY <1>0, <2>1, GotoLocal
  <2>3. /\ Fades
        /\ \A g \in Grants : g \in run[s].seen[run[s].party] /\ zcap[g] # "unsigned"
             => zcap'[g] = "dead"
    BY <1>0, <2>1, Revoked
  <2>4. HandledBy(s)'
    BY <1>p, <1>r, <2>1, <2>2, <2>3 DEF IndexInv, Signed, HandledBy
  <2> QED
    BY <2>1, <2>2, <2>3, <2>4, StillWrites, Unpromised DEF Local
<1>7. CASE DisconnectPostFails(s)
  <2>1. Fades
    BY <1>0, <1>7, Revoked DEF DisconnectPostFails
  <2> QED
    BY <1>0, <1>7, <2>1, FinishLocal, StillWrites DEF Local, DisconnectPostFails
<1>8. CASE DisconnectDeleteKey(s)
  <2>1. /\ pc[s] = "delkey" /\ UNCHANGED <<entry, held, run, zcap>>
        /\ Goto(s, "retire")
    BY <1>8 DEF DisconnectDeleteKey
  <2>2. Elsewhere(s) /\ Remembers(s) /\ pc'[s] = "retire"
    BY <1>0, <2>1, GotoLocal
  <2>3. HandledBy(s)'
    BY <1>0, <2>1, <2>2 DEF HandledBy
  <2> QED
    BY <2>1, <2>2, <2>3, StillWrites, Unpromised DEF Local
<1>9. CASE DisconnectDeleteKeyFails(s)
  BY <1>0, <1>9, FinishLocal, StillWrites DEF Local, DisconnectDeleteKeyFails
<1>10. CASE DisconnectRetire(s)
  <2> DEFINE e == RetireConnection(entry[run[s].party])
  <2>1. /\ pc[s] = "retire" /\ WriteEntry(run[s].party, e) /\ UNCHANGED <<zcap, held>>
        /\ entry[run[s].party].grants \subseteq run[s].seen[run[s].party]
        /\ Finish(s)
    BY <1>10 DEF DisconnectRetire, MayRetire
  <2>2. \A g \in entry[run[s].party].grants : zcap[g] = "dead"
    BY <1>0, <2>1 DEF HandledBy
  <2>3. Tended(s, run[s].party, e)
    BY <1>p, <2>1, <2>2, HelperTended
  <2>4. Tends(s)
    <3> HIDE DEF e
    <3> QED BY <1>0, <1>p, <2>1, <2>3, WriteTends
  <2> QED
    BY <1>0, <2>1, <2>4, FinishLocal, StillWrites DEF Local
<1>11. CASE DisconnectRetireFails(s)
  BY <1>0, <1>11, FinishLocal, StillWrites DEF Local, DisconnectRetireFails, stored
<1>12. ASSUME NEW p \in Parties, NEW c \in Shared, UnshareStart(s, p, c)
       PROVE  Local(s)
  <2> DEFINE r == [NoRun EXCEPT !.party = p, !.seen = Listing, !.todo = {c}]
  <2>1. r.zcaps = {} /\ r.seen = Listing
    BY DEF NoRun
  <2>2. run' = [run EXCEPT ![s] = r] /\ Goto(s, "unrotate") /\ UNCHANGED stored
    BY <1>12 DEF UnshareStart
  <2>3. Elsewhere(s) /\ Remembers(s) /\ pc'[s] = "unrotate"
    <3> HIDE DEF r
    <3> QED BY <1>0, <2>1, <2>2, RunLocal DEF Listing
  <2> QED
    BY <2>2, <2>3, StillWrites, Unpromised DEF Local, stored
<1>13. ASSUME NEW c \in Collections, UnshareRotate(s, c)
       PROVE  Local(s)
  <2>1. /\ pc[s] = "unrotate" /\ UNCHANGED <<entry, held, run>>
        /\ Revoke(Live(Unshared(s))) /\ Goto(s, "ungrant")
    BY <1>13 DEF UnshareRotate
  <2>2. Elsewhere(s) /\ Remembers(s) /\ pc'[s] = "ungrant"
    BY <1>0, <2>1, GotoLocal
  <2>3. /\ Fades
        /\ \A g \in Grants : g \in Unshared(s) /\ zcap[g] # "unsigned"
             => zcap'[g] = "dead"
    BY <1>0, <2>1, Revoked
  <2>4. HandledBy(s)'
    <3>1. \A g \in Unshared(s) : g \in Grants /\ zcap[g] # "unsigned"
      BY <1>p, <1>r, <2>1 DEF IndexInv, Signed, Unshared
    <3>2. Unshared(s)' = Unshared(s)
      BY <2>1 DEF Unshared
    <3> QED
      BY <2>2, <2>3, <3>1, <3>2 DEF HandledBy
  <2> QED
    BY <2>1, <2>2, <2>3, <2>4, StillWrites, Unpromised DEF Local
<1>14. ASSUME NEW c \in Collections, UnshareRotateFails(s, c)
       PROVE  Local(s)
  <2>1. Fades
    BY <1>0, <1>14, Revoked, StillWrites DEF UnshareRotateFails
  <2> QED
    BY <1>0, <1>14, <2>1, FinishLocal, StillWrites DEF Local, UnshareRotateFails
<1>15. CASE UnshareRemove(s)
  <2> DEFINE e == RemoveGrants(entry[run[s].party], Unshared(s))
  <2>1. /\ pc[s] = "ungrant" /\ UNCHANGED <<zcap, held>> /\ Finish(s)
        /\ WriteEntry(run[s].party, e) \/ UNCHANGED entry
    BY <1>15 DEF UnshareRemove
  <2>2. \A g \in Unshared(s) : zcap[g] = "dead"
    BY <1>0, <2>1 DEF HandledBy
  <2>3. Tended(s, run[s].party, e)
    BY <1>p, <2>1, <2>2, HelperTended
  <2>4. Tends(s)
    <3> HIDE DEF e
    <3> QED BY <1>0, <1>p, <2>1, <2>3, WriteTends, StillWrites
  <2> QED
    BY <1>0, <2>1, <2>4, FinishLocal, StillWrites DEF Local
<1> QED
  BY <1>1, <1>2, <1>3, <1>4, <1>5, <1>6, <1>7, <1>8, <1>9, <1>10, <1>11, <1>12,
     <1>13, <1>14, <1>15 DEF RevocationStep

\* A revocation step keeps the invariant.
LEMMA RevocationIndex ==
  ASSUME ConnectionsAssumption, IndexInv, NEW s \in Sessions, RevocationStep(s)
  PROVE  IndexInv'
<1>1. Shape'
  BY RevocationType DEF IndexInv
<1> QED
  BY <1>1, RevocationLocal, LocalStep

\* The invariant is inductive.
LEMMA IndexInductive ==
  ASSUME ConnectionsAssumption, IndexInv, [Next]_vars
  PROVE  IndexInv'
<1>0. Shape
  BY DEF IndexInv
<1>1. ASSUME NEW s \in Sessions, ConsentStep(s) PROVE IndexInv'
  BY <1>1, ConsentIndex
<1>2. ASSUME NEW s \in Sessions, RevocationStep(s) PROVE IndexInv'
  BY <1>2, RevocationIndex
<1>3. ASSUME NEW s \in Sessions, Crash(s) PROVE IndexInv'
  <2>1. Shape'
    BY <1>0, <1>3, FinishTyped, TypeParts, TypePrimed
    DEF Crash, stored, EntryOK, RestOK
  <2> QED
    BY <1>0, <1>3, <2>1, FinishLocal, StillWrites, LocalStep
    DEF Local, Crash, stored
<1>4. ASSUME NEW g \in Grants, Lapse(g) PROVE IndexInv'
  <2>1. Shape'
    BY <1>0, <1>4 DEF Lapse, Shape, StoredOK
  <2>2. /\ zcap[g] = "live" /\ zcap' = [zcap EXCEPT ![g] = "dead"]
        /\ UNCHANGED <<entry, held, pc, run>>
    BY <1>4 DEF Lapse
  <2>3. Signed' /\ Own' /\ Indexed'
    BY <1>0, <2>2 DEF IndexInv, Signed, Own, Indexed, Shape, StoredOK
  <2>4. ASSUME NEW s \in Sessions PROVE RecordedBy(s)' /\ HandledBy(s)'
    BY <1>0, <2>2
    DEF IndexInv, RecordedBy, HandledBy, Unshared, Shape, StoredOK, RunType
  <2> QED
    BY <2>1, <2>3, <2>4 DEF IndexInv
<1>5. CASE UNCHANGED vars
  BY <1>5
  DEF vars, IndexInv, Shape, StoredOK, Signed, Own, Indexed, RecordedBy,
      HandledBy, Unshared
<1> QED
  BY <1>1, <1>2, <1>3, <1>4, <1>5 DEF Next

\* The first state satisfies the invariant.
LEMMA IndexInit == Init => IndexInv
  BY InitType
  DEF Init, IndexInv, Signed, Own, Indexed, RecordedBy, HandledBy, NoRun,
      NoListing, AbsentEntry

\* The inductive invariant holds of every behaviour: what is recorded was signed,
\* a consent alone holds its capabilities until it hands them over, each one
\* handed over and alive is recorded, and a disconnect empties an entry only of
\* capabilities it has seen dead.
THEOREM IndexSafety == Spec => []IndexInv
  BY ConnectionsAssumption, IndexInit, IndexInductive, PTL DEF Spec

\* A capability some party was handed, and that still verifies, stands on the
\* party's listed entry, whatever ceremonies run at the same time.
THEOREM HeldIsListedSafety == Spec => []HeldIsListed
<1>1. IndexInv => HeldIsListed
  BY ConnectionsAssumption
  DEF IndexInv, Shape, StoredOK, Indexed, HeldIsListed, IsListed,
      ConnectionsAssumption
<1> QED
  BY <1>1, IndexSafety, PTL

-----------------------------------------------------------------------------
\* The ceremonies implement the grant index.

Found == {g \in Grants : g \in entry[Grantee[g]].grants}

Dead == {g \in Grants : zcap[g] = "dead"}

LEMMA IndexStart ==
  ASSUME ConnectionsAssumption
  PROVE  Init => Index!Init
BY DEF Init, Index!Init, AbsentEntry, ConnectionsAssumption

\* A step that leaves the recorded grants and what was handed over alone.
LEMMA KillStep ==
  ASSUME ConnectionsAssumption, held' = held,
         \A p \in Parties : entry'[p].grants = entry[p].grants,
         \A g \in Grants : zcap[g] = "dead" => zcap'[g] = "dead"
  PROVE  Index!Next
<1>1. Found' = Found
  BY DEF Found, ConnectionsAssumption
<1>2. Dead \subseteq Dead' /\ Dead' \in SUBSET Grants
  BY DEF Dead
<1>3. PICK K \in SUBSET Grants : K = Dead' \ Dead
  BY <1>2
<1>4. Index!Kill(K)
  BY <1>1, <1>2, <1>3 DEF Index!Kill, Found, Dead
<1> QED
  BY <1>4 DEF Index!Next

\* A step that records grants.
LEMMA RecordStep ==
  ASSUME ConnectionsAssumption, held' = held,
         \A g \in Grants : zcap[g] = "dead" <=> zcap'[g] = "dead",
         \A p \in Parties : entry[p].grants \subseteq entry'[p].grants
  PROVE  Index!Next
<1>1. Found \subseteq Found' /\ Found' \in SUBSET Grants /\ Dead' = Dead
  BY DEF Found, Dead, ConnectionsAssumption
<1>2. PICK K \in SUBSET Grants : K = Found' \ Found
  BY <1>1
<1>3. Index!Record(K)
  BY <1>1, <1>2 DEF Index!Record, Found, Dead
<1> QED
  BY <1>3 DEF Index!Next

\* A step that removes grants that are dead, or that nobody was handed.
LEMMA RemoveStep ==
  ASSUME ConnectionsAssumption, held' = held, zcap' = zcap,
         \A p \in Parties :
           /\ entry'[p].grants \subseteq entry[p].grants
           /\ \A g \in entry[p].grants \ entry'[p].grants :
                zcap[g] = "dead" \/ g \notin held
  PROVE  Index!Next
<1>1. /\ Found' \subseteq Found /\ Found \in SUBSET Grants
      /\ (Found \ Found') \cap held \subseteq Dead
  BY DEF Found, Dead, ConnectionsAssumption
<1>2. PICK K \in SUBSET Grants : K = Found \ Found'
  BY <1>1
<1>3. Index!Remove(K)
  BY <1>1, <1>2 DEF Index!Remove, Found, Dead
<1> QED
  BY <1>3 DEF Index!Next

\* A step that tends entries without recording anything removes only what it may.
LEMMA TendedStep ==
  ASSUME ConnectionsAssumption, IndexInv, NEW s \in Sessions, NEW p \in Parties,
         NEW e, WriteEntry(p, e), held' = held, zcap' = zcap,
         e.grants \subseteq entry[p].grants,
         \A g \in entry[p].grants \ e.grants :
           zcap[g] = "dead" \/ g \in run[s].zcaps
  PROVE  Index!Next
<1>1. \A q \in Parties : entry'[q] = IF q = p THEN e ELSE entry[q]
  BY DEF IndexInv, Shape, StoredOK, WriteEntry
<1>2. \A g \in run[s].zcaps : g \notin held
  BY DEF IndexInv, Own
<1> QED
  BY <1>1, <1>2, RemoveStep

\* A consent step is a step of the grant index.
LEMMA ConsentRefines ==
  ASSUME ConnectionsAssumption, IndexInv, NEW s \in Sessions, ConsentStep(s)
  PROVE  Index!Next
<1>0. Shape
  BY DEF IndexInv
<1>p. ASSUME pc[s] # "idle"
      PROVE  run[s].party \in Parties /\ entry[run[s].party] \in EntryType
  BY <1>p, <1>0 DEF Shape, StoredOK
<1>1. ASSUME NEW p \in Parties, NEW G \in SUBSET Grants, ConsentStart(s, p, G)
      PROVE  Index!Next
  <2>1. /\ UNCHANGED <<entry, held>>
        /\ \A g \in Grants : zcap[g] = "dead" => zcap'[g] = "dead"
    BY <1>1 DEF ConsentStart, Sign
  <2> QED
    BY <2>1, KillStep
\* The steps that touch neither the entries nor the capabilities.
<1>2. ASSUME UNCHANGED <<entry, zcap, held>> PROVE Index!Next
  BY <1>2, KillStep
<1>3. ASSUME \/ ConsentPrior(s) \/ ConsentPriorFails(s) \/ ConsentAudit(s)
             \/ ConsentAuditFails(s) \/ ConsentUndelivered(s)
             \/ ConsentComposeFails(s) \/ RollbackAudit(s)
             \/ \E c \in Collections : \/ ConsentCreate(s, c)
                                       \/ ConsentEscrow(s, c)
                                       \/ ConsentEscrowFails(s, c)
      PROVE  Index!Next
  <2>1. UNCHANGED <<entry, zcap, held>>
    BY <1>3
    DEF ConsentPrior, ConsentPriorFails, ConsentAudit, ConsentAuditFails,
        ConsentUndelivered, ConsentComposeFails, RollbackAudit, ConsentCreate,
        ConsentEscrow, ConsentEscrowFails, stored
  <2> QED
    BY <1>2, <2>1
<1>4. CASE ConsentRecord(s) \/ ConsentRecordFails(s)
  <2> DEFINE e == RecordGrants(entry[run[s].party], run[s].zcaps, run[s].seed)
  <2>1. /\ UNCHANGED entry \/ WriteEntry(run[s].party, e)
        /\ UNCHANGED <<zcap, held>> /\ pc[s] # "idle"
    BY <1>4 DEF ConsentRecord, ConsentRecordFails
  <2>2. entry[run[s].party].grants \subseteq e.grants
    BY <1>p, <2>1 DEF RecordGrants, EntryType
  <2>3. CASE WriteEntry(run[s].party, e)
    <3> HIDE DEF e
    <3>1. \A q \in Parties :
            entry'[q] = IF q = run[s].party THEN e ELSE entry[q]
      BY <1>0, <2>3 DEF Shape, StoredOK, WriteEntry
    <3> QED
      BY <2>1, <2>2, <3>1, RecordStep
  <2> QED
    BY <1>2, <2>1, <2>3
<1>5. CASE ConsentDeliver(s)
  <2>1. /\ held' = held \cup run[s].zcaps /\ UNCHANGED <<entry, zcap>>
        /\ pc[s] = "escrow"
    BY <1>5 DEF ConsentDeliver
  <2>2. run[s].zcaps \in SUBSET Grants
    BY <1>0 DEF Shape, StoredOK, RunType
  <2>3. run[s].zcaps \ Dead \subseteq Found
    BY <1>0, <2>1, <2>2
    DEF IndexInv, RecordedBy, Own, Signed, Found, Dead, Shape, StoredOK
  <2>4. Index!Deliver(run[s].zcaps)
    BY <2>1, <2>3 DEF Index!Deliver, Found, Dead
  <2> QED
    BY <2>2, <2>4 DEF Index!Next
<1>6. CASE RollbackRemove(s)
  <2> DEFINE e == RemoveGrants(entry[run[s].party], run[s].zcaps \ run[s].escrowed)
  <2>1. /\ entry' = entry \/ WriteEntry(run[s].party, e)
        /\ UNCHANGED <<zcap, held>> /\ pc[s] # "idle"
    BY <1>6 DEF RollbackRemove, WriteEntry
  <2>2. e.grants = entry[run[s].party].grants \ (run[s].zcaps \ run[s].escrowed)
    BY <1>p, <2>1 DEF RemoveGrants, EntryType
  <2>3. CASE WriteEntry(run[s].party, e)
    <3> HIDE DEF e
    <3> QED BY <1>p, <2>1, <2>2, <2>3, TendedStep
  <2> QED
    BY <1>2, <2>1, <2>3
<1>7. CASE RollbackRetire(s)
  <2> DEFINE e == RetireConnection(entry[run[s].party])
  <2>1. /\ \/ UNCHANGED entry
           \/ /\ WriteEntry(run[s].party, e)
              /\ entry[run[s].party].grants \subseteq run[s].zcaps
        /\ UNCHANGED <<zcap, held>> /\ pc[s] # "idle"
    BY <1>7 DEF RollbackRetire, MayRetire
  <2>2. e.grants \subseteq {}
    BY <1>0, <1>p, <2>1 DEF Shape, StoredOK, RetireConnection, EntryType
  <2> HIDE DEF e
  <2> QED
    BY <1>2, <1>p, <2>1, <2>2, TendedStep
<1> QED
  BY <1>1, <1>3, <1>4, <1>5, <1>6, <1>7 DEF ConsentStep

\* A revocation step is a step of the grant index.
LEMMA RevocationRefines ==
  ASSUME ConnectionsAssumption, IndexInv, NEW s \in Sessions, RevocationStep(s)
  PROVE  Index!Next
<1>0. Shape /\ HandledBy(s)
  BY DEF IndexInv
<1>p. ASSUME pc[s] # "idle"
      PROVE  run[s].party \in Parties /\ entry[run[s].party] \in EntryType
  BY <1>p, <1>0 DEF Shape, StoredOK
<1>1. ASSUME UNCHANGED <<entry, zcap, held>> PROVE Index!Next
  BY <1>1, KillStep
\* The steps that only revoke.
<1>2. ASSUME NEW G, NEW H \in SUBSET Live(G), Revoke(H), UNCHANGED <<entry, held>>
      PROVE  Index!Next
  BY <1>0, <1>2, Revoked, KillStep DEF Fades
<1>3. ASSUME NEW p \in Parties, DisconnectClearChannel(s, p)
      PROVE  Index!Next
  <2> DEFINE e == ClearReceivedGrants(entry[p])
  <2>1. e.grants = entry[p].grants
    BY <1>0 DEF Shape, StoredOK, EntryType, ClearReceivedGrants
  <2>2. WriteEntry(p, e) /\ UNCHANGED <<zcap, held>>
    BY <1>3 DEF DisconnectClearChannel
  <2> HIDE DEF e
  <2> QED
    BY <2>1, <2>2, TendedStep
<1>4. ASSUME \/ DisconnectRead(s) \/ DisconnectDeleteKey(s)
             \/ DisconnectDeleteKeyFails(s) \/ DisconnectRetireFails(s)
             \/ \E p \in Parties : \/ DisconnectApp(s, p)
                                   \/ \E c \in Shared : UnshareStart(s, p, c)
             \/ \E c \in Collections : DisconnectRotateFails(s, c)
      PROVE  Index!Next
  <2>1. UNCHANGED <<entry, zcap, held>>
    BY <1>4
    DEF DisconnectRead, DisconnectDeleteKey, DisconnectDeleteKeyFails,
        DisconnectRetireFails, DisconnectApp, UnshareStart,
        DisconnectRotateFails, stored
  <2> QED
    BY <1>1, <2>1
<1>5. ASSUME NEW c \in Collections, DisconnectRotate(s, c)
      PROVE  Index!Next
  BY <1>1, <1>2, <1>5 DEF DisconnectRotate
<1>6. CASE DisconnectPost(s) \/ DisconnectPostFails(s)
  BY <1>1, <1>2, <1>6 DEF DisconnectPost, DisconnectPostFails
<1>7. ASSUME NEW c \in Collections, UnshareRotate(s, c) \/ UnshareRotateFails(s, c)
      PROVE  Index!Next
  BY <1>1, <1>2, <1>7 DEF UnshareRotate, UnshareRotateFails
<1>8. CASE DisconnectRetire(s)
  <2> DEFINE e == RetireConnection(entry[run[s].party])
  <2>1. /\ pc[s] = "retire" /\ WriteEntry(run[s].party, e) /\ UNCHANGED <<zcap, held>>
        /\ entry[run[s].party].grants \subseteq run[s].seen[run[s].party]
    BY <1>8 DEF DisconnectRetire, MayRetire
  <2>2. e.grants \subseteq {}
    BY <1>0, <1>p, <2>1 DEF Shape, StoredOK, RetireConnection, EntryType
  <2>3. \A g \in entry[run[s].party].grants : zcap[g] = "dead"
    BY <1>0, <2>1 DEF HandledBy
  <2> HIDE DEF e
  <2> QED
    BY <1>p, <2>1, <2>2, <2>3, TendedStep
<1>9. CASE UnshareRemove(s)
  <2> DEFINE e == RemoveGrants(entry[run[s].party], Unshared(s))
  <2>1. /\ pc[s] = "ungrant" /\ UNCHANGED <<zcap, held>>
        /\ WriteEntry(run[s].party, e) \/ UNCHANGED entry
    BY <1>9 DEF UnshareRemove
  <2>2. e.grants = entry[run[s].party].grants \ Unshared(s)
    BY <1>p, <2>1 DEF RemoveGrants, EntryType
  <2>3. \A g \in Unshared(s) : zcap[g] = "dead"
    BY <1>0, <2>1 DEF HandledBy
  <2> HIDE DEF e
  <2> QED
    BY <1>1, <1>p, <2>1, <2>2, <2>3, TendedStep
<1> QED
  BY <1>3, <1>4, <1>5, <1>6, <1>7, <1>8, <1>9 DEF RevocationStep

\* The directory is the grant index: every step of every ceremony records,
\* hands over, kills or removes capabilities as GrantIndex allows, or leaves
\* all three alone.
THEOREM ImplementsGrantIndex == Spec => IsGrantIndex
<1> USE ConnectionsAssumption
<1>1. Init => Index!Init
  BY IndexStart
<1>2. IndexInv /\ [Next]_vars => [Index!Next]_<<Found, held, Dead>>
  <2> SUFFICES ASSUME IndexInv, [Next]_vars
               PROVE  Index!Next \/ UNCHANGED <<Found, held, Dead>>
    OBVIOUS
  <2>1. ASSUME NEW s \in Sessions, ConsentStep(s) PROVE Index!Next
    BY <2>1, ConsentRefines
  <2>2. ASSUME NEW s \in Sessions, RevocationStep(s) PROVE Index!Next
    BY <2>2, RevocationRefines
  <2>3. ASSUME NEW s \in Sessions, Crash(s) PROVE UNCHANGED <<Found, held, Dead>>
    BY <2>3 DEF Crash, stored, Found, Dead
  <2>4. ASSUME NEW g \in Grants, Lapse(g) PROVE Index!Next
    <3>1. /\ UNCHANGED <<entry, held>>
          /\ \A h \in Grants : zcap[h] = "dead" => zcap'[h] = "dead"
      BY <2>4 DEF Lapse, IndexInv, Shape, StoredOK
    <3> QED
      BY <3>1, KillStep
  <2>5. CASE UNCHANGED vars
    BY <2>5 DEF vars, Found, Dead
  <2> QED
    BY <2>1, <2>2, <2>3, <2>4, <2>5 DEF Next
<1>3. [Index!Next]_<<Found, held, Dead>>
        => [Index!Next]_<<{g \in Grants : g \in entry[Grantee[g]].grants}, held,
                          {g \in Grants : zcap[g] = "dead"}>>
  BY DEF Found, Dead
<1> QED
  BY <1>1, <1>2, <1>3, IndexSafety, PTL DEF Spec, IsGrantIndex, Index!Spec

-----------------------------------------------------------------------------
(***************************************************************************)
(* What a response owes the owner and the agent.                           *)
(***************************************************************************)
\* The inductive invariants.

\* Once its activity is written, a consent's capabilities are named by one.
AuditedBy(s) == pc[s] = "escrow" => run[s].zcaps \subseteq audit

AuditInv ==
  /\ IndexInv
  /\ HandedOverIsAudited
  /\ \A s \in Sessions : AuditedBy(s)

\* PairwiseStable, of every party.
OneKey == \A p \in Parties : \A k \in knownAs[p] : entry[p].seed = k

\* From its record on, the seed a consent will sign by is the entry's.
SeededBy(s) ==
  pc[s] \in {"audit", "escrow"} /\ run[s].seed # NoSeed
    => entry[run[s].party].seed = run[s].seed

SeedInv ==
  /\ Shape
  /\ OneKey
  /\ \A s \in Sessions : SeededBy(s)

-----------------------------------------------------------------------------
\* What almost every step of session s does, to both.

\* A seed once on an entry stays.
SeedsKept ==
  \A p \in Parties : entry[p].seed # NoSeed => entry'[p].seed = entry[p].seed

\* The ceremony promises nothing afterwards, or only what it promised before.
NoNewPromise(s) ==
  \/ pc'[s] \notin {"audit", "escrow"}
  \/ /\ pc[s] = "escrow"
     /\ run'[s].zcaps = run[s].zcaps
     /\ run'[s].party = run[s].party
     /\ run'[s].seed = run[s].seed

Quiet(s) ==
  /\ Elsewhere(s)
  /\ NoNewPromise(s)
  /\ SeedsKept
  /\ UNCHANGED <<held, knownAs>>
  /\ audit \subseteq audit'

\* A step that hands nothing over and forgets no activity keeps AuditInv.
LEMMA AuditKept ==
  ASSUME AuditInv, IndexInv', NEW s \in Sessions, Elsewhere(s),
         UNCHANGED held, audit \subseteq audit', AuditedBy(s)'
  PROVE  AuditInv'
  BY DEF AuditInv, HandedOverIsAudited, AuditedBy, Elsewhere

\* A step that keeps every seed, and shows nobody a key, keeps SeedInv.
LEMMA SeedKept ==
  ASSUME ConnectionsAssumption, SeedInv, Shape', NEW s \in Sessions,
         Elsewhere(s), SeedsKept, UNCHANGED knownAs, SeededBy(s)'
  PROVE  SeedInv'
<1>1. OneKey'
  BY DEF SeedInv, OneKey, SeedsKept, Shape, StoredOK, ConnectionsAssumption
<1>2. ASSUME NEW t \in Sessions, t # s PROVE SeededBy(t)'
  <2>1. run'[t] = run[t] /\ pc'[t] = pc[t] /\ SeededBy(t)
    BY <1>2 DEF Elsewhere, SeedInv
  <2>2. pc[t] # "idle" => run[t].party \in Parties
    BY DEF SeedInv, Shape, StoredOK
  <2> QED
    BY <2>1, <2>2 DEF SeededBy, SeedsKept
<1> QED
  BY <1>1, <1>2 DEF SeedInv

\* A quiet step keeps both.
LEMMA QuietStep ==
  ASSUME ConnectionsAssumption, NEW s \in Sessions, Quiet(s), Shape
  PROVE  /\ AuditInv /\ IndexInv' => AuditInv'
         /\ SeedInv /\ Shape' => SeedInv'
<1>1. ASSUME AuditInv PROVE AuditedBy(s)'
  BY <1>1 DEF AuditInv, AuditedBy, Quiet, NoNewPromise
<1>2. ASSUME SeedInv PROVE SeededBy(s)'
  <2>1. pc[s] # "idle" => run[s].party \in Parties
    BY DEF Shape, StoredOK
  <2> QED
    BY <1>2, <2>1 DEF SeedInv, SeededBy, Quiet, NoNewPromise, SeedsKept
<1> QED
  BY <1>1, <1>2, AuditKept, SeedKept DEF Quiet

\* Recording a consent the entry does not refuse keeps the entry's seed.
LEMMA RecordKeepsSeed ==
  ASSUME NEW e \in EntryType, NEW G \in SUBSET Grants,
         NEW seed \in Sessions \cup {NoSeed},
         SeedAgrees(e, seed), e.seed # NoSeed
  PROVE  RecordGrants(e, G, seed).seed = e.seed
  BY DEF EntryType, SeedAgrees, RecordGrants

\* A write of one entry that keeps its seed keeps all.
LEMMA WriteSeeds ==
  ASSUME Shape, NEW p \in Parties, NEW e,
         WriteEntry(p, e) \/ UNCHANGED entry,
         entry[p].seed # NoSeed => e.seed = entry[p].seed
  PROVE  SeedsKept
  BY DEF Shape, StoredOK, WriteEntry, SeedsKept

\* A step away from the promising points, that keeps the entry's seed.
LEMMA QuietMove ==
  ASSUME Shape, NEW s \in Sessions, NEW step,
         \A t \in Sessions \ {s} : run'[t] = run[t],
         Goto(s, step) \/ (UNCHANGED pc /\ pc[s] = step),
         step \notin {"audit", "escrow"},
         SeedsKept, UNCHANGED <<held, knownAs>>, audit \subseteq audit'
  PROVE  Quiet(s)
  BY DEF Shape, StoredOK, Goto, Elsewhere, NoNewPromise, Quiet

\* A ceremony that ends, likewise.
LEMMA QuietFinish ==
  ASSUME Shape, NEW s \in Sessions, Finish(s), SeedsKept,
         UNCHANGED <<held, knownAs>>, audit \subseteq audit'
  PROVE  Quiet(s)
  BY DEF Shape, StoredOK, Finish, Elsewhere, NoNewPromise, Quiet

\* A step that leaves the directory alone keeps its seeds.
LEMMA SameSeeds == UNCHANGED entry => SeedsKept
  BY DEF SeedsKept

\* Every revocation step is quiet.
LEMMA RevocationQuiet ==
  ASSUME Shape, NEW s \in Sessions, RevocationStep(s)
  PROVE  Quiet(s)
<1>e. /\ \A p \in Parties : entry[p] \in EntryType
      /\ pc[s] # "idle" => run[s].party \in Parties
      /\ run \in [Sessions -> RunType]
  BY DEF Shape, StoredOK
<1>1. ASSUME NEW p \in Parties, DisconnectClearChannel(s, p) PROVE Quiet(s)
  <2> DEFINE e == ClearReceivedGrants(entry[p])
  <2>1. e.seed = entry[p].seed
    BY <1>e DEF ClearReceivedGrants, EntryType
  <2>2. WriteEntry(p, e)
    BY <1>1 DEF DisconnectClearChannel
  <2>3. SeedsKept
    <3> HIDE DEF e
    <3> QED BY <2>1, <2>2, WriteSeeds
  <2>4. \A t \in Sessions \ {s} : run'[t] = run[t]
    BY <1>1, <1>e DEF DisconnectClearChannel
  <2> QED
    BY <1>1, <2>3, <2>4, QuietMove DEF DisconnectClearChannel
<1>2. ASSUME NEW p \in Parties, DisconnectApp(s, p) PROVE Quiet(s)
  <2> DEFINE r == [NoRun EXCEPT !.party = p]
  <2>1. run' = [run EXCEPT ![s] = r] /\ Goto(s, "read") /\ UNCHANGED stored
    BY <1>2 DEF DisconnectApp
  <2>2. \A t \in Sessions \ {s} : run'[t] = run[t]
    <3> HIDE DEF r
    <3> QED BY <1>e, <2>1
  <2> QED
    BY <2>1, <2>2, SameSeeds, QuietMove DEF stored
<1>10. ASSUME NEW p \in Parties, NEW c \in Shared, UnshareStart(s, p, c)
       PROVE  Quiet(s)
  <2> DEFINE r == [NoRun EXCEPT !.party = p, !.seen = Listing, !.todo = {c}]
  <2>1. run' = [run EXCEPT ![s] = r] /\ Goto(s, "unrotate") /\ UNCHANGED stored
    BY <1>10 DEF UnshareStart
  <2>2. \A t \in Sessions \ {s} : run'[t] = run[t]
    <3> HIDE DEF r
    <3> QED BY <1>e, <2>1
  <2> QED
    BY <2>1, <2>2, SameSeeds, QuietMove DEF stored
<1>3. CASE DisconnectRead(s)
  <2>1. PICK listed \in BOOLEAN :
          run' = [run EXCEPT ![s].seen = Listing,
                             ![s].todo = Candidates(run[s].party, Listing, listed),
                             ![s].failed = ~listed]
    BY <1>3 DEF DisconnectRead
  <2> DEFINE todo == Candidates(run[s].party, Listing, listed)
             r == [run[s] EXCEPT !.seen = Listing, !.todo = todo, !.failed = ~listed]
  <2>2. run' = [run EXCEPT ![s] = r] /\ Goto(s, "rotate") /\ UNCHANGED stored
    BY <1>3, <2>1 DEF DisconnectRead
  <2>3. \A t \in Sessions \ {s} : run'[t] = run[t]
    <3> HIDE DEF r
    <3> QED BY <1>e, <2>2
  <2> QED
    BY <2>2, <2>3, SameSeeds, QuietMove DEF stored
<1>4. ASSUME NEW c \in Collections,
             DisconnectRotate(s, c) \/ DisconnectRotateFails(s, c)
      PROVE  Quiet(s)
  <2> DEFINE todo == run[s].todo \ {c}
             r == [run[s] EXCEPT !.todo = todo]
             rf == [run[s] EXCEPT !.todo = todo, !.failed = TRUE]
  <2>1. /\ run' = [run EXCEPT ![s] = r] \/ run' = [run EXCEPT ![s] = rf]
        /\ UNCHANGED pc /\ pc[s] = "rotate"
        /\ UNCHANGED <<entry, held, knownAs, audit>>
    BY <1>4 DEF DisconnectRotate, DisconnectRotateFails
  <2>2. \A t \in Sessions \ {s} : run'[t] = run[t]
    <3> HIDE DEF r, rf
    <3> QED BY <1>e, <2>1
  <2> QED
    BY <2>1, <2>2, SameSeeds, QuietMove
<1>5. ASSUME NEW c \in Collections, UnshareRotate(s, c) PROVE Quiet(s)
  BY <1>5, SameSeeds, QuietMove DEF UnshareRotate
<1>6. CASE DisconnectPost(s) \/ DisconnectDeleteKey(s)
  BY <1>6, SameSeeds, QuietMove DEF DisconnectPost, DisconnectDeleteKey
<1>7. CASE \/ DisconnectPostFails(s) \/ DisconnectDeleteKeyFails(s)
           \/ DisconnectRetireFails(s)
           \/ \E c \in Collections : UnshareRotateFails(s, c)
  BY <1>7, SameSeeds, QuietFinish
  DEF DisconnectPostFails, DisconnectDeleteKeyFails, DisconnectRetireFails,
      UnshareRotateFails, stored
<1>8. CASE DisconnectRetire(s)
  <2> DEFINE e == RetireConnection(entry[run[s].party])
  <2>1. WriteEntry(run[s].party, e) /\ pc[s] # "idle"
    BY <1>8 DEF DisconnectRetire
  <2>2. e.seed = entry[run[s].party].seed
    BY <1>e, <2>1 DEF RetireConnection, EntryType
  <2>3. SeedsKept
    <3> HIDE DEF e
    <3> QED BY <1>e, <2>1, <2>2, WriteSeeds
  <2> QED
    BY <1>8, <2>3, QuietFinish DEF DisconnectRetire
<1>9. CASE UnshareRemove(s)
  <2> DEFINE e == RemoveGrants(entry[run[s].party], Unshared(s))
  <2>1. /\ WriteEntry(run[s].party, e) \/ UNCHANGED entry
        /\ pc[s] # "idle"
    BY <1>9 DEF UnshareRemove
  <2>2. e.seed = entry[run[s].party].seed
    BY <1>e, <2>1 DEF RemoveGrants, EntryType
  <2>3. SeedsKept
    <3> HIDE DEF e
    <3> QED BY <1>e, <2>1, <2>2, WriteSeeds
  <2> QED
    BY <1>9, <2>3, QuietFinish DEF UnshareRemove
<1> QED
  BY <1>1, <1>2, <1>3, <1>4, <1>5, <1>6, <1>7, <1>8, <1>9, <1>10 DEF RevocationStep

\* The consent steps that are quiet.
LEMMA ConsentQuiet ==
  ASSUME Shape, NEW s \in Sessions, ConsentStep(s),
         ~ConsentRecord(s), ~ConsentAudit(s), ~ConsentAuditFails(s),
         ~ConsentDeliver(s), ~RollbackAudit(s)
  PROVE  Quiet(s)
<1>e. /\ \A p \in Parties : entry[p] \in EntryType
      /\ pc[s] # "idle" => run[s].party \in Parties
      /\ run \in [Sessions -> RunType]
      /\ run[s].seed \in Sessions \cup {NoSeed} /\ run[s].zcaps \in SUBSET Grants
  BY DEF Shape, StoredOK, RunType
<1>1. ASSUME NEW p \in Parties, NEW G \in SUBSET Grants, ConsentStart(s, p, G)
      PROVE  Quiet(s)
  <2>1. PICK seed \in {NoSeed} \cup (IF p \in Agents THEN {PairwiseSeed(s, p)} ELSE {}) :
          run' = [run EXCEPT ![s] =
                    [NoRun EXCEPT !.party = p, !.zcaps = G, !.seed = seed]]
    BY <1>1 DEF ConsentStart
  <2> DEFINE r == [NoRun EXCEPT !.party = p, !.zcaps = G, !.seed = seed]
  <2>2. \A t \in Sessions \ {s} : run'[t] = run[t]
    <3>1. run' = [run EXCEPT ![s] = r]
      BY <2>1
    <3> HIDE DEF r
    <3> QED BY <1>e, <3>1
  <2> QED
    BY <1>1, <2>2, SameSeeds, QuietMove DEF ConsentStart
<1>2. CASE ConsentPrior(s)
  <2> DEFINE r == [run[s] EXCEPT !.prior = entry[run[s].party].state]
  <2>1. run' = [run EXCEPT ![s] = r]
    BY <1>2 DEF ConsentPrior
  <2>2. \A t \in Sessions \ {s} : run'[t] = run[t]
    <3> HIDE DEF r
    <3> QED BY <1>e, <2>1
  <2> QED
    BY <1>2, <2>2, SameSeeds, QuietMove DEF ConsentPrior, stored
<1>3. CASE ConsentPriorFails(s) \/ ConsentUndelivered(s)
  BY <1>3, SameSeeds, QuietFinish DEF ConsentPriorFails, ConsentUndelivered, stored
<1>4. CASE ConsentRecordFails(s)
  <2> DEFINE e == RecordGrants(entry[run[s].party], run[s].zcaps, run[s].seed)
  <2>1. /\ \/ UNCHANGED entry
           \/ /\ SeedAgrees(entry[run[s].party], run[s].seed)
              /\ WriteEntry(run[s].party, e)
        /\ pc[s] # "idle"
    BY <1>4 DEF ConsentRecordFails
  <2>2. SeedAgrees(entry[run[s].party], run[s].seed)
          /\ entry[run[s].party].seed # NoSeed
        => e.seed = entry[run[s].party].seed
    BY <1>e, <2>1, RecordKeepsSeed
  <2>3. SeedsKept
    <3> HIDE DEF e
    <3> QED BY <1>e, <2>1, <2>2, WriteSeeds, SameSeeds
  <2> QED
    BY <1>4, <2>3, QuietMove DEF ConsentRecordFails
<1>5. ASSUME NEW c \in Collections, ConsentCreate(s, c) PROVE Quiet(s)
  BY <1>5, SameSeeds DEF ConsentCreate, Quiet, Elsewhere, NoNewPromise
<1>6. ASSUME NEW c \in Collections, ConsentEscrow(s, c) PROVE Quiet(s)
  <2>1. PICK G \in SUBSET run[s].zcaps :
          run' = [run EXCEPT ![s] = [run[s] EXCEPT !.escrowed = @ \cup G]]
    BY <1>6 DEF ConsentEscrow
  <2> DEFINE r == [run[s] EXCEPT !.escrowed = @ \cup G]
  <2>2. r.zcaps = run[s].zcaps /\ r.party = run[s].party /\ r.seed = run[s].seed
    BY <1>e DEF RunType
  <2>3. run'[s] = r /\ \A t \in Sessions \ {s} : run'[t] = run[t]
    <3>1. run' = [run EXCEPT ![s] = r]
      BY <2>1
    <3> HIDE DEF r
    <3> QED BY <1>e, <3>1
  <2> HIDE DEF r
  <2> QED
    BY <1>6, <2>2, <2>3, SameSeeds
    DEF ConsentEscrow, Quiet, Elsewhere, NoNewPromise
<1>7. ASSUME NEW c \in Collections, ConsentEscrowFails(s, c) PROVE Quiet(s)
  <2>1. PICK G \in SUBSET run[s].zcaps :
          \/ run' = [run EXCEPT ![s] = [run[s] EXCEPT !.escrowed = @ \cup G]]
          \/ UNCHANGED run
    BY <1>7 DEF ConsentEscrowFails
  <2> DEFINE r == [run[s] EXCEPT !.escrowed = @ \cup G]
  <2>2. \A t \in Sessions \ {s} : run'[t] = run[t]
    <3>1. run' = [run EXCEPT ![s] = r] \/ UNCHANGED run
      BY <2>1
    <3> HIDE DEF r
    <3> QED BY <1>e, <3>1
  <2> QED
    BY <1>7, <2>2, SameSeeds, QuietMove DEF ConsentEscrowFails
<1>8. CASE ConsentComposeFails(s)
  BY <1>8, SameSeeds, QuietMove DEF ConsentComposeFails, stored
<1>9. CASE RollbackRemove(s)
  <2> DEFINE e == RemoveGrants(entry[run[s].party], run[s].zcaps \ run[s].escrowed)
  <2>1. /\ entry' = entry \/ WriteEntry(run[s].party, e)
        /\ Goto(s, "reretire") \/ Goto(s, "unaudit")
        /\ UNCHANGED <<run, held, knownAs, audit>> /\ pc[s] # "idle"
    BY <1>9 DEF RollbackRemove, WriteEntry
  <2>2. e.seed = entry[run[s].party].seed
    BY <1>e, <2>1 DEF RemoveGrants, EntryType
  <2> HIDE DEF e
  <2>3. SeedsKept
    BY <1>e, <2>1, <2>2, WriteSeeds, SameSeeds
  <2> QED
    BY <2>1, <2>3, QuietMove
<1>10. CASE RollbackRetire(s)
  <2> DEFINE e == RetireConnection(entry[run[s].party])
  <2>1. /\ entry' = entry \/ WriteEntry(run[s].party, e)
        /\ Goto(s, "unaudit")
        /\ UNCHANGED <<run, held, knownAs, audit>> /\ pc[s] # "idle"
    BY <1>10 DEF RollbackRetire
  <2>2. e.seed = entry[run[s].party].seed
    BY <1>e, <2>1 DEF RetireConnection, EntryType
  <2> HIDE DEF e
  <2>3. SeedsKept
    BY <1>e, <2>1, <2>2, WriteSeeds, SameSeeds
  <2> QED
    BY <2>1, <2>3, QuietMove
<1> QED
  BY <1>1, <1>2, <1>3, <1>4, <1>5, <1>6, <1>7, <1>8, <1>9, <1>10 DEF ConsentStep

\* A consent step keeps both, when it keeps what they rest on.
LEMMA ConsentKeeps ==
  ASSUME ConnectionsAssumption, Shape, NEW s \in Sessions, ConsentStep(s)
  PROVE  /\ AuditInv /\ IndexInv' => AuditInv'
         /\ SeedInv /\ Shape' => SeedInv'
<1>e. /\ \A p \in Parties : entry[p] \in EntryType
      /\ pc[s] # "idle" => run[s].party \in Parties
      /\ run \in [Sessions -> RunType]
      /\ knownAs \in [Parties -> SUBSET Sessions]
      /\ run[s].seed \in Sessions \cup {NoSeed} /\ run[s].zcaps \in SUBSET Grants
  BY DEF Shape, StoredOK, RunType
<1>1. CASE ConsentRecord(s)
  <2> DEFINE e == RecordGrants(entry[run[s].party], run[s].zcaps, run[s].seed)
  <2>1. /\ SeedAgrees(entry[run[s].party], run[s].seed)
        /\ WriteEntry(run[s].party, e)
        /\ Goto(s, "audit") /\ UNCHANGED <<run, held, knownAs, audit>>
        /\ pc[s] # "idle"
    BY <1>1 DEF ConsentRecord
  <2>2. /\ entry[run[s].party].seed # NoSeed => e.seed = entry[run[s].party].seed
        /\ run[s].seed # NoSeed => e.seed = run[s].seed
    <3>1. entry[run[s].party].seed # NoSeed => e.seed = entry[run[s].party].seed
      BY <1>e, <2>1, RecordKeepsSeed
    <3>2. run[s].seed # NoSeed => e.seed = run[s].seed
      BY <1>e, <2>1 DEF RecordGrants, EntryType
    <3> QED
      BY <3>1, <3>2
  <2> HIDE DEF e
  <2>3. SeedsKept
    BY <1>e, <2>1, <2>2, WriteSeeds
  <2>4. Elsewhere(s) /\ pc'[s] = "audit"
    BY <2>1 DEF Goto, Elsewhere, Shape
  <2>5. AuditedBy(s)'
    BY <2>4 DEF AuditedBy
  <2>6. entry'[run[s].party] = e
    BY <1>e, <2>1 DEF WriteEntry, Shape, StoredOK
  <2>7. SeededBy(s)'
    BY <2>1, <2>2, <2>6 DEF SeededBy
  <2> QED
    BY <2>1, <2>3, <2>4, <2>5, <2>7, AuditKept, SeedKept
<1>2. CASE ConsentAudit(s)
  <2> DEFINE r == [run[s] EXCEPT !.audited = TRUE]
  <2>1. r.zcaps = run[s].zcaps /\ r.party = run[s].party /\ r.seed = run[s].seed
    BY <1>e DEF RunType
  <2>2. /\ run' = [run EXCEPT ![s] = r] /\ Goto(s, "escrow") /\ pc[s] = "audit"
        /\ audit' = audit \cup run[s].zcaps /\ UNCHANGED <<entry, held, knownAs>>
    BY <1>2 DEF ConsentAudit
  <2> HIDE DEF r
  <2>3. Elsewhere(s) /\ pc'[s] = "escrow" /\ run'[s] = r
    BY <1>e, <2>2 DEF Goto, Elsewhere, Shape
  <2>4. AuditedBy(s)'
    BY <2>1, <2>2, <2>3 DEF AuditedBy
  <2>5. SeedInv => SeededBy(s)'
    BY <2>1, <2>2, <2>3 DEF SeedInv, SeededBy
  <2> QED
    BY <2>2, <2>3, <2>4, <2>5, SameSeeds, AuditKept, SeedKept
<1>3. CASE ConsentAuditFails(s)
  <2>1. /\ Goto(s, IF run[s].zcaps = {} THEN "escrow" ELSE "rollback")
        /\ audit \subseteq audit' /\ pc[s] = "audit"
        /\ UNCHANGED <<run, entry, held, knownAs>>
    BY <1>3 DEF ConsentAuditFails
  <2>2. /\ Elsewhere(s)
        /\ pc'[s] = IF run[s].zcaps = {} THEN "escrow" ELSE "rollback"
    BY <2>1 DEF Goto, Elsewhere, Shape
  <2>3. AuditedBy(s)'
    BY <2>1, <2>2 DEF AuditedBy
  <2>4. SeedInv => SeededBy(s)'
    BY <2>1 DEF SeedInv, SeededBy
  <2> QED
    BY <2>1, <2>2, <2>3, <2>4, SameSeeds, AuditKept, SeedKept
\* What is handed over was audited, and is signed by the entry's seed.
<1>4. CASE ConsentDeliver(s)
  <2>1. /\ held' = held \cup run[s].zcaps /\ pc[s] = "escrow" /\ Finish(s)
        /\ knownAs' = [knownAs EXCEPT
                         ![run[s].party] = @ \cup ({run[s].seed} \ {NoSeed})]
        /\ UNCHANGED <<entry, audit>>
    BY <1>4 DEF ConsentDeliver
  <2>2. Elsewhere(s) /\ pc'[s] = "idle"
    BY <1>e, <2>1 DEF Finish, Elsewhere, Shape
  <2>3. ASSUME AuditInv, IndexInv' PROVE AuditInv'
    BY <2>1, <2>2, <2>3 DEF AuditInv, HandedOverIsAudited, AuditedBy, Elsewhere
  <2>4. ASSUME SeedInv, Shape' PROVE SeedInv'
    <3>1. SeededBy(s) /\ OneKey
      BY <2>4 DEF SeedInv
    <3>2. run[s].seed # NoSeed => entry[run[s].party].seed = run[s].seed
      BY <2>1, <3>1 DEF SeededBy
    <3>3. ASSUME NEW p \in Parties, NEW k \in knownAs'[p] PROVE entry[p].seed = k
      <4>1. \/ k \in knownAs[p]
            \/ p = run[s].party /\ k = run[s].seed /\ k # NoSeed
        BY <1>e, <2>1, <3>3
      <4> QED
        BY <3>1, <3>2, <4>1 DEF OneKey
    <3>4. OneKey'
      BY <2>1, <3>3 DEF OneKey
    <3>5. \A t \in Sessions : SeededBy(t)'
      BY <2>1, <2>2, <2>4 DEF SeedInv, SeededBy, Elsewhere
    <3> QED
      BY <2>4, <3>4, <3>5 DEF SeedInv
  <2> QED
    BY <2>3, <2>4
\* The activity a rollback deletes names nothing that was handed over, and
\* nothing of another consent.
<1>5. CASE RollbackAudit(s)
  <2>1. /\ Finish(s) /\ audit \ run[s].zcaps \subseteq audit'
        /\ UNCHANGED <<entry, held, knownAs>>
    BY <1>5 DEF RollbackAudit
  <2>2. Elsewhere(s) /\ pc'[s] = "idle"
    BY <1>e, <2>1 DEF Finish, Elsewhere, Shape
  <2>3. ASSUME AuditInv, IndexInv' PROVE AuditInv'
    <3>1. /\ \A g \in run[s].zcaps : g \notin held
          /\ \A t \in Sessions \ {s} : run[t].zcaps \cap run[s].zcaps = {}
      BY <2>3 DEF AuditInv, IndexInv, Own
    <3> QED
      BY <2>1, <2>2, <2>3, <3>1
      DEF AuditInv, HandedOverIsAudited, AuditedBy, Elsewhere
  <2>4. SeededBy(s)'
    BY <2>2 DEF SeededBy
  <2> QED
    BY <2>1, <2>2, <2>3, <2>4, SameSeeds, SeedKept
<1> QED
  BY <1>1, <1>2, <1>3, <1>4, <1>5, ConsentQuiet, QuietStep

\* Every step keeps both.
LEMMA StepKeeps ==
  ASSUME ConnectionsAssumption, Shape, [Next]_vars
  PROVE  /\ AuditInv /\ IndexInv' => AuditInv'
         /\ SeedInv /\ Shape' => SeedInv'
<1>1. ASSUME NEW s \in Sessions, RevocationStep(s)
      PROVE  /\ AuditInv /\ IndexInv' => AuditInv'
             /\ SeedInv /\ Shape' => SeedInv'
  BY <1>1, RevocationQuiet, QuietStep
<1>2. ASSUME NEW s \in Sessions, Crash(s)
      PROVE  /\ AuditInv /\ IndexInv' => AuditInv'
             /\ SeedInv /\ Shape' => SeedInv'
  BY <1>2, SameSeeds, QuietFinish, QuietStep DEF Crash, stored
<1>3. ASSUME UNCHANGED <<entry, held, knownAs, audit, pc, run>>
      PROVE  /\ AuditInv /\ IndexInv' => AuditInv'
             /\ SeedInv /\ Shape' => SeedInv'
  BY <1>3 DEF AuditInv, HandedOverIsAudited, AuditedBy, SeedInv, OneKey, SeededBy
<1> QED
  BY <1>1, <1>2, <1>3, ConsentKeeps DEF Next, Lapse, vars

-----------------------------------------------------------------------------

\* No party holds a capability without a Grant activity naming it, whatever
\* writes of the activity fail and whatever rollbacks run beside the consent.
THEOREM HandedOverIsAuditedSafety == Spec => []HandedOverIsAudited
<1> USE ConnectionsAssumption
<1>1. Init => AuditInv
  BY IndexInit DEF Init, AuditInv, HandedOverIsAudited, AuditedBy
<1>2. IndexInv => Shape
  BY DEF IndexInv
<1>3. AuditInv /\ IndexInv /\ IndexInv' /\ [Next]_vars => AuditInv'
  BY <1>2, StepKeeps
<1>4. AuditInv => HandedOverIsAudited
  BY DEF AuditInv
<1> QED
  BY <1>1, <1>3, <1>4, IndexSafety, PTL DEF Spec

\* Every response an agent ever received is signed by the one pairwise key its
\* entry holds, though two sessions may mint a key for it at the same time.
THEOREM PairwiseStableSafety == Spec => []PairwiseStable
<1> USE ConnectionsAssumption
<1>1. Init => SeedInv
  BY InitType DEF Init, SeedInv, OneKey, SeededBy
<1>2. SeedInv /\ IndexInv /\ IndexInv' /\ [Next]_vars => SeedInv'
  BY StepKeeps DEF IndexInv
<1>3. SeedInv => PairwiseStable
  BY DEF SeedInv, OneKey, PairwiseStable, Parties
<1> QED
  BY <1>1, <1>2, <1>3, IndexSafety, PTL DEF Spec

-----------------------------------------------------------------------------
(***************************************************************************)
(* One session at a time, what a party can open its entry shows.           *)
(***************************************************************************)
\* One session runs the ceremonies, and the re-read behind a failed escrow
\* answers.
OneSession == (\A s, t \in Sessions : s = t) /\ ~RereadFails

\* The grants a party keeps when the consent s is rolled back.
Surviving(s) == entry[run[s].party].grants \ (run[s].zcaps \ run[s].escrowed)

\* From its request to its end a consent may be rolled back without taking from
\* the entry what a roster goes by, nor the listing of a party that had one.
AskedBy(s) ==
  LET p == run[s].party IN
  /\ pc[s] \in {"prior", "record", "audit", "escrow", "rollback", "reretire"} =>
       \A c \in Private : p \in roster[c] => \E g \in Surviving(s) : Target[g] = c
  /\ pc[s] \in {"record", "audit", "escrow", "rollback", "reretire"} =>
       run[s].prior = "live" \/ p \notin connected
  /\ pc[s] \in {"audit", "escrow"} =>
       IsListed(entry[p]) /\ run[s].zcaps \subseteq entry[p].grants
  /\ pc[s] = "reretire" => RetiresAgain(s)

\* A revocation works from a reading that is still true, and writes the entry
\* only once the party is off the rosters its grants stand for.
TakenBy(s) ==
  LET p == run[s].party IN
  /\ pc[s] \in {"rotate", "unrotate"} =>
       \A q \in Parties : entry[q].grants \subseteq run[s].seen[q]
  /\ pc[s] = "rotate" =>
       \A c \in Private : p \in roster[c] => run[s].failed \/ c \in run[s].todo
  /\ pc[s] \in {"delkey", "retire"} => \A c \in Private : p \notin roster[c]
  /\ pc[s] \in {"unrotate", "ungrant"} => \E c \in Shared : run[s].todo = {c}
  /\ pc[s] = "ungrant" => \A c \in run[s].todo : p \notin roster[c]

AccessInv ==
  /\ AccessIsListed
  /\ \A s \in Sessions : AskedBy(s) /\ TakenBy(s)

\* The one session there is moves.
LEMMA SoloStep ==
  ASSUME OneSession, NEW s \in Sessions, AccessIsListed', AskedBy(s)', TakenBy(s)'
  PROVE  AccessInv'
  BY DEF OneSession, AccessInv

\* A ceremony that ends leaves nothing to hold.
LEMMA Ended ==
  ASSUME Shape, NEW s \in Sessions, Finish(s)
  PROVE  pc'[s] = "idle" /\ AskedBy(s)' /\ TakenBy(s)'
<1>1. pc'[s] = "idle"
  BY DEF Finish, Shape
<1> QED
  BY <1>1 DEF AskedBy, TakenBy

\* A write of one entry that goes on showing what the party can open.
LEMMA StillShown ==
  ASSUME ConnectionsAssumption, Shape, AccessIsListed, NEW p \in Parties, NEW e,
         WriteEntry(p, e), roster' = roster, connected' \subseteq connected,
         p \in connected' => IsListed(e),
         \A c \in Private : p \in roster[c] =>
           IsListed(e) /\ \E g \in e.grants : Target[g] = c
  PROVE  AccessIsListed'
<1>1. /\ entry'[p] = e /\ \A q \in Parties \ {p} : entry'[q] = entry[q]
      /\ connected \subseteq Parties
      /\ \A c \in Private : roster[c] \subseteq Parties
  BY DEF WriteEntry, Shape, StoredOK, Private, Provisioned, ConnectionsAssumption
<1>2. \A q \in connected' : IsListed(entry'[q])
  BY <1>1 DEF AccessIsListed
<1>3. ASSUME NEW c \in Private, NEW q \in roster[c]
      PROVE  IsListed(entry'[q]) /\ \E g \in entry'[q].grants : Target[g] = c
  BY <1>1, <1>3 DEF AccessIsListed
<1> QED
  BY <1>2, <1>3 DEF AccessIsListed

\* The rosters shrink.
LEMMA FewerRead ==
  ASSUME AccessIsListed, entry' = entry, connected' \subseteq connected,
         \A c \in Private : roster'[c] \subseteq roster[c]
  PROVE  AccessIsListed'
  BY DEF AccessIsListed

\* A rotation off a party leaves its own collection alone to touch.
LEMMA RotatedOff ==
  ASSUME Shape, NEW p, NEW c \in Collections, NEW seen, RotateOff(p, c, seen)
  PROVE  /\ \A d \in Collections \ {c} : roster'[d] = roster[d]
         /\ roster'[c] = (roster[c] \cap Admits(seen, c)) \ {p}
  BY DEF RotateOff, Shape, StoredOK

\* An escrow admits its party to the collection, if it is one that has a roster.
LEMMA Admitted ==
  ASSUME ConnectionsAssumption, Shape, NEW p, NEW c \in Collections, Admit(p, c)
  PROVE  /\ \A d \in Collections : roster[d] \subseteq roster'[d]
         /\ \A d \in Private : roster'[d] \subseteq roster[d] \/ (d = c /\ p \in roster'[c])
         /\ \A d \in Private : roster'[d] \subseteq roster[d] \cup {p}
  BY DEF Admit, Shape, StoredOK, Private, Provisioned, ConnectionsAssumption

\* An escrow covers a grant on its collection.
LEMMA UnitCovers ==
  ASSUME NEW s \in Sessions, NEW c, NEW G \in SUBSET run[s].zcaps, EscrowUnit(s, c, G)
  PROVE  \E g \in G : Target[g] = c
<1>1. CASE \E g \in PendingShares(s) : Target[g] = c /\ G = {g}
  BY <1>1
<1>2. CASE c \in PendingProvisions(s) /\ G = {g \in run[s].zcaps : Target[g] = c}
  BY <1>2 DEF PendingProvisions
<1> QED
  BY <1>1, <1>2 DEF EscrowUnit

\* A consent keeps the invariant, and takes nobody off a roster.
LEMMA ConsentAccess ==
  ASSUME ConnectionsAssumption, OneSession, IndexInv, AccessInv,
         NEW s \in Sessions, ConsentStep(s)
  PROVE  AccessInv' /\ \A c \in Collections : roster[c] \subseteq roster'[c]
<1>0. /\ Shape /\ Signed /\ AccessIsListed /\ AskedBy(s) /\ TakenBy(s)
      /\ run[s] \in RunType /\ run \in [Sessions -> RunType]
      /\ pc \in [Sessions -> AllSteps]
  BY DEF IndexInv, AccessInv, Shape, StoredOK
<1> DEFINE party == run[s].party
           e == entry[party]
           G0 == run[s].zcaps
<1>p. ASSUME pc[s] # "idle"
      PROVE  /\ party \in Parties /\ e \in EntryType
             /\ e.grants # {} => e.state = "live"
             /\ G0 \in SUBSET Grants /\ run[s].seed \in Sessions \cup {NoSeed}
  BY <1>0, <1>p DEF Shape, StoredOK, RunType
<1>s. ASSUME UNCHANGED <<entry, roster, connected>> PROVE AccessIsListed'
  BY <1>0, <1>s DEF AccessIsListed
<1>t. ASSUME pc'[s] \in {"prior", "record", "audit", "escrow", "rollback", "reretire", "unaudit"}
      PROVE  TakenBy(s)'
  BY <1>t DEF TakenBy
<1>g. ASSUME NEW step, Goto(s, step) PROVE pc'[s] = step
  BY <1>0, <1>g DEF Goto
<1>f. ASSUME Finish(s), UNCHANGED <<entry, roster, connected>>
      PROVE  AccessInv' /\ \A c \in Collections : roster[c] \subseteq roster'[c]
  BY <1>0, <1>f, <1>s, Ended, SoloStep
<1>1. ASSUME NEW p \in Parties, NEW G \in SUBSET Grants, ConsentStart(s, p, G)
      PROVE  AccessInv' /\ \A c \in Collections : roster[c] \subseteq roster'[c]
  <2>1. /\ pc'[s] = "prior" /\ UNCHANGED <<entry, roster, connected>>
        /\ run'[s].party = p /\ run'[s].zcaps = G /\ run'[s].escrowed = {}
        /\ \A g \in G : zcap[g] = "unsigned"
    BY <1>0, <1>1, <1>g DEF ConsentStart, Sign, NoRun
  <2>2. \A g \in G : g \notin entry[p].grants
    BY <1>0, <2>1 DEF Signed
  <2>3. \A c \in Private : p \in roster[c] => \E g \in entry[p].grants \ G : Target[g] = c
    BY <1>0, <2>2 DEF AccessIsListed
  <2>4. AskedBy(s)'
    BY <2>1, <2>3 DEF AskedBy, Surviving
  <2> QED
    BY <1>s, <1>t, <2>1, <2>4, SoloStep
<1>2. CASE ConsentPrior(s)
  <2>1. /\ pc[s] = "prior" /\ pc'[s] = "record" /\ UNCHANGED <<entry, roster, connected>>
        /\ run'[s] = [run[s] EXCEPT !.prior = e.state]
    BY <1>0, <1>2, <1>g DEF ConsentPrior, stored
  <2>2. /\ run'[s].party = party /\ run'[s].zcaps = G0 /\ run'[s].escrowed = run[s].escrowed
        /\ run'[s].prior = e.state
    BY <1>0, <2>1 DEF RunType
  <2>3. AskedBy(s)'
    BY <1>0, <2>1, <2>2 DEF AskedBy, Surviving, AccessIsListed, IsListed
  <2> QED
    BY <1>s, <1>t, <2>1, <2>3, SoloStep
<1>3. CASE ConsentPriorFails(s)
  BY <1>3, <1>f DEF ConsentPriorFails, stored
<1>4. ASSUME pc[s] = "record", WriteEntry(party, RecordGrants(e, G0, run[s].seed)),
             UNCHANGED <<roster, connected, run>>, pc'[s] \in {"audit", "rollback"}
      PROVE  AccessInv' /\ \A c \in Collections : roster[c] \subseteq roster'[c]
  <2> DEFINE n == RecordGrants(e, G0, run[s].seed)
  <2>1. n.state = "live" /\ n.grants = e.grants \cup G0
    BY <1>p, <1>4 DEF RecordGrants, EntryType
  <2>2. entry'[party] = n
    BY <1>0, <1>p, <1>4 DEF WriteEntry, Shape, StoredOK
  <2>3. \A c \in Private : party \in roster[c] => \E g \in Surviving(s) : Target[g] = c
    BY <1>0, <1>4 DEF AskedBy
  <2>4. Surviving(s) \subseteq Surviving(s)' /\ Surviving(s) \subseteq n.grants
    BY <1>4, <2>1, <2>2 DEF Surviving
  <2>5. AccessIsListed'
    <3> HIDE DEF n
    <3>1. connected' \subseteq connected /\ roster' = roster /\ WriteEntry(party, n)
      BY <1>4 DEF n
    <3> QED
      BY <1>0, <1>p, <1>4, <2>1, <2>3, <2>4, <3>1, StillShown DEF IsListed
  <2>6. AskedBy(s)'
    BY <1>0, <1>4, <2>1, <2>2, <2>3, <2>4 DEF AskedBy, IsListed
  <2> QED
    BY <1>4, <1>t, <2>5, <2>6, SoloStep
<1>5. CASE ConsentRecord(s)
  BY <1>4, <1>5, <1>g DEF ConsentRecord
<1>6. CASE ConsentRecordFails(s)
  <2>1. pc[s] = "record" /\ pc'[s] = "rollback" /\ UNCHANGED <<roster, connected, run>>
    BY <1>6, <1>g DEF ConsentRecordFails
  <2>2. CASE UNCHANGED entry
    <3>1. AskedBy(s)'
      BY <1>0, <2>1, <2>2 DEF AskedBy, Surviving
    <3> QED
      BY <1>s, <1>t, <2>1, <2>2, <3>1, SoloStep
  <2> QED
    BY <1>4, <1>6, <2>1, <2>2 DEF ConsentRecordFails
<1>7. ASSUME UNCHANGED <<entry, roster, connected>>, pc[s] \in {"audit", "escrow"},
             pc'[s] \in {"escrow", "rollback"},
             run' = run \/ run' = [run EXCEPT ![s].audited = TRUE]
      PROVE  AccessInv' /\ \A c \in Collections : roster[c] \subseteq roster'[c]
  <2>1. /\ run'[s].party = party /\ run'[s].zcaps = G0 /\ run'[s].escrowed = run[s].escrowed
        /\ run'[s].prior = run[s].prior
    BY <1>0, <1>7 DEF RunType
  <2>2. AskedBy(s)'
    BY <1>0, <1>7, <2>1 DEF AskedBy, Surviving
  <2> QED
    BY <1>s, <1>t, <1>7, <2>2, SoloStep
<1>8. CASE ConsentAudit(s)
  BY <1>7, <1>8, <1>g DEF ConsentAudit
<1>9. CASE ConsentAuditFails(s)
  BY <1>7, <1>9, <1>g DEF ConsentAuditFails
<1>10. ASSUME NEW c \in Collections, ConsentCreate(s, c)
       PROVE  AccessInv' /\ \A d \in Collections : roster[d] \subseteq roster'[d]
  BY <1>7, <1>10 DEF ConsentCreate
<1>11. ASSUME NEW c \in Collections, NEW G \in SUBSET G0, EscrowUnit(s, c, G), pc[s] = "escrow",
              run' = [run EXCEPT ![s].escrowed = @ \cup G],
              Admit(party, c) \/ UNCHANGED roster,
              UNCHANGED <<entry, connected>>, pc'[s] \in {"escrow", "rollback"}
       PROVE  AccessInv' /\ \A d \in Collections : roster[d] \subseteq roster'[d]
  <2>1. /\ run'[s].party = party /\ run'[s].zcaps = G0 /\ run'[s].prior = run[s].prior
        /\ run'[s].escrowed = run[s].escrowed \cup G
    BY <1>0, <1>11 DEF RunType
  <2>2. IsListed(e) /\ G0 \subseteq e.grants
    BY <1>0, <1>11 DEF AskedBy
  <2>3. PICK g \in G : Target[g] = c
    BY <1>11, UnitCovers
  <2>4. /\ \A d \in Collections : roster[d] \subseteq roster'[d]
        /\ \A d \in Private : d # c => roster'[d] \subseteq roster[d]
        /\ \A d \in Private : roster'[d] \subseteq roster[d] \cup {party}
    BY <1>0, <1>11, Admitted
  <2>5. Surviving(s) \subseteq Surviving(s)' /\ g \in Surviving(s)'
    BY <1>11, <2>1, <2>2, <2>3 DEF Surviving
  <2>6. AskedBy(s)'
    <3>1. ASSUME NEW d \in Private, party \in roster'[d]
          PROVE  \E h \in Surviving(s)' : Target[h] = d
      <4>1. CASE d = c
        BY <2>3, <2>5, <4>1
      <4>2. CASE d # c
        BY <1>0, <1>11, <2>4, <2>5, <3>1, <4>2 DEF AskedBy
      <4> QED
        BY <4>1, <4>2
    <3> QED
      BY <1>0, <1>11, <2>1, <2>2, <3>1 DEF AskedBy
  <2>7. AccessIsListed'
    <3>1. ASSUME NEW d \in Private, NEW q \in roster'[d]
          PROVE  IsListed(entry[q]) /\ \E h \in entry[q].grants : Target[h] = d
      <4>1. CASE q \in roster[d]
        BY <1>0, <4>1 DEF AccessIsListed
      <4>2. CASE q \notin roster[d]
        BY <2>2, <2>3, <2>4, <3>1, <4>2
      <4> QED
        BY <4>1, <4>2
    <3> QED
      BY <1>0, <1>11, <3>1 DEF AccessIsListed
  <2> QED
    BY <1>11, <1>t, <2>4, <2>6, <2>7, SoloStep
<1>12. ASSUME NEW c \in Collections, ConsentEscrow(s, c)
       PROVE  AccessInv' /\ \A d \in Collections : roster[d] \subseteq roster'[d]
  BY <1>11, <1>12 DEF ConsentEscrow
<1>13. ASSUME NEW c \in Collections, ConsentEscrowFails(s, c)
       PROVE  AccessInv' /\ \A d \in Collections : roster[d] \subseteq roster'[d]
  <2>1. /\ pc[s] = "escrow" /\ pc'[s] = "rollback" /\ UNCHANGED <<entry, connected>>
        /\ Admit(party, c) \/ UNCHANGED roster
    BY <1>13, <1>g DEF ConsentEscrowFails
  <2>2. PICK G \in SUBSET G0 :
          /\ EscrowUnit(s, c, G)
          /\ \/ run' = [run EXCEPT ![s].escrowed = @ \cup G]
             \/ party \notin roster'[c] /\ UNCHANGED run
    BY <1>13 DEF ConsentEscrowFails, OneSession
  <2>3. CASE party \notin roster'[c] /\ UNCHANGED run
    <3>1. roster' = roster
      BY <1>0, <1>p, <2>1, <2>3 DEF Admit, Shape, StoredOK
    <3> QED
      BY <1>7, <2>1, <2>3, <3>1
  <2>4. CASE run' = [run EXCEPT ![s].escrowed = @ \cup G]
    BY <1>11, <2>1, <2>2, <2>4
  <2> QED
    BY <2>2, <2>3, <2>4
<1>14. CASE ConsentDeliver(s)
  <2>1. /\ pc[s] = "escrow" /\ Finish(s) /\ UNCHANGED <<entry, roster>>
        /\ connected' = connected \cup {party}
    BY <1>14 DEF ConsentDeliver
  <2>2. AccessIsListed'
    BY <1>0, <2>1 DEF AccessIsListed, AskedBy
  <2> QED
    BY <1>0, <2>1, <2>2, Ended, SoloStep
<1>15. CASE ConsentUndelivered(s)
  BY <1>15, <1>f DEF ConsentUndelivered, stored
<1>16. CASE ConsentComposeFails(s)
  BY <1>7, <1>16, <1>g DEF ConsentComposeFails, stored
<1>17. CASE RollbackRemove(s)
  <2> DEFINE n == RemoveGrants(e, G0 \ run[s].escrowed)
  <2>1. /\ pc[s] = "rollback" /\ UNCHANGED <<roster, connected, run>>
        /\ pc'[s] = "unaudit" \/ (pc'[s] = "reretire" /\ RetiresAgain(s))
        /\ WriteEntry(party, n) \/ UNCHANGED entry
        /\ pc'[s] = "reretire" => WriteEntry(party, n)
    BY <1>17, <1>g DEF RollbackRemove, WriteEntry
  <2>2. n.state = e.state /\ n.grants = Surviving(s)
    BY <1>0, <1>p, <2>1 DEF RemoveGrants, EntryType, Surviving
  <2>3. \A c \in Private : party \in roster[c] => \E g \in Surviving(s) : Target[g] = c
    BY <1>0, <2>1 DEF AskedBy
  <2>4. AccessIsListed'
    <3> HIDE DEF n
    <3>1. CASE WriteEntry(party, n)
      <4>1. /\ party \in connected => IsListed(n)
            /\ \A c \in Private : party \in roster[c] => IsListed(n)
        BY <1>0, <2>2 DEF AccessIsListed, IsListed
      <4> QED
        BY <1>0, <1>p, <2>1, <2>2, <2>3, <3>1, <4>1, StillShown
    <3> QED
      BY <1>s, <2>1, <3>1
  <2>5. AskedBy(s)'
    <3>1. CASE pc'[s] = "unaudit"
      BY <3>1 DEF AskedBy
    <3>2. CASE pc'[s] = "reretire" /\ RetiresAgain(s)
      <4>1. entry'[party] = n
        BY <1>0, <1>p, <2>1, <3>2 DEF WriteEntry, Shape, StoredOK
      <4>2. Surviving(s)' = Surviving(s)
        BY <2>1, <2>2, <4>1 DEF Surviving
      <4> QED
        BY <1>0, <2>1, <2>3, <3>2, <4>2 DEF AskedBy, RetiresAgain
    <3> QED
      BY <2>1, <3>1, <3>2
  <2> QED
    BY <1>t, <2>1, <2>4, <2>5, SoloStep
<1>18. CASE RollbackRetire(s)
  <2>1. /\ pc[s] = "reretire" /\ pc'[s] = "unaudit" /\ UNCHANGED <<roster, connected, run>>
        /\ \/ MayRetire(e, G0) /\ WriteEntry(party, RetireConnection(e))
           \/ UNCHANGED entry
    BY <1>18, <1>g DEF RollbackRetire
  <2>2. AskedBy(s)'
    BY <2>1 DEF AskedBy
  <2>3. AccessIsListed'
    <3>1. CASE MayRetire(e, G0) /\ WriteEntry(party, RetireConnection(e))
      <4>1. party \notin connected /\ \A c \in Private : party \notin roster[c]
        BY <1>0, <2>1, <3>1 DEF AskedBy, RetiresAgain, MayRetire, Surviving
      <4> QED
        BY <1>0, <1>p, <2>1, <3>1, <4>1, StillShown
    <3> QED
      BY <1>s, <2>1, <3>1
  <2> QED
    BY <1>t, <2>1, <2>2, <2>3, SoloStep
<1>19. CASE RollbackAudit(s)
  BY <1>19, <1>f DEF RollbackAudit
<1> QED
  BY <1>1, <1>2, <1>3, <1>5, <1>6, <1>8, <1>9, <1>10, <1>12, <1>13, <1>14, <1>15,
     <1>16, <1>17, <1>18, <1>19 DEF ConsentStep

\* Whom a step takes off a roster it means to, or finds no grant of.
Spares ==
  \A c \in Collections : \A q \in roster[c] \ roster'[c] :
    \/ \E s \in Sessions : pc[s] \in {"rotate", "unrotate"} /\ run[s].party = q
    \/ ~\E g \in entry[q].grants : Target[g] = c

\* A rotation over a reading that is still true spares the others.
LEMMA RotationSpares ==
  ASSUME Shape, AccessIsListed, NEW s \in Sessions, TakenBy(s),
         pc[s] \in {"rotate", "unrotate"}, NEW c \in Collections,
         RotateOff(run[s].party, c, run[s].seen) \/ UNCHANGED roster
  PROVE  /\ Spares
         /\ \A d \in Collections : roster'[d] \subseteq roster[d]
         /\ entry' = entry /\ connected' \subseteq connected /\ Private \subseteq Collections
              => AccessIsListed'
<1>1. CASE UNCHANGED roster
  BY <1>1, FewerRead DEF Spares
<1>2. CASE RotateOff(run[s].party, c, run[s].seen)
  <2>1. /\ \A d \in Collections \ {c} : roster'[d] = roster[d]
        /\ roster'[c] = (roster[c] \cap Admits(run[s].seen, c)) \ {run[s].party}
    BY <1>2, RotatedOff
  <2>2. \A d \in Collections : roster'[d] \subseteq roster[d]
    BY <2>1
  <2>3. \A q \in Parties : entry[q].grants \subseteq run[s].seen[q]
    BY DEF TakenBy
  <2>4. roster[c] \subseteq Parties
    BY DEF Shape, StoredOK
  <2>5. Spares
    BY <2>1, <2>3, <2>4 DEF Spares, Admits
  <2> QED
    BY <2>1, <2>2, <2>5, FewerRead
<1> QED
  BY <1>1, <1>2

\* A revocation keeps the invariant, and spares the others.
LEMMA RevocationAccess ==
  ASSUME ConnectionsAssumption, OneSession, IndexInv, AccessInv,
         NEW s \in Sessions, RevocationStep(s)
  PROVE  AccessInv' /\ Spares
<1>0. /\ Shape /\ AccessIsListed /\ AskedBy(s) /\ TakenBy(s)
      /\ run[s] \in RunType /\ run \in [Sessions -> RunType]
      /\ pc \in [Sessions -> AllSteps]
  BY DEF IndexInv, AccessInv, Shape, StoredOK
<1>c. Private \subseteq Collections /\ Shared \subseteq Private
  BY DEF Private, Provisioned, ConnectionsAssumption
<1> DEFINE party == run[s].party
           e == entry[party]
<1>p. ASSUME pc[s] # "idle"
      PROVE  /\ party \in Parties /\ e \in EntryType
             /\ e.grants # {} => e.state = "live"
  BY <1>0, <1>p DEF Shape, StoredOK
<1>s. ASSUME UNCHANGED <<entry, roster, connected>> PROVE AccessIsListed'
  BY <1>0, <1>s DEF AccessIsListed
<1>u. ASSUME UNCHANGED roster PROVE Spares
  BY <1>u DEF Spares
<1>a. ASSUME pc'[s] \in {"read", "rotate", "delkey", "retire", "unrotate", "ungrant"}
      PROVE  AskedBy(s)'
  BY <1>a DEF AskedBy
<1>g. ASSUME NEW step, Goto(s, step) PROVE pc'[s] = step
  BY <1>0, <1>g DEF Goto
<1>f. ASSUME Finish(s), UNCHANGED <<entry, roster, connected>>
      PROVE  AccessInv' /\ Spares
  BY <1>0, <1>f, <1>s, <1>u, Ended, SoloStep
<1>1. ASSUME NEW p \in Parties, DisconnectClearChannel(s, p)
      PROVE  AccessInv' /\ Spares
  <2>1. /\ pc'[s] = "read" /\ UNCHANGED <<roster, connected>> /\ IsListed(entry[p])
        /\ WriteEntry(p, ClearReceivedGrants(entry[p]))
    BY <1>1, <1>g DEF DisconnectClearChannel
  <2>2. /\ ClearReceivedGrants(entry[p]).grants = entry[p].grants
        /\ ClearReceivedGrants(entry[p]).state = entry[p].state
    BY <1>0 DEF Shape, StoredOK, ClearReceivedGrants, EntryType
  <2>3. AccessIsListed'
    <3> DEFINE n == ClearReceivedGrants(entry[p])
    <3>1. \A c \in Private : p \in roster[c] => \E g \in n.grants : Target[g] = c
      BY <1>0, <2>2 DEF AccessIsListed
    <3>2. IsListed(n) /\ WriteEntry(p, n)
      BY <2>1, <2>2 DEF IsListed
    <3> HIDE DEF n
    <3> QED
      BY <1>0, <2>1, <3>1, <3>2, StillShown
  <2>4. TakenBy(s)'
    BY <2>1 DEF TakenBy
  <2> QED
    BY <1>a, <1>u, <2>1, <2>3, <2>4, SoloStep
<1>2. ASSUME NEW p \in Parties, DisconnectApp(s, p)
      PROVE  AccessInv' /\ Spares
  <2>1. pc'[s] = "read" /\ UNCHANGED <<entry, roster, connected>>
    BY <1>2, <1>g DEF DisconnectApp, stored
  <2>2. TakenBy(s)'
    BY <2>1 DEF TakenBy
  <2> QED
    BY <1>a, <1>s, <1>u, <2>1, <2>2, SoloStep
<1>3. ASSUME NEW p \in Parties, NEW c \in Shared, UnshareStart(s, p, c)
      PROVE  AccessInv' /\ Spares
  <2>1. /\ pc'[s] = "unrotate" /\ UNCHANGED <<entry, roster, connected>>
        /\ run'[s].seen = Listing /\ run'[s].todo = {c}
    BY <1>0, <1>3, <1>g DEF UnshareStart, stored, NoRun
  <2>2. TakenBy(s)'
    BY <2>1 DEF TakenBy, Listing
  <2> QED
    BY <1>a, <1>s, <1>u, <2>1, <2>2, SoloStep
<1>4. CASE DisconnectRead(s)
  <2>1. PICK listed \in BOOLEAN :
          /\ pc[s] = "read" /\ pc'[s] = "rotate" /\ UNCHANGED <<entry, roster, connected>>
          /\ run' = [run EXCEPT ![s].seen = Listing,
                                ![s].todo = Candidates(party, Listing, listed),
                                ![s].failed = ~listed]
    BY <1>4, <1>g DEF DisconnectRead, stored
  <2>2. /\ run'[s].seen = Listing /\ run'[s].todo = Candidates(party, Listing, listed)
        /\ run'[s].party = party
    BY <1>0, <2>1 DEF RunType
  <2>3. \A c \in Private : party \in roster[c] => c \in Candidates(party, Listing, listed)
    <3>1. Listing[party] = e.grants
      BY <1>p, <2>1 DEF Listing
    <3>2. \A c \in Private : party \in roster[c] => \E g \in Listing[party] : Target[g] = c
      BY <1>0, <3>1 DEF AccessIsListed
    <3> QED
      BY <3>2 DEF Candidates
  <2>4. TakenBy(s)'
    BY <2>1, <2>2, <2>3 DEF TakenBy, Listing
  <2> QED
    BY <1>a, <1>s, <1>u, <2>1, <2>4, SoloStep
<1>5. ASSUME NEW c \in Collections, pc[s] = "rotate", c \in run[s].todo,
             RotateOff(party, c, run[s].seen) \/ UNCHANGED roster,
             \/ run' = [run EXCEPT ![s].todo = @ \ {c}] /\ party \notin roster'[c]
             \/ run' = [run EXCEPT ![s].todo = @ \ {c}, ![s].failed = TRUE],
             UNCHANGED <<entry, connected, pc>>
      PROVE  AccessInv' /\ Spares
  <2>1. /\ Spares /\ AccessIsListed'
        /\ \A d \in Collections : roster'[d] \subseteq roster[d]
    BY <1>0, <1>c, <1>5, RotationSpares
  <2>2. /\ run'[s].party = party /\ run'[s].seen = run[s].seen
        /\ run'[s].todo = run[s].todo \ {c}
        /\ run[s].failed => run'[s].failed
        /\ run'[s].failed \/ party \notin roster'[c]
    BY <1>0, <1>5 DEF RunType
  <2>3. TakenBy(s)'
    BY <1>0, <1>c, <1>5, <2>1, <2>2 DEF TakenBy
  <2> QED
    BY <1>a, <1>5, <2>1, <2>3, SoloStep
<1>6. ASSUME NEW c \in Collections, DisconnectRotate(s, c)
      PROVE  AccessInv' /\ Spares
  <2>1. \/ RotateOff(party, c, run[s].seen)
        \/ party \notin roster[c] /\ UNCHANGED roster
    BY <1>6 DEF DisconnectRotate
  <2>2. party \notin roster'[c]
    <3>1. CASE RotateOff(party, c, run[s].seen)
      BY <1>0, <3>1, RotatedOff
    <3> QED
      BY <2>1, <3>1
  <2>3. /\ pc[s] = "rotate" /\ c \in run[s].todo /\ UNCHANGED <<entry, connected, pc>>
        /\ run' = [run EXCEPT ![s].todo = @ \ {c}]
    BY <1>6 DEF DisconnectRotate
  <2> QED
    BY <1>5, <2>1, <2>2, <2>3
<1>7. ASSUME NEW c \in Collections, DisconnectRotateFails(s, c)
      PROVE  AccessInv' /\ Spares
  BY <1>5, <1>7 DEF DisconnectRotateFails
<1>8. CASE DisconnectPost(s)
  <2>1. /\ pc[s] = "rotate" /\ run[s].todo = {} /\ ~run[s].failed
        /\ pc'[s] \in {"delkey", "retire"} /\ UNCHANGED <<entry, roster, connected, run>>
    BY <1>8, <1>g DEF DisconnectPost
  <2>2. TakenBy(s)'
    BY <1>0, <2>1 DEF TakenBy
  <2> QED
    BY <1>a, <1>s, <1>u, <2>1, <2>2, SoloStep
<1>9. CASE DisconnectPostFails(s)
  BY <1>9, <1>f DEF DisconnectPostFails
<1>10. CASE DisconnectDeleteKey(s)
  <2>1. /\ pc[s] = "delkey" /\ pc'[s] = "retire" /\ UNCHANGED <<entry, roster, connected, run>>
    BY <1>10, <1>g DEF DisconnectDeleteKey
  <2>2. TakenBy(s)'
    BY <1>0, <2>1 DEF TakenBy
  <2> QED
    BY <1>a, <1>s, <1>u, <2>1, <2>2, SoloStep
<1>11. CASE DisconnectDeleteKeyFails(s)
  BY <1>11, <1>f DEF DisconnectDeleteKeyFails
<1>12. CASE DisconnectRetire(s)
  <2>1. /\ pc[s] = "retire" /\ Finish(s) /\ roster' = roster
        /\ connected' = connected \ {party} /\ WriteEntry(party, RetireConnection(e))
    BY <1>12 DEF DisconnectRetire
  <2>2. \A c \in Private : party \notin roster[c]
    BY <1>0, <2>1 DEF TakenBy
  <2>3. AccessIsListed'
    <3> DEFINE n == RetireConnection(e)
    <3>1. WriteEntry(party, n)
      BY <2>1
    <3> HIDE DEF n
    <3> QED
      BY <1>0, <1>p, <2>1, <2>2, <3>1, StillShown
  <2> QED
    BY <1>0, <1>u, <2>1, <2>3, Ended, SoloStep
<1>13. CASE DisconnectRetireFails(s)
  BY <1>13, <1>f DEF DisconnectRetireFails, stored
<1>14. ASSUME NEW c \in Collections, UnshareRotate(s, c)
       PROVE  AccessInv' /\ Spares
  <2>1. /\ pc[s] = "unrotate" /\ pc'[s] = "ungrant" /\ c \in run[s].todo
        /\ IF party \in roster[c] THEN RotateOff(party, c, run[s].seen) ELSE UNCHANGED roster
        /\ UNCHANGED <<entry, connected, run>>
    BY <1>14, <1>g DEF UnshareRotate
  <2>2. Spares /\ AccessIsListed'
    BY <1>0, <1>c, <2>1, RotationSpares
  <2>3. party \notin roster'[c]
    BY <1>0, <2>1, RotatedOff
  <2>4. TakenBy(s)'
    BY <1>0, <2>1, <2>3 DEF TakenBy
  <2> QED
    BY <1>a, <2>1, <2>2, <2>4, SoloStep
<1>15. ASSUME NEW c \in Collections, UnshareRotateFails(s, c)
       PROVE  AccessInv' /\ Spares
  <2>1. /\ pc[s] = "unrotate" /\ Finish(s) /\ UNCHANGED <<entry, connected>>
        /\ RotateOff(party, c, run[s].seen) \/ UNCHANGED roster
    BY <1>15 DEF UnshareRotateFails
  <2>2. Spares /\ AccessIsListed'
    BY <1>0, <1>c, <2>1, RotationSpares
  <2> QED
    BY <1>0, <2>1, <2>2, Ended, SoloStep
<1>16. CASE UnshareRemove(s)
  <2> DEFINE n == RemoveGrants(e, Unshared(s))
  <2>1. /\ pc[s] = "ungrant" /\ Finish(s) /\ UNCHANGED <<roster, connected>>
        /\ WriteEntry(party, n) \/ UNCHANGED entry
    BY <1>16 DEF UnshareRemove
  <2>2. n.grants = e.grants \ Unshared(s) /\ n.state = e.state
    BY <1>p, <2>1 DEF RemoveGrants, EntryType
  <2>3. \A c \in Private : party \in roster[c] =>
          IsListed(n) /\ \E g \in n.grants : Target[g] = c
    <3>1. \A c \in run[s].todo : party \notin roster[c]
      BY <1>0, <2>1 DEF TakenBy
    <3>2. \A g \in Unshared(s) : Target[g] \in run[s].todo
      BY DEF Unshared
    <3> QED
      BY <1>0, <2>2, <3>1, <3>2 DEF AccessIsListed, IsListed
  <2>4. party \in connected => IsListed(n)
    BY <1>0, <2>2 DEF AccessIsListed, IsListed
  <2>5. AccessIsListed'
    <3> HIDE DEF n
    <3> QED
      BY <1>0, <1>p, <1>s, <2>1, <2>3, <2>4, StillShown
  <2> QED
    BY <1>0, <1>u, <2>1, <2>5, Ended, SoloStep
<1> QED
  BY <1>1, <1>2, <1>3, <1>4, <1>6, <1>7, <1>8, <1>9, <1>10, <1>11, <1>12, <1>13,
     <1>14, <1>15, <1>16 DEF RevocationStep

\* Every step keeps the invariant, and spares the others.
LEMMA AccessInductive ==
  ASSUME ConnectionsAssumption, OneSession, IndexInv, AccessInv, [Next]_vars
  PROVE  AccessInv' /\ (vars' # vars => Spares)
<1>1. ASSUME NEW s \in Sessions, ConsentStep(s) PROVE AccessInv' /\ Spares
  BY <1>1, ConsentAccess DEF Spares
<1>2. ASSUME NEW s \in Sessions, RevocationStep(s) PROVE AccessInv' /\ Spares
  BY <1>2, RevocationAccess
<1>3. ASSUME NEW s \in Sessions, Crash(s) PROVE AccessInv' /\ Spares
  <2>1. Finish(s) /\ UNCHANGED <<entry, roster, connected>>
    BY <1>3 DEF Crash, stored
  <2>2. AccessIsListed' /\ Spares
    BY <2>1 DEF AccessInv, AccessIsListed, Spares
  <2> QED
    BY <2>1, <2>2, Ended, SoloStep DEF IndexInv
<1>4. ASSUME UNCHANGED <<entry, connected, roster, pc, run>>
      PROVE  AccessInv' /\ Spares
  BY <1>4
  DEF AccessInv, AccessIsListed, AskedBy, TakenBy, Surviving, RetiresAgain, Spares
<1> QED
  BY <1>1, <1>2, <1>3, <1>4 DEF Next, Lapse, vars

\* In one session, whoever reads a collection's epoch or holds a response is
\* listed with a grant the owner finds it by, and a rotation takes the
\* collection from the party it is meant for alone, for every number of parties,
\* capabilities and collections, whatever fails and wherever the tab closes.
THEOREM AccessIsTrueSafety == ASSUME OneSession PROVE Spec => AccessIsTrue
<1> USE ConnectionsAssumption
<1>1. Init => AccessInv
  BY DEF Init, AccessInv, AccessIsListed, AskedBy, TakenBy, Private, Provisioned,
     ConnectionsAssumption
<1>2. IndexInv /\ AccessInv /\ [Next]_vars
        => AccessInv' /\ [Spares]_vars
  BY AccessInductive
<1>3. AccessInv => AccessIsListed
  BY DEF AccessInv
<1>4. CoAdmittedKeepsAccess <=> [][Spares]_vars
  BY PTL DEF CoAdmittedKeepsAccess, Spares
<1> QED
  BY <1>1, <1>2, <1>3, <1>4, IndexSafety, PTL DEF Spec, AccessIsTrue

-----------------------------------------------------------------------------
(***************************************************************************)
(* The connected agents: the inbox passes, the restores and the declines   *)
(* beside the ceremonies.                                                  *)
(***************************************************************************)
\* The inductive invariant.

PassOK ==
  /\ pass \in [Sessions -> PassType]
  /\ mail \subseteq opened /\ closed \subseteq opened /\ opened \subseteq Channels
  /\ expired \subseteq due /\ due \subseteq Grants
  /\ withdrawn \subseteq Grants
  /\ source \in [Grants -> Grants \cup {0}]
  /\ \A s \in Sessions : \A g \in pass[s].dues : Grantee[g] \in Agents

\* An entry records its own party's capabilities.
Filed == \A p \in Parties : \A g \in entry[p].grants : Grantee[g] = p

\* What a ceremony signed and has not recorded yet.
Pending(s) == IF pc[s] \in {"prior", "record", "restore"} THEN run[s].zcaps ELSE {}

Unrecorded ==
  \A s \in Sessions : \A g \in Pending(s) : \A p \in Parties : g \notin entry[p].grants

\* The capabilities of a party are minted in their order.
InOrder ==
  \A g \in Grants : \A h \in Grants :
    h < g /\ Grantee[h] = Grantee[g] /\ zcap[g] # "unsigned" => zcap[h] # "unsigned"

\* What came due was minted, and what expired or lost its authority is dead, by
\* the document as any pass read it too.
Spent ==
  /\ \A g \in due : zcap[g] # "unsigned"
  /\ \A g \in expired \cup withdrawn : zcap[g] = "dead"
  /\ \A s \in Sessions : pass[s].check \subseteq withdrawn

\* An envelope queued on an entry, or on one a pass has read, carries g.
Carried(g) ==
  \/ \E p \in Parties : \E G \in entry[p].outbox : g \in G
  \/ \E s \in Sessions : \E p \in Agents : \E G \in pass[s].view[p].outbox : g \in G

\* A capability that may be delivered: no consent can take it back any more.
Placed(g) ==
  /\ zcap[g] # "unsigned"
  /\ \A t \in Sessions : g \notin run[t].zcaps
  /\ zcap[g] = "live" => g \in entry[Grantee[g]].grants

CarriedIsPlaced == \A g \in Grants : Carried(g) => Placed(g)

\* The capability a silent renewal minted stays while the one it replaces does,
\* and no ceremony brings that one back.
Renewed(g) ==
  LET n == source[g] IN
  /\ n < g
  /\ Grantee[n] = Grantee[g]
  /\ zcap[g] # "unsigned" /\ zcap[n] # "unsigned"
  /\ \A t \in Sessions : g \notin run[t].zcaps /\ n \notin Pending(t)
  /\ zcap[g] = "live" /\ n \in entry[Grantee[g]].grants
       => g \in entry[Grantee[g]].grants

OneRenewal ==
  \A g \in Grants : \A h \in Grants \ {g} :
    source[g] # 0 /\ source[g] = source[h] => ~(zcap[g] = "live" /\ zcap[h] = "live")

AgentInv ==
  /\ IndexInv
  /\ PassOK
  /\ Filed
  /\ Unrecorded
  /\ InOrder
  /\ Spent
  /\ CarriedIsPlaced
  /\ \A g \in Grants : source[g] # 0 => Renewed(g)
  /\ OneRenewal

-----------------------------------------------------------------------------
\* The steps that leave the ceremonies alone.

\* No step of theirs records a capability, brings one back, or forgets a live
\* one, and what they hand over was queued.
Keeps ==
  \A p \in Parties :
    /\ entry'[p].grants \subseteq entry[p].grants
    /\ \A g \in entry[p].grants \ entry'[p].grants : zcap[g] = "dead"
    /\ entry'[p].state = entry[p].state
    /\ entry'[p].seed = entry[p].seed

Background ==
  /\ UNCHANGED <<pc, run, source, knownAs>>
  /\ Fades
  /\ Keeps
  /\ Shape' /\ PassOK' /\ Spent'
  /\ \A g \in Grants : Carried(g)' => Carried(g)
  /\ held \subseteq held'
  /\ \A g \in held' \ held : Carried(g)

\* Such a step keeps the invariant.
LEMMA BackgroundStep ==
  ASSUME ConnectionsAssumption, AgentAssumption, AgentInv, Background
  PROVE  AgentInv'
<1>b. /\ UNCHANGED <<pc, run, source>> /\ Fades /\ Keeps
      /\ Shape' /\ PassOK' /\ Spent'
      /\ \A g \in Grants : Carried(g)' => Carried(g)
      /\ held \subseteq held'
      /\ \A g \in held' \ held : Carried(g)
  BY DEF Background
<1>i. /\ IndexInv /\ Filed /\ Unrecorded /\ InOrder /\ CarriedIsPlaced /\ OneRenewal
      /\ \A g \in Grants : source[g] # 0 => Renewed(g)
  BY DEF AgentInv
<1>t. /\ \A g \in Grants : Grantee[g] \in Parties /\ g \in Nat /\ g # 0
      /\ held \in SUBSET Grants /\ held' \in SUBSET Grants
      /\ \A s \in Sessions : /\ run[s].zcaps \in SUBSET Grants
                             /\ \A p \in Parties : run[s].seen[p] \in SUBSET Grants
                             /\ pc[s] # "idle" => run[s].party \in Parties
      /\ \A g \in Grants : source[g] # 0 => source[g] \in Grants
      /\ \A p \in Parties : entry[p].grants \in SUBSET Grants
  BY <1>i, <1>b
  DEF AgentInv, PassOK, IndexInv, Shape, StoredOK, RunType, EntryType,
      ConnectionsAssumption, AgentAssumption
<1>z. \A g \in Grants : /\ zcap'[g] = "unsigned" <=> zcap[g] = "unsigned"
                        /\ zcap'[g] = "live" => zcap[g] = "live"
                        /\ zcap[g] = "dead" => zcap'[g] = "dead"
  BY <1>b DEF Fades
<1>k. \A g \in Grants : \A p \in Parties :
        /\ g \in entry'[p].grants => g \in entry[p].grants
        /\ zcap'[g] = "live" /\ g \in entry[p].grants => g \in entry'[p].grants
  BY <1>b, <1>z DEF Keeps
<1>p. \A g \in Grants : Carried(g) => Placed(g)
  BY <1>i DEF CarriedIsPlaced
<1>h. \A g \in held' \ held : g \in Grants /\ Placed(g)
  BY <1>b, <1>p, <1>t
<1>1. IndexInv'
  <2>1. Signed'
    BY <1>b, <1>i, <1>t, <1>z, <1>k, <1>h DEF IndexInv, Signed, Placed
  <2>2. Own'
    BY <1>b, <1>i, <1>t, <1>h DEF IndexInv, Own, Placed
  <2>3. Indexed'
    BY <1>b, <1>i, <1>t, <1>z, <1>k, <1>h DEF IndexInv, Indexed, Placed
  <2>4. ASSUME NEW s \in Sessions PROVE RecordedBy(s)'
    BY <1>b, <1>i, <1>t, <1>z, <1>k DEF IndexInv, RecordedBy
  <2>5. ASSUME NEW s \in Sessions PROVE HandledBy(s)'
    <3>1. HandledBy(s)
      BY <1>i DEF IndexInv
    <3> QED
      BY <1>b, <1>t, <1>z, <3>1 DEF HandledBy, Unshared
  <2> QED
    BY <1>b, <2>1, <2>2, <2>3, <2>4, <2>5 DEF IndexInv
<1>2. Filed'
  BY <1>b, <1>i DEF Filed, Keeps
<1>3. Unrecorded'
  BY <1>b, <1>i DEF Unrecorded, Pending, Keeps
<1>4. InOrder'
  BY <1>i, <1>z DEF InOrder
<1>5. CarriedIsPlaced'
  <2> SUFFICES ASSUME NEW g \in Grants, Carried(g)' PROVE Placed(g)'
    BY DEF CarriedIsPlaced
  <2>1. Placed(g)
    BY <1>b, <1>p
  <2> QED
    BY <1>b, <1>t, <1>z, <1>k, <2>1 DEF Placed
<1>6. ASSUME NEW g \in Grants, source'[g] # 0 PROVE Renewed(g)'
  <2>1. Renewed(g) /\ source[g] \in Grants
    BY <1>b, <1>i, <1>t, <1>6
  <2> QED
    BY <1>b, <1>t, <1>z, <1>k, <2>1 DEF Renewed, Pending
<1>7. OneRenewal'
  BY <1>b, <1>i, <1>z DEF OneRenewal
<1> QED
  BY <1>b, <1>1, <1>2, <1>3, <1>4, <1>5, <1>6, <1>7 DEF AgentInv

\* A local step of a ceremony keeps the invariant, whatever it queues on the way.
LEMMA CeremonyStep ==
  ASSUME ConnectionsAssumption, AgentAssumption, AgentInv, NEW s \in Sessions,
         Local(s), IndexInv', UNCHANGED source, PassOK', Spent',
         \A g \in Grants : Carried(g)' => Carried(g) \/ Placed(g)'
  PROVE  AgentInv'
<1>b. /\ Elsewhere(s) /\ Fades /\ Remembers(s) /\ Tends(s) /\ Waits(s)
      /\ held' = held
  BY DEF Local
<1>i. /\ IndexInv /\ Own /\ Filed /\ Unrecorded /\ InOrder /\ CarriedIsPlaced
      /\ OneRenewal
      /\ \A g \in Grants : source[g] # 0 => Renewed(g)
  BY DEF AgentInv, IndexInv
<1>t. /\ \A g \in Grants : Grantee[g] \in Parties /\ g \in Nat /\ g # 0
      /\ \A t \in Sessions : run[t].zcaps \in SUBSET Grants
      /\ \A g \in Grants : source[g] # 0 => source[g] \in Grants
      /\ \A p \in Parties : entry[p].grants \in SUBSET Grants
  BY <1>i
  DEF AgentInv, PassOK, IndexInv, Shape, StoredOK, RunType, EntryType,
      ConnectionsAssumption, AgentAssumption
<1>z. \A g \in Grants : /\ zcap'[g] = "unsigned" <=> zcap[g] = "unsigned"
                        /\ zcap'[g] = "live" => zcap[g] = "live"
  BY <1>b DEF Fades
<1>r. \A t \in Sessions : /\ run'[t].zcaps \subseteq run[t].zcaps
                          /\ Pending(t)' \subseteq Pending(t)
                          /\ t # s => Pending(t)' = Pending(t)
  BY <1>b DEF Elsewhere, Remembers, Waits, Pending
<1>k. ASSUME NEW g \in Grants, NEW p \in Parties
      PROVE  /\ g \in entry'[p].grants /\ g \notin entry[p].grants
                  => g \in Pending(s) /\ run[s].party = p
             /\ g \in entry[p].grants /\ g \notin entry'[p].grants
                  => zcap[g] = "dead" \/ g \in run[s].zcaps
  BY <1>b DEF Tends, Tended, Recorded, Released, Pending
<1>s. Pending(s) \subseteq run[s].zcaps
  BY DEF Pending
<1>2. Filed'
  <2> SUFFICES ASSUME NEW p \in Parties, NEW g \in entry'[p].grants
               PROVE  Grantee[g] = p
    BY DEF Filed
  <2>1. g \in Grants
    BY DEF IndexInv, Shape, StoredOK, EntryType
  <2> QED
    BY <1>i, <1>k, <1>s, <2>1 DEF Filed, Own
<1>3. Unrecorded'
  <2> SUFFICES ASSUME NEW t \in Sessions, NEW g \in Pending(t)', NEW p \in Parties
               PROVE  g \notin entry'[p].grants
    BY DEF Unrecorded
  <2>1. g \in Pending(t) /\ g \in run[t].zcaps /\ g \in Grants
    BY <1>r, <1>t DEF Pending
  <2>2. g \notin entry[p].grants
    BY <1>i, <2>1 DEF Unrecorded
  <2>3. CASE t = s
    BY <1>b, <2>2, <2>3 DEF Waits, Pending
  <2>4. CASE t # s
    BY <1>i, <1>k, <1>s, <2>1, <2>2, <2>4 DEF Own
  <2> QED
    BY <2>3, <2>4
<1>4. InOrder'
  BY <1>i, <1>z DEF InOrder
<1>e. ASSUME NEW g \in Grants, \A t \in Sessions : g \notin run[t].zcaps,
             zcap'[g] = "live", g \in entry[Grantee[g]].grants
      PROVE  g \in entry'[Grantee[g]].grants
  BY <1>e, <1>k, <1>t, <1>z
<1>5. CarriedIsPlaced'
  <2> SUFFICES ASSUME NEW g \in Grants, Carried(g)', Placed(g) PROVE Placed(g)'
    BY <1>i DEF CarriedIsPlaced
  <2> QED
    BY <1>e, <1>r, <1>z DEF Placed
<1>6. ASSUME NEW g \in Grants, source'[g] # 0 PROVE Renewed(g)'
  <2>1. Renewed(g) /\ source'[g] = source[g] /\ source[g] \in Grants
    BY <1>i, <1>t, <1>6
  <2>2. source[g] \in entry'[Grantee[g]].grants => source[g] \in entry[Grantee[g]].grants
    BY <1>k, <1>t, <2>1 DEF Renewed
  <2> QED
    BY <1>e, <1>r, <1>z, <2>1, <2>2 DEF Renewed
<1>7. OneRenewal'
  BY <1>i, <1>z DEF OneRenewal
<1> QED
  BY <1>2, <1>3, <1>4, <1>5, <1>6, <1>7 DEF AgentInv

-----------------------------------------------------------------------------
\* The consents and the revocations, beside the passes.

\* A write of one entry that queues nothing.
LEMMA WriteQueue ==
  ASSUME Shape, NEW p \in Parties, NEW e, WriteEntry(p, e) \/ UNCHANGED entry,
         e.outbox \subseteq entry[p].outbox
  PROVE  \A q \in Parties : entry'[q].outbox \subseteq entry[q].outbox
  BY DEF Shape, StoredOK, WriteEntry

\* No consent and no revocation queues an envelope.
LEMMA CeremoniesQueueNothing ==
  ASSUME Shape, NEW s \in Sessions, ConsentStep(s) \/ RevocationStep(s)
  PROVE  \A p \in Parties : entry'[p].outbox \subseteq entry[p].outbox
<1> DEFINE Kept == \A p \in Parties : entry'[p].outbox \subseteq entry[p].outbox
<1>e. /\ \A p \in Parties : entry[p] \in EntryType
      /\ pc[s] # "idle" => run[s].party \in Parties
  BY DEF Shape, StoredOK
<1>u. UNCHANGED entry => Kept
  OBVIOUS
<1>r. ASSUME NEW p \in Parties, NEW G, NEW seed
      PROVE  /\ RecordGrants(entry[p], G, seed).outbox = entry[p].outbox
             /\ RemoveGrants(entry[p], G).outbox = entry[p].outbox
             /\ RetireConnection(entry[p]).outbox \subseteq entry[p].outbox
             /\ ClearReceivedGrants(entry[p]).outbox \subseteq entry[p].outbox
  BY <1>e DEF EntryType, RecordGrants, RemoveGrants, RetireConnection,
              ClearReceivedGrants
<1> HIDE DEF Kept
<1>w. ASSUME NEW p \in Parties, NEW e, WriteEntry(p, e),
             e.outbox \subseteq entry[p].outbox
      PROVE  Kept
  BY <1>w, WriteQueue DEF Kept
<1>1. ASSUME ConsentRecord(s) \/ ConsentRecordFails(s) PROVE Kept
  <2> DEFINE e == RecordGrants(entry[run[s].party], run[s].zcaps, run[s].seed)
  <2>1. (WriteEntry(run[s].party, e) \/ UNCHANGED entry) /\ run[s].party \in Parties
    BY <1>1, <1>e DEF ConsentRecord, ConsentRecordFails
  <2>2. e.outbox \subseteq entry[run[s].party].outbox
    BY <1>r, <2>1
  <2> HIDE DEF e
  <2> QED
    BY <1>u, <1>w, <2>1, <2>2
<1>2. ASSUME RollbackRemove(s) PROVE Kept
  <2> DEFINE e == RemoveGrants(entry[run[s].party], run[s].zcaps \ run[s].escrowed)
  <2>1. (WriteEntry(run[s].party, e) \/ UNCHANGED entry) /\ run[s].party \in Parties
    BY <1>2, <1>e DEF RollbackRemove, WriteEntry
  <2>2. e.outbox \subseteq entry[run[s].party].outbox
    BY <1>r, <2>1
  <2> HIDE DEF e
  <2> QED
    BY <1>u, <1>w, <2>1, <2>2
<1>3. ASSUME RollbackRetire(s) \/ DisconnectRetire(s) PROVE Kept
  <2> DEFINE e == RetireConnection(entry[run[s].party])
  <2>1. (WriteEntry(run[s].party, e) \/ UNCHANGED entry) /\ run[s].party \in Parties
    BY <1>3, <1>e DEF RollbackRetire, DisconnectRetire
  <2>2. e.outbox \subseteq entry[run[s].party].outbox
    BY <1>r, <2>1
  <2> HIDE DEF e
  <2> QED
    BY <1>u, <1>w, <2>1, <2>2
<1>4. ASSUME UnshareRemove(s) PROVE Kept
  <2> DEFINE e == RemoveGrants(entry[run[s].party], Unshared(s))
  <2>1. (WriteEntry(run[s].party, e) \/ UNCHANGED entry) /\ run[s].party \in Parties
    BY <1>4, <1>e DEF UnshareRemove
  <2>2. e.outbox \subseteq entry[run[s].party].outbox
    BY <1>r, <2>1
  <2> HIDE DEF e
  <2> QED
    BY <1>u, <1>w, <2>1, <2>2
<1>5. ASSUME NEW p \in Parties, DisconnectClearChannel(s, p) PROVE Kept
  <2> DEFINE e == ClearReceivedGrants(entry[p])
  <2>1. WriteEntry(p, e)
    BY <1>5 DEF DisconnectClearChannel
  <2>2. e.outbox \subseteq entry[p].outbox
    BY <1>r
  <2> HIDE DEF e
  <2> QED
    BY <1>u, <1>w, <2>1, <2>2
<1>6. CASE ConsentStep(s) /\ ~ConsentRecord(s) /\ ~ConsentRecordFails(s)
             /\ ~RollbackRemove(s) /\ ~RollbackRetire(s)
  BY <1>6, <1>u
  DEF ConsentStep, ConsentStart, ConsentPrior, ConsentPriorFails, ConsentAudit,
      ConsentAuditFails, ConsentCreate, ConsentEscrow, ConsentEscrowFails,
      ConsentDeliver, ConsentUndelivered, ConsentComposeFails, RollbackAudit,
      stored
<1>7. CASE RevocationStep(s) /\ ~DisconnectRetire(s) /\ ~UnshareRemove(s)
             /\ \A p \in Parties : ~DisconnectClearChannel(s, p)
  BY <1>7, <1>u
  DEF RevocationStep, DisconnectApp, UnshareStart, DisconnectRead,
      DisconnectRotate, DisconnectRotateFails, UnshareRotate,
      UnshareRotateFails, DisconnectPost, DisconnectPostFails,
      DisconnectDeleteKey, DisconnectDeleteKeyFails, DisconnectRetireFails,
      stored
<1> QED
  BY <1>1, <1>2, <1>3, <1>4, <1>5, <1>6, <1>7 DEF Kept

\* What is known while the passes stand still and no envelope is queued.
LEMMA PassesStand ==
  ASSUME PassOK, UNCHANGED passVars,
         \A p \in Parties : entry'[p].outbox \subseteq entry[p].outbox
  PROVE  PassOK' /\ \A g \in Grants : Carried(g)' => Carried(g)
  BY DEF PassOK, passVars, Carried

LEMMA FadesSpends ==
  ASSUME PassOK, Spent, Fades, UNCHANGED passVars
  PROVE  Spent'
  BY DEF PassOK, Spent, Fades, passVars

\* A revocation beside the passes keeps the invariant.
LEMMA RevocationAgent ==
  ASSUME ConnectionsAssumption, AgentAssumption, AgentInv, NEW s \in Sessions,
         RevocationStep(s), UNCHANGED passVars
  PROVE  AgentInv'
<1>1. IndexInv /\ Shape /\ PassOK /\ Spent
  BY DEF AgentInv, IndexInv
<1>2. Local(s) /\ IndexInv' /\ Fades /\ UNCHANGED source
  BY <1>1, RevocationLocal, RevocationIndex DEF Local, passVars
<1>3. PassOK' /\ Spent' /\ \A g \in Grants : Carried(g)' => Carried(g)
  BY <1>1, <1>2, CeremoniesQueueNothing, PassesStand, FadesSpends
<1> QED
  BY <1>2, <1>3, CeremonyStep

\* So does a consent.
LEMMA ConsentAgent ==
  ASSUME ConnectionsAssumption, AgentAssumption, AgentInv, NEW s \in Sessions,
         ConsentStep(s), InMintOrder, UNCHANGED passVars
  PROVE  AgentInv'
<1>1. IndexInv /\ Shape /\ PassOK /\ Spent /\ Signed /\ Own
  BY DEF AgentInv, IndexInv
<1>i. /\ Filed /\ Unrecorded /\ InOrder /\ CarriedIsPlaced /\ OneRenewal
      /\ \A g \in Grants : source[g] # 0 => Renewed(g)
  BY DEF AgentInv
<1>2. IndexInv' /\ UNCHANGED source
  BY <1>1, ConsentIndex DEF passVars
<1>3. PassOK' /\ \A g \in Grants : Carried(g)' => Carried(g)
  BY <1>1, CeremoniesQueueNothing, PassesStand
<1>t. /\ \A g \in Grants : Grantee[g] \in Parties
      /\ \A t \in Sessions : run[t] \in RunType /\ run[t].zcaps \in SUBSET Grants
      /\ \A g \in Grants : source[g] # 0 => source[g] \in Grants
      /\ run \in [Sessions -> RunType] /\ pc \in [Sessions -> AllSteps]
  BY <1>1 DEF PassOK, Shape, StoredOK, RunType, ConnectionsAssumption
<1>o. InOrder'
  BY DEF InMintOrder, InOrder
<1>4. ASSUME NEW p \in Parties, NEW G \in SUBSET Grants, ConsentStart(s, p, G)
      PROVE  AgentInv'
  <2>1. /\ \A g \in G : zcap[g] = "unsigned"
        /\ \A g \in Grants : zcap'[g] = IF g \in G THEN "live" ELSE zcap[g]
        /\ UNCHANGED entry
    BY <1>4 DEF ConsentStart, Sign
  <2>2. run'[s].zcaps = G /\ pc'[s] = "prior" /\ Elsewhere(s)
    BY <1>4, <1>t DEF ConsentStart, NoRun, Goto, Elsewhere
  <2>3. \A g \in G : \A q \in Parties : g \notin entry[q].grants
    BY <1>1, <2>1 DEF Signed
  <2>4. Filed'
    BY <1>i, <2>1 DEF Filed
  <2>5. Unrecorded'
    BY <1>i, <2>1, <2>2, <2>3 DEF Unrecorded, Pending, Elsewhere
  <2>6. Spent'
    BY <1>1, <2>1 DEF PassOK, Spent, passVars
  <2>7. CarriedIsPlaced'
    <3> SUFFICES ASSUME NEW g \in Grants, Carried(g)' PROVE Placed(g)'
      BY DEF CarriedIsPlaced
    <3>1. Placed(g)
      BY <1>3, <1>i DEF CarriedIsPlaced
    <3> QED
      BY <2>1, <2>2, <3>1 DEF Placed, Elsewhere
  <2>8. ASSUME NEW g \in Grants, source'[g] # 0 PROVE Renewed(g)'
    <3>1. Renewed(g) /\ source'[g] = source[g] /\ source[g] \in Grants
      BY <1>i, <1>t, <1>2, <2>8
    <3>2. \A t \in Sessions \ {s} : Pending(t)' = Pending(t)
      BY <2>2 DEF Pending, Elsewhere
    <3>3. Pending(s)' = G
      BY <2>2 DEF Pending
    <3> QED
      BY <2>1, <2>2, <3>1, <3>2, <3>3 DEF Renewed, Elsewhere
  <2>9. OneRenewal'
    <3>1. \A g \in Grants : source[g] # 0 => g \notin G
      BY <1>i, <2>1 DEF Renewed
    <3> QED
      BY <1>i, <1>2, <2>1, <3>1 DEF OneRenewal
  <2> QED
    BY <1>2, <1>3, <1>o, <2>4, <2>5, <2>6, <2>7, <2>8, <2>9 DEF AgentInv
<1>5. CASE ConsentDeliver(s)
  <2>1. UNCHANGED <<entry, zcap>> /\ Finish(s)
    BY <1>5 DEF ConsentDeliver
  <2>2. run'[s].zcaps = {} /\ pc'[s] = "idle" /\ Elsewhere(s)
    BY <1>t, <2>1 DEF Finish, NoRun, Elsewhere
  <2>3. Filed' /\ Unrecorded'
    BY <1>i, <2>1, <2>2 DEF Filed, Unrecorded, Pending, Elsewhere
  <2>4. Spent'
    BY <1>1, <2>1 DEF Spent, passVars
  <2>5. CarriedIsPlaced'
    <3> SUFFICES ASSUME NEW g \in Grants, Carried(g)' PROVE Placed(g)'
      BY DEF CarriedIsPlaced
    <3>1. Placed(g)
      BY <1>3, <1>i DEF CarriedIsPlaced
    <3> QED
      BY <2>1, <2>2, <3>1 DEF Placed, Elsewhere
  <2>6. ASSUME NEW g \in Grants, source'[g] # 0 PROVE Renewed(g)'
    <3>1. Renewed(g) /\ source'[g] = source[g]
      BY <1>i, <1>2, <2>6
    <3>2. \A t \in Sessions : Pending(t)' \subseteq Pending(t)
      BY <2>2 DEF Pending, Elsewhere
    <3> QED
      BY <2>1, <2>2, <3>1, <3>2 DEF Renewed, Elsewhere
  <2>7. OneRenewal'
    BY <1>i, <1>2, <2>1 DEF OneRenewal
  <2> QED
    BY <1>2, <1>3, <1>o, <2>3, <2>4, <2>5, <2>6, <2>7 DEF AgentInv
<1>6. CASE /\ \A p \in Parties : \A G \in SUBSET Grants : ~ConsentStart(s, p, G)
           /\ ~ConsentDeliver(s)
  <2>1. Local(s) /\ Fades
    BY <1>1, <1>6, ConsentLocal DEF Local
  <2> QED
    BY <1>1, <1>2, <1>3, <2>1, FadesSpends, CeremonyStep
<1> QED
  BY <1>4, <1>5, <1>6

-----------------------------------------------------------------------------
\* The steps of a pass, but for the renewal itself, are in the background.

LEMMA NoPassType == NoPass \in PassType
<1>1. AbsentEntry \in EntryType
  BY DEF AbsentEntry, EntryType
<1> QED
  BY <1>1 DEF NoPass, PassType

\* What a pass reads are entries.
LEMMA ReadingType ==
  ASSUME Shape, PassOK, NEW s \in Sessions
  PROVE  /\ AgentListing \in [Agents -> EntryType]
         /\ \A p \in Agents : AgentListing[p].outbox = entry[p].outbox
         /\ Refreshed(s) \in [Agents -> EntryType]
         /\ \A p \in Agents : Refreshed(s)[p].outbox
              \subseteq pass[s].view[p].outbox \cup entry[p].outbox
<1>1. \A p \in Agents : p \in Parties
  BY DEF Parties
<1>2. entry \in [Parties -> EntryType] /\ pass[s].view \in [Agents -> EntryType]
  BY DEF Shape, StoredOK, PassOK, PassType
<1> QED
  BY <1>1, <1>2 DEF AgentListing, Refreshed

\* A pass that moves on, over a mailbox that may lose a message.
LEMMA PassTurn ==
  ASSUME Shape, PassOK, Spent, NEW s \in Sessions, NEW q \in PassType,
         pass' = [pass EXCEPT ![s] = q],
         q.check \subseteq withdrawn, \A g \in q.dues : Grantee[g] \in Agents,
         \A p \in Agents : q.view[p].outbox
                             \subseteq pass[s].view[p].outbox \cup entry[p].outbox,
         mail' \subseteq mail,
         UNCHANGED <<opened, closed, due, expired, withdrawn, source>>,
         Fades, \A p \in Parties : entry'[p].outbox \subseteq entry[p].outbox
  PROVE  PassOK' /\ Spent' /\ \A g \in Grants : Carried(g)' => Carried(g)
<1>1. /\ pass' \in [Sessions -> PassType] /\ pass'[s] = q
      /\ \A t \in Sessions \ {s} : pass'[t] = pass[t]
  BY DEF PassOK
<1>2. PassOK'
  BY <1>1 DEF PassOK
<1>3. Spent'
  BY <1>1 DEF PassOK, Spent, Fades
<1>4. ASSUME NEW g \in Grants, Carried(g)' PROVE Carried(g)
  <2>1. Agents \subseteq Parties
    BY DEF Parties
  <2>2. CASE \E p \in Parties : \E G \in entry'[p].outbox : g \in G
    BY <2>2 DEF Carried
  <2>3. CASE \E t \in Sessions : \E p \in Agents :
               \E G \in pass'[t].view[p].outbox : g \in G
    <3>1. PICK t \in Sessions, p \in Agents :
                 \E G \in pass'[t].view[p].outbox : g \in G
      BY <2>3
    <3>2. CASE t = s
      BY <1>1, <2>1, <3>1, <3>2 DEF Carried
    <3>3. CASE t # s
      BY <1>1, <3>1, <3>3 DEF Carried
    <3> QED
      BY <3>2, <3>3
  <2> QED
    BY <1>4, <2>2, <2>3 DEF Carried
<1> QED
  BY <1>2, <1>3, <1>4

\* A write of one agent's entry that forgets at most the dead.
LEMMA EntryTurn ==
  ASSUME Shape, NEW p \in Parties, NEW e \in EntryType, WriteEntry(p, e),
         e.grants \subseteq entry[p].grants,
         \A g \in entry[p].grants \ e.grants : zcap[g] = "dead",
         e.state = entry[p].state, e.seed = entry[p].seed,
         e.outbox \subseteq entry[p].outbox,
         UNCHANGED <<zcap, held, connected, knownAs, audit, roster, generator,
                     appKey, pc, run>>
  PROVE  /\ Shape' /\ Keeps /\ Fades
         /\ \A q \in Parties : entry'[q].outbox \subseteq entry[q].outbox
<1>1. \A q \in Parties : entry'[q] = IF q = p THEN e ELSE entry[q]
  BY DEF Shape, StoredOK, WriteEntry
<1>2. entry' \in [Parties -> EntryType]
  BY DEF Shape, StoredOK, WriteEntry
<1>3. \A q \in Parties : entry'[q].grants # {} => entry'[q].state = "live"
  BY <1>1 DEF Shape, StoredOK
<1>4. Shape'
  BY <1>2, <1>3 DEF Shape, StoredOK
<1> QED
  BY <1>1, <1>4 DEF Keeps, Fades

\* The directory and the sessions stand still.
LEMMA StoreStands ==
  ASSUME Shape, UNCHANGED vars
  PROVE  /\ Shape' /\ Keeps /\ Fades
         /\ UNCHANGED <<pc, run, knownAs, held>>
         /\ \A q \in Parties : entry'[q].outbox \subseteq entry[q].outbox
  BY DEF Shape, StoredOK, vars, Keeps, Fades

\* A pass that goes to its next phase.
LEMMA EnterBackground ==
  ASSUME Shape, PassOK, Spent, NEW s \in Sessions,
         NEW phase \in {"check", "push", "prune"}, Enter(s, phase),
         UNCHANGED <<vars, mail, opened, closed, due, expired, withdrawn, source>>
  PROVE  Background
<1> DEFINE q == [pass[s] EXCEPT !.at = phase, !.view = Refreshed(s),
                                !.dirty = {}, !.done = {}, !.kept = {},
                                !.dues = {}, !.reread = FALSE]
<1>1. pass[s] \in PassType /\ Refreshed(s) \in [Agents -> EntryType]
  BY ReadingType DEF PassOK
<1>2. q \in PassType /\ q.view = Refreshed(s) /\ q.check = pass[s].check
  BY <1>1 DEF PassType
<1>3. pass' = [pass EXCEPT ![s] = q]
  BY DEF Enter
<1>4. q.check \subseteq withdrawn /\ q.dues = {}
  BY <1>1, <1>2 DEF Spent, PassType
<1>5. \A p \in Agents : q.view[p].outbox
                          \subseteq pass[s].view[p].outbox \cup entry[p].outbox
  BY <1>2, ReadingType
<1> HIDE DEF q
<1>6. PassOK' /\ Spent' /\ \A g \in Grants : Carried(g)' => Carried(g)
  BY <1>2, <1>3, <1>4, <1>5, PassTurn, StoreStands
<1> QED
  BY <1>6, StoreStands DEF Background

\* A pass that turns to q while the directory stands still.
LEMMA TurnBackground ==
  ASSUME Shape, PassOK, Spent, NEW s \in Sessions, NEW q \in PassType,
         pass' = [pass EXCEPT ![s] = q],
         q.check \subseteq withdrawn, \A g \in q.dues : Grantee[g] \in Agents,
         \A p \in Agents : q.view[p].outbox
                             \subseteq pass[s].view[p].outbox \cup entry[p].outbox,
         mail' \subseteq mail,
         UNCHANGED <<vars, opened, closed, due, expired, withdrawn, source>>
  PROVE  Background
<1>1. PassOK' /\ Spent' /\ \A g \in Grants : Carried(g)' => Carried(g)
  BY PassTurn, StoreStands
<1> QED
  BY <1>1, StoreStands DEF Background

\* A pass that turns to q while it writes an agent's entry.
LEMMA WriteBackground ==
  ASSUME Shape, PassOK, Spent, NEW s \in Sessions, NEW q \in PassType,
         pass' = [pass EXCEPT ![s] = q],
         q.check = pass[s].check, q.view = pass[s].view, q.dues = pass[s].dues,
         NEW p \in Agents, NEW e \in EntryType, WriteEntry(p, e),
         e.grants \subseteq entry[p].grants,
         \A g \in entry[p].grants \ e.grants : zcap[g] = "dead",
         e.state = entry[p].state, e.seed = entry[p].seed,
         e.outbox \subseteq entry[p].outbox,
         UnchangedOutside,
         UNCHANGED <<zcap, audit, mail, opened, closed, due, expired, withdrawn,
                     source>>
  PROVE  Background
<1>1. p \in Parties
  BY DEF Parties
<1>2. UNCHANGED <<zcap, held, connected, knownAs, audit, roster, generator,
                  appKey, pc, run>>
  BY DEF UnchangedOutside
<1>3. /\ Shape' /\ Keeps /\ Fades
      /\ \A r \in Parties : entry'[r].outbox \subseteq entry[r].outbox
  BY <1>1, <1>2, EntryTurn
<1>4. q.check \subseteq withdrawn /\ \A g \in q.dues : Grantee[g] \in Agents
  BY DEF Spent, PassOK
<1>5. PassOK' /\ Spent' /\ \A g \in Grants : Carried(g)' => Carried(g)
  BY <1>3, <1>4, PassTurn
<1> QED
  BY <1>2, <1>3, <1>5 DEF Background

\* A step of a pass over the directory, but for the renewal itself, is in the
\* background.
LEMMA PassBackground ==
  ASSUME ConnectionsAssumption, AgentAssumption, AgentInv, NEW s \in Sessions,
         PassStep(s), \A g \in Grants : ~RenewRecord(s, g)
  PROVE  Background
<1>i. Shape /\ PassOK /\ Spent
  BY DEF AgentInv, IndexInv
<1>t. /\ pass[s] \in PassType /\ pass[s].check \subseteq withdrawn
      /\ \A g \in pass[s].dues : Grantee[g] \in Agents
      /\ pass \in [Sessions -> PassType] /\ pass = [pass EXCEPT ![s] = pass[s]]
      /\ \A p \in Agents : p \in Parties /\ entry[p] \in EntryType
      /\ \A m \in Channels : Opener[m] \in Agents
      /\ withdrawn \in SUBSET Grants /\ due \in SUBSET Grants
      /\ \A g \in withdrawn \cup expired : zcap[g] = "dead"
      /\ entry \in [Parties -> EntryType]
  BY <1>i DEF PassOK, Spent, Shape, StoredOK, Parties, AgentAssumption
<1>o. \A p \in Agents : pass[s].view[p].outbox
        \subseteq pass[s].view[p].outbox \cup entry[p].outbox
  OBVIOUS
<1>l. /\ AgentListing \in [Agents -> EntryType]
      /\ \A p \in Agents : AgentListing[p].outbox
           \subseteq pass[s].view[p].outbox \cup entry[p].outbox
  BY <1>i, ReadingType
<1>1. ASSUME PassStart(s) PROVE Background
  <2> DEFINE q == [NoPass EXCEPT !.at = "drain", !.view = AgentListing]
  <2>1. q \in PassType /\ q.view = AgentListing /\ q.check = {} /\ q.dues = {}
    BY <1>l, NoPassType DEF PassType, NoPass
  <2>2. /\ pass' = [pass EXCEPT ![s] = q] /\ mail' \subseteq mail
        /\ UNCHANGED <<vars, opened, closed, due, expired, withdrawn, source>>
    BY <1>1 DEF PassStart
  <2> HIDE DEF q
  <2> QED
    BY <1>i, <1>l, <2>1, <2>2, TurnBackground
<1>2. ASSUME NEW m \in Channels, DrainReread(s, m) PROVE Background
  <2> DEFINE q == [pass[s] EXCEPT !.reread = TRUE, !.view = AgentListing]
  <2>1. q \in PassType /\ q.view = AgentListing /\ q.check = pass[s].check
        /\ q.dues = pass[s].dues
    BY <1>t, <1>l DEF PassType
  <2>2. /\ pass' = [pass EXCEPT ![s] = q] /\ mail' \subseteq mail
        /\ UNCHANGED <<vars, opened, closed, due, expired, withdrawn, source>>
    BY <1>2 DEF DrainReread
  <2> HIDE DEF q
  <2> QED
    BY <1>i, <1>t, <1>l, <2>1, <2>2, TurnBackground
<1>3. ASSUME NEW m \in Channels, DrainRefuse(s, m) \/ DrainDelete(s, m)
      PROVE  Background
  <2>1. /\ pass' = [pass EXCEPT ![s] = pass[s]] /\ mail' \subseteq mail
        /\ UNCHANGED <<vars, opened, closed, due, expired, withdrawn, source>>
    BY <1>3, <1>t DEF DrainRefuse, DrainDelete
  <2> QED
    BY <1>i, <1>t, <1>o, <2>1, TurnBackground
<1>4. ASSUME NEW m \in Channels, DrainStore(s, m) PROVE Background
  <2> DEFINE p == Opener[m]
             q == [pass[s] EXCEPT !.kept = @ \cup {m}, !.dirty = @ \cup {p}]
             f == [entry[p] EXCEPT !.channel = @ \cup {m}]
  <2>1. p \in Agents /\ p \in Parties
    BY <1>t
  <2>2. /\ q \in PassType /\ q.view = pass[s].view /\ q.check = pass[s].check
        /\ q.dues = pass[s].dues
        /\ pass' = [pass EXCEPT ![s] = q]
    <3>1. pass[s].kept \cup {m} \in SUBSET Channels
      BY <1>t DEF PassType
    <3>2. pass[s].dirty \cup {p} \in SUBSET Agents
      BY <1>t, <2>1 DEF PassType
    <3>3. pass[s] \in PassType
      BY <1>t
    <3>4. /\ q \in PassType /\ q.view = pass[s].view /\ q.check = pass[s].check
          /\ q.dues = pass[s].dues
      BY <3>1, <3>2, <3>3 DEF PassType
    <3> QED
      BY <1>4, <3>4 DEF DrainStore
  <2>3. /\ f \in EntryType /\ f.grants = entry[p].grants
        /\ f.state = entry[p].state /\ f.seed = entry[p].seed
        /\ f.outbox = entry[p].outbox
    <3>1. entry[p] \in EntryType
      BY <1>t, <2>1
    <3>2. entry[p].channel \cup {m} \in SUBSET Channels
      BY <3>1 DEF EntryType
    <3> QED
      BY <3>1, <3>2 DEF EntryType
  <2>4. WriteEntry(p, f) \/ WriteEntry(p, entry[p])
    BY <1>4, <1>t, <2>1 DEF DrainStore, WriteEntry
  <2>5. /\ UnchangedOutside
        /\ UNCHANGED <<zcap, audit, mail, opened, closed, due, expired,
                       withdrawn, source>>
    BY <1>4 DEF DrainStore
  <2> HIDE DEF p, q, f
  <2>6. PICK e \in {f, entry[p]} : WriteEntry(p, e)
    BY <2>4
  <2>7. /\ e \in EntryType /\ e.grants = entry[p].grants
        /\ e.state = entry[p].state /\ e.seed = entry[p].seed
        /\ e.outbox = entry[p].outbox
    BY <1>t, <2>1, <2>3, <2>6
  <2> QED
    BY <1>i, <2>1, <2>2, <2>5, <2>6, <2>7, WriteBackground
<1>5. ASSUME DrainEnd(s) \/ RenewNothing(s) \/ RenewEnd(s) \/ PushEnd(s)
      PROVE  Background
  <2>1. /\ \E phase \in {"check", "push", "prune"} : Enter(s, phase)
        /\ UNCHANGED <<vars, mail, opened, closed, due, expired, withdrawn, source>>
    BY <1>5 DEF DrainEnd, RenewNothing, RenewEnd, PushEnd
  <2> QED
    BY <1>i, <2>1, EnterBackground
<1>6. ASSUME RenewCheck(s) PROVE Background
  <2> DEFINE q == [pass[s] EXCEPT !.at = "renew", !.checked = TRUE,
                                  !.check = withdrawn,
                                  !.dues = DueGrants(pass[s].view)]
  <2>1. DueGrants(pass[s].view) \subseteq Grants
    BY <1>t DEF DueGrants
  <2>2. /\ q \in PassType /\ q.view = pass[s].view /\ q.check = withdrawn
        /\ \A g \in q.dues : Grantee[g] \in Agents
    BY <1>t, <2>1 DEF PassType, DueGrants, WithChannel
  <2>3. /\ pass' = [pass EXCEPT ![s] = q] /\ mail' \subseteq mail
        /\ UNCHANGED <<vars, opened, closed, due, expired, withdrawn, source>>
    BY <1>6 DEF RenewCheck
  <2> HIDE DEF q
  <2> QED
    BY <1>i, <1>o, <2>2, <2>3, TurnBackground
<1>7. ASSUME NEW p \in Agents, PushDeliver(s, p) PROVE Background
  <2>1. PICK G \in Sendable(s, p) :
               /\ held' = held \cup G
               /\ pass' = [pass EXCEPT ![s].sent = @ \cup {G}]
    BY <1>7 DEF PushDeliver
  <2> DEFINE q == [pass[s] EXCEPT !.sent = @ \cup {G}]
  <2>2. G \in pass[s].view[p].outbox /\ G \in SUBSET Grants
    BY <1>t, <2>1 DEF Sendable, PassType, EntryType
  <2>3. /\ q \in PassType /\ q.view = pass[s].view /\ q.check = pass[s].check
        /\ q.dues = pass[s].dues
        /\ pass' = [pass EXCEPT ![s] = q]
    BY <1>t, <2>1, <2>2 DEF PassType
  <2>4. UNCHANGED <<entry, zcap, connected, knownAs, audit, roster, generator,
                    appKey, pc, run, mail, opened, closed, due, expired,
                    withdrawn, source>>
    BY <1>7 DEF PushDeliver
  <2> HIDE DEF q
  <2>5. Shape' /\ Keeps /\ Fades
    BY <1>i, <2>1, <2>2, <2>4 DEF Shape, StoredOK, Keeps, Fades
  <2>6. mail' \subseteq mail /\ \A r \in Parties : entry'[r].outbox \subseteq entry[r].outbox
    BY <2>4
  <2>7. PassOK' /\ Spent' /\ \A g \in Grants : Carried(g)' => Carried(g)
    BY <1>i, <1>t, <1>o, <2>3, <2>4, <2>5, <2>6, PassTurn
  <2>8. \A g \in held' \ held : Carried(g)
    BY <2>1, <2>2 DEF Carried
  <2> QED
    BY <2>1, <2>4, <2>5, <2>7, <2>8 DEF Background
<1>8. ASSUME NEW p \in Agents, PushSettle(s, p) PROVE Background
  <2>1. PICK G \in pass[s].view[p].outbox :
               WriteEntry(p, [entry[p] EXCEPT !.outbox = @ \ {G}])
    BY <1>8 DEF PushSettle
  <2> DEFINE r == [pass[s] EXCEPT !.dirty = @ \cup {p},
                                  !.delivered = @ \cup {p}]
             e == [entry[p] EXCEPT !.outbox = @ \ {G}]
  <2>2. /\ r \in PassType /\ r.view = pass[s].view /\ r.check = pass[s].check
        /\ r.dues = pass[s].dues
    BY <1>t DEF PassType
  <2>3. /\ e \in EntryType /\ e.grants = entry[p].grants
        /\ e.state = entry[p].state /\ e.seed = entry[p].seed
        /\ e.outbox \subseteq entry[p].outbox
        /\ WriteEntry(p, e)
    <3>1. entry[p] \in EntryType
      BY <1>t
    <3>2. entry[p].outbox \ {G} \in SUBSET SUBSET Grants
      BY <3>1 DEF EntryType
    <3> QED
      BY <2>1, <3>1, <3>2 DEF EntryType
  <2>4. pass' = [pass EXCEPT ![s] = r] \/ pass' = [pass EXCEPT ![s] = pass[s]]
    BY <1>8, <1>t DEF PushSettle
  <2>5. /\ UnchangedOutside
        /\ UNCHANGED <<zcap, audit, mail, opened, closed, due, expired,
                       withdrawn, source>>
    BY <1>8 DEF PushSettle
  <2> HIDE DEF r, e
  <2>6. PICK q \in {r, pass[s]} : pass' = [pass EXCEPT ![s] = q]
    BY <2>4
  <2>7. /\ q \in PassType /\ q.view = pass[s].view /\ q.check = pass[s].check
        /\ q.dues = pass[s].dues
    BY <1>t, <2>2, <2>6
  <2> QED
    BY <1>i, <2>3, <2>5, <2>6, <2>7, WriteBackground
<1>9. ASSUME NEW p \in Agents, PushRefused(s, p) PROVE Background
  <2> DEFINE q == [pass[s] EXCEPT !.dirty = @ \cup {p}, !.done = @ \cup {p}]
             e == [entry[p] EXCEPT !.channel = @ \ {Through(s, p)}]
  <2>1. /\ q \in PassType /\ q.view = pass[s].view /\ q.check = pass[s].check
        /\ q.dues = pass[s].dues
        /\ pass' = [pass EXCEPT ![s] = q]
    BY <1>9, <1>t DEF PushRefused, PassType
  <2>2. /\ e \in EntryType /\ e.grants = entry[p].grants
        /\ e.state = entry[p].state /\ e.seed = entry[p].seed
        /\ e.outbox = entry[p].outbox
        /\ WriteEntry(p, e)
    <3>1. entry[p] \in EntryType
      BY <1>t
    <3>2. entry[p].channel \ {Through(s, p)} \in SUBSET Channels
      BY <3>1 DEF EntryType
    <3> QED
      BY <1>9, <3>1, <3>2 DEF PushRefused, EntryType
  <2>3. /\ UnchangedOutside
        /\ UNCHANGED <<zcap, audit, mail, opened, closed, due, expired,
                       withdrawn, source>>
    BY <1>9 DEF PushRefused
  <2> HIDE DEF q, e
  <2> QED
    BY <1>i, <2>1, <2>2, <2>3, WriteBackground
<1>10. ASSUME NEW p \in Agents, Prune(s, p) PROVE Background
  <2> DEFINE q == [pass[s] EXCEPT !.done = @ \cup {p}]
             e == [entry[p] EXCEPT
                     !.grants = {g \in @ : IsLatest(g, @) \/ g \notin Prunable(s, p)},
                     !.outbox = {G \in @ : ~(G \subseteq expired)}]
  <2>1. /\ q \in PassType /\ q.view = pass[s].view /\ q.check = pass[s].check
        /\ q.dues = pass[s].dues
        /\ pass' = [pass EXCEPT ![s] = q]
    BY <1>10, <1>t DEF Prune, PassType
  <2>2. /\ e \in EntryType /\ e.grants \subseteq entry[p].grants
        /\ \A g \in entry[p].grants \ e.grants : g \in Prunable(s, p)
        /\ e.state = entry[p].state /\ e.seed = entry[p].seed
        /\ e.outbox \subseteq entry[p].outbox
    <3> DEFINE N == {g \in entry[p].grants :
                       IsLatest(g, entry[p].grants) \/ g \notin Prunable(s, p)}
               O == {G \in entry[p].outbox : ~(G \subseteq expired)}
    <3>1. entry[p] \in EntryType
      BY <1>t
    <3>2. N \in SUBSET Grants /\ O \in SUBSET SUBSET Grants
      BY <3>1 DEF EntryType
    <3>3. /\ N \subseteq entry[p].grants /\ O \subseteq entry[p].outbox
          /\ \A g \in entry[p].grants \ N : g \in Prunable(s, p)
      OBVIOUS
    <3>4. e = [entry[p] EXCEPT !.grants = N, !.outbox = O]
      OBVIOUS
    <3> HIDE DEF N, O, e
    <3> QED
      BY <3>1, <3>2, <3>3, <3>4 DEF EntryType
  <2>3. WriteEntry(p, e)
    BY <1>10 DEF Prune
  <2>4. \A g \in entry[p].grants \ e.grants : zcap[g] = "dead"
    BY <1>t, <2>2 DEF Prunable
  <2>5. /\ UnchangedOutside
        /\ UNCHANGED <<zcap, audit, mail, opened, closed, due, expired,
                       withdrawn, source>>
    BY <1>10 DEF Prune
  <2> HIDE DEF q, e
  <2> QED
    BY <1>i, <2>1, <2>2, <2>3, <2>4, <2>5, WriteBackground
<1>11. ASSUME PassEnd(s) PROVE Background
  <2>1. /\ pass' = [pass EXCEPT ![s] = NoPass] /\ mail' \subseteq mail
        /\ UNCHANGED <<vars, opened, closed, due, expired, withdrawn, source>>
    BY <1>11 DEF PassEnd
  <2>2. NoPass.check = {} /\ NoPass.dues = {}
        /\ \A p \in Agents : NoPass.view[p].outbox = {}
    BY DEF NoPass, AbsentEntry
  <2> QED
    BY <1>i, <2>1, <2>2, NoPassType, TurnBackground
<1> QED
  BY <1>1, <1>2, <1>3, <1>4, <1>5, <1>6, <1>7, <1>8, <1>9, <1>10, <1>11
  DEF PassStep

\* What came due, what is closed, and what is posted stays in the shape of the
\* passes.
LEMMA ClockBackground ==
  ASSUME Shape, Shape', UNCHANGED <<entry, held, knownAs, pc, run, pass, source>>,
         Fades, PassOK', Spent'
  PROVE  Background
<1>1. Keeps
  BY DEF Keeps
<1>2. \A g \in Grants : Carried(g)' => Carried(g)
  BY DEF Carried
<1> QED
  BY <1>1, <1>2 DEF Background

\* The agents, the clock, the account, and a decline are in the background too.
LEMMA OthersBackground ==
  ASSUME ConnectionsAssumption, AgentAssumption, AgentInv,
         \/ \E m \in Channels : Invite(m) \/ Close(m)
         \/ \E g \in Grants : ComeDue(g) \/ Expire(g)
         \/ \E G \in SUBSET Grants : Withdraw(G)
         \/ \E s \in Sessions, p \in Agents : Decline(s, p)
  PROVE  Background
<1>i. Shape /\ PassOK /\ Spent
  BY DEF AgentInv, IndexInv
<1>1. ASSUME NEW m \in Channels, Invite(m) \/ Close(m) PROVE Background
  <2>1. UNCHANGED vars /\ UNCHANGED <<pass, due, expired, withdrawn, source>>
    BY <1>1 DEF Invite, Close
  <2>2. PassOK' /\ Spent'
    BY <1>1, <1>i, <2>1 DEF Invite, Close, PassOK, Spent, vars
  <2>3. Shape' /\ Fades /\ UNCHANGED <<entry, held, knownAs, pc, run>>
    BY <1>i, <2>1, StoreStands DEF vars
  <2> QED
    BY <1>i, <2>1, <2>2, <2>3, ClockBackground
<1>2. ASSUME NEW g \in Grants, ComeDue(g) PROVE Background
  <2>1. UNCHANGED vars /\ UNCHANGED <<pass, mail, opened, closed, expired,
                                      withdrawn, source>>
    BY <1>2 DEF ComeDue
  <2>2. PassOK' /\ Spent'
    BY <1>2, <1>i, <2>1 DEF ComeDue, PassOK, Spent, vars
  <2>3. Shape' /\ Fades /\ UNCHANGED <<entry, held, knownAs, pc, run>>
    BY <1>i, <2>1, StoreStands DEF vars
  <2> QED
    BY <1>i, <2>1, <2>2, <2>3, ClockBackground
<1>r. ASSUME NEW G \in SUBSET Grants, \A g \in G : zcap[g] # "unsigned", Revoke(G)
      PROVE  /\ Fades /\ zcap' \in [Grants -> {"unsigned", "live", "dead"}]
             /\ \A g \in G : zcap'[g] = "dead"
             /\ \A g \in Grants : zcap[g] = "dead" => zcap'[g] = "dead"
  BY <1>r, <1>i DEF Shape, StoredOK, Revoke, Fades
<1>3. ASSUME NEW G \in SUBSET Grants, Revoke(G), \A g \in G : zcap[g] # "unsigned",
             UNCHANGED <<entry, held, connected, knownAs, audit, roster, generator,
                         appKey, pc, run, pass, mail, opened, closed, due, source>>,
             expired \subseteq expired', withdrawn \subseteq withdrawn',
             expired' \subseteq expired \cup G, withdrawn' \subseteq withdrawn \cup G,
             expired' \subseteq due
      PROVE  Background
  <2>1. /\ Fades /\ zcap' \in [Grants -> {"unsigned", "live", "dead"}]
        /\ \A g \in G : zcap'[g] = "dead"
        /\ \A g \in Grants : zcap[g] = "dead" => zcap'[g] = "dead"
    BY <1>3, <1>r
  <2>2. Shape'
    BY <1>3, <1>i, <2>1 DEF Shape, StoredOK
  <2>3. PassOK'
    BY <1>3, <1>i DEF PassOK
  <2>4. Spent'
    <3>1. \A g \in due' : zcap'[g] # "unsigned"
      BY <1>3, <1>i, <2>1 DEF PassOK, Spent, Fades
    <3>2. \A g \in expired' \cup withdrawn' : zcap'[g] = "dead"
      BY <1>3, <1>i, <2>1 DEF PassOK, Spent
    <3>3. \A s \in Sessions : pass'[s].check \subseteq withdrawn'
      BY <1>3, <1>i DEF Spent
    <3> QED
      BY <3>1, <3>2, <3>3 DEF Spent
  <2> QED
    BY <1>3, <1>i, <2>1, <2>2, <2>3, <2>4, ClockBackground
<1>4. ASSUME NEW g \in Grants, Expire(g) PROVE Background
  <2>1. g \in due /\ zcap[g] # "unsigned" /\ Revoke({g})
    BY <1>4, <1>i DEF Expire, Spent
  <2>2. /\ UNCHANGED <<entry, held, connected, knownAs, audit, roster, generator,
                       appKey, pc, run, pass, mail, opened, closed, due, source>>
        /\ expired' = expired \cup {g} /\ UNCHANGED withdrawn
    BY <1>4 DEF Expire
  <2>3. {g} \in SUBSET Grants /\ expired' \subseteq due
    BY <1>i, <2>1, <2>2 DEF PassOK
  <2> QED
    BY <1>3, <2>1, <2>2, <2>3
<1>5. ASSUME NEW G \in SUBSET Grants, Withdraw(G) PROVE Background
  <2>1. Revoke(G) /\ \A g \in G : zcap[g] # "unsigned"
    BY <1>5 DEF Withdraw
  <2>2. /\ UNCHANGED <<entry, held, connected, knownAs, audit, roster, generator,
                       appKey, pc, run, pass, mail, opened, closed, due, source>>
        /\ withdrawn' = withdrawn \cup G /\ UNCHANGED expired
    BY <1>5 DEF Withdraw
  <2>3. expired' \subseteq due
    BY <1>i, <2>2 DEF PassOK
  <2> QED
    BY <1>3, <2>1, <2>2, <2>3
<1>6. ASSUME NEW s \in Sessions, NEW p \in Agents, Decline(s, p) PROVE Background
  <2> DEFINE e == [entry[p] EXCEPT !.declined = TRUE]
  <2>1. p \in Parties /\ entry[p] \in EntryType
    BY <1>i DEF Parties, Shape, StoredOK
  <2>2. /\ e \in EntryType /\ e.grants = entry[p].grants
        /\ e.state = entry[p].state /\ e.seed = entry[p].seed
        /\ e.outbox = entry[p].outbox
    BY <2>1 DEF EntryType
  <2>3. /\ WriteEntry(p, e)
        /\ UNCHANGED <<zcap, held, connected, knownAs, audit, roster, generator,
                       appKey, pc, run, passVars>>
    BY <1>6 DEF Decline
  <2> HIDE DEF e
  <2>4. /\ Shape' /\ Keeps /\ Fades
        /\ \A q \in Parties : entry'[q].outbox \subseteq entry[q].outbox
    BY <1>i, <2>1, <2>2, <2>3, EntryTurn
  <2>5. PassOK' /\ Spent' /\ \A g \in Grants : Carried(g)' => Carried(g)
    BY <1>i, <2>3, <2>4, PassesStand, FadesSpends
  <2> QED
    BY <2>3, <2>4, <2>5 DEF Background, passVars
<1> QED
  BY <1>1, <1>2, <1>4, <1>5, <1>6

-----------------------------------------------------------------------------
\* The renewal, the restore, and a tab that closes.

\* The capability minted next is newer than all its party has, and unknown.
LEMMA FreshIsNew ==
  ASSUME ConnectionsAssumption, AgentAssumption, AgentInv, NEW p \in Parties,
         NEW fresh \in Grants, IsNext(fresh, p),
         zcap' = [zcap EXCEPT ![fresh] = "live"]
  PROVE  /\ zcap[fresh] = "unsigned" /\ Grantee[fresh] = p
         /\ \A g \in Grants : /\ g # fresh => zcap'[g] = zcap[g]
                              /\ zcap'[fresh] = "live"
         /\ zcap' \in [Grants -> {"unsigned", "live", "dead"}]
         /\ \A g \in Grants : zcap[g] # "unsigned" /\ Grantee[g] = p => g < fresh
         /\ fresh \notin held
         /\ \A q \in Parties : fresh \notin entry[q].grants
         /\ \A t \in Sessions : /\ fresh \notin run[t].zcaps
                                /\ \A q \in Parties : fresh \notin run[t].seen[q]
         /\ InOrder'
<1>1. zcap[fresh] = "unsigned" /\ Grantee[fresh] = p
  BY DEF IsNext, Unsigned
<1>2. zcap \in [Grants -> {"unsigned", "live", "dead"}] /\ Signed /\ InOrder
  BY DEF AgentInv, IndexInv, Shape, StoredOK
<1>3. \A g \in Grants : g \in Nat
  BY DEF AgentAssumption
<1>4. /\ \A g \in Grants : g # fresh => zcap'[g] = zcap[g]
      /\ zcap'[fresh] = "live"
      /\ zcap' \in [Grants -> {"unsigned", "live", "dead"}]
  BY <1>2
<1>5. ASSUME NEW g \in Grants, zcap[g] # "unsigned", Grantee[g] = p PROVE g < fresh
  <2>1. ~(fresh < g) /\ fresh # g
    BY <1>1, <1>2, <1>5 DEF InOrder
  <2> QED
    BY <1>3, <2>1
<1>6. InOrder'
  <2> SUFFICES ASSUME NEW g \in Grants, NEW h \in Grants, h < g,
                      Grantee[h] = Grantee[g], zcap'[g] # "unsigned"
               PROVE  zcap'[h] # "unsigned"
    BY DEF InOrder
  <2>1. CASE h = fresh
    BY <1>4, <2>1
  <2>2. CASE h # fresh /\ g = fresh
    <3>1. ~(fresh <= h)
      BY <1>3, <2>2
    <3>2. zcap[h] # "unsigned"
      BY <1>1, <2>2, <3>1 DEF IsNext, Unsigned
    <3> QED
      BY <1>4, <2>2, <3>2
  <2>3. CASE h # fresh /\ g # fresh
    BY <1>2, <1>4, <2>3 DEF InOrder
  <2> QED
    BY <2>1, <2>2, <2>3
<1> QED
  BY <1>1, <1>2, <1>4, <1>5, <1>6 DEF Signed

\* A pass renews a grant.
LEMMA RenewAgent ==
  ASSUME ConnectionsAssumption, AgentAssumption, AgentInv, NEW s \in Sessions,
         NEW g \in Grants, RenewRecord(s, g)
  PROVE  AgentInv'
<1> DEFINE p == Grantee[g]
<1>i. /\ IndexInv /\ Shape /\ Signed /\ Own /\ Indexed /\ PassOK /\ Filed
      /\ Unrecorded /\ InOrder /\ Spent /\ CarriedIsPlaced /\ OneRenewal
      /\ \A h \in Grants : source[h] # 0 => Renewed(h)
  BY DEF AgentInv, IndexInv
<1>1. /\ g \in pass[s].dues /\ IsListed(entry[p]) /\ IsLatest(g, entry[p].grants)
      /\ UnchangedOutside
      /\ UNCHANGED <<mail, opened, closed, due, expired, withdrawn>>
  BY DEF RenewRecord
<1>t. /\ p \in Agents /\ p \in Parties /\ entry[p] \in EntryType
      /\ pass[s] \in PassType /\ pass \in [Sessions -> PassType]
      /\ entry \in [Parties -> EntryType]
      /\ \A h \in Grants : Grantee[h] \in Parties /\ h \in Nat /\ h # 0
      /\ \A t \in Sessions : run[t].zcaps \in SUBSET Grants
      /\ \A t \in Sessions : \A q \in Parties : run[t].seen[q] \in SUBSET Grants
      /\ \A t \in Sessions : pc[t] # "idle" => run[t].party \in Parties
      /\ \A h \in Grants : source[h] # 0 => source[h] \in Grants
      /\ source \in [Grants -> Grants \cup {0}] /\ held \in SUBSET Grants
  BY <1>i, <1>1
  DEF PassOK, Shape, StoredOK, RunType, Parties, ConnectionsAssumption,
      AgentAssumption
<1>2. PICK fresh \in Grants :
        /\ IsNext(fresh, p)
        /\ zcap' = [zcap EXCEPT ![fresh] = "live"]
        /\ source' = [source EXCEPT ![fresh] = g]
        /\ WriteEntry(p, [entry[p] EXCEPT !.grants = @ \cup {fresh},
                                          !.outbox = {{fresh}}])
        /\ audit' \in {audit, audit \cup {fresh}}
  BY DEF RenewRecord
<1> DEFINE e == [entry[p] EXCEPT !.grants = @ \cup {fresh},
                                 !.outbox = {{fresh}}]
           q == [pass[s] EXCEPT !.dues = @ \ {g}, !.dirty = @ \cup {p}]
           r == [pass[s] EXCEPT !.dues = @ \ {g}]
<1>3. pass' = [pass EXCEPT ![s] = q] \/ pass' = [pass EXCEPT ![s] = r]
  BY DEF RenewRecord
<1>4. /\ q \in PassType /\ q.view = pass[s].view /\ q.check = pass[s].check
      /\ q.dues = pass[s].dues \ {g}
      /\ r \in PassType /\ r.view = pass[s].view /\ r.check = pass[s].check
      /\ r.dues = pass[s].dues \ {g}
  <2>1. pass[s] \in PassType /\ p \in Agents
    BY <1>t
  <2>2. pass[s].dues \ {g} \in SUBSET Grants /\ pass[s].dirty \cup {p} \in SUBSET Agents
    BY <2>1 DEF PassType
  <2> QED
    BY <2>1, <2>2 DEF PassType
<1>5. /\ e \in EntryType /\ e.grants = entry[p].grants \cup {fresh}
      /\ e.outbox = {{fresh}} /\ e.state = "live" /\ WriteEntry(p, e)
  <2>1. entry[p] \in EntryType /\ entry[p].state = "live"
    BY <1>1, <1>t DEF IsListed
  <2>2. /\ entry[p].grants \cup {fresh} \in SUBSET Grants
        /\ {{fresh}} \in SUBSET SUBSET Grants
    BY <2>1 DEF EntryType
  <2> QED
    BY <1>2, <2>1, <2>2 DEF EntryType
<1>6. IsLatest(g, entry[p].grants) /\ g \in entry[p].grants /\ zcap[g] # "unsigned"
  BY <1>1, <1>i, <1>t DEF IsLatest, Signed
<1> HIDE DEF e, q, r, p
<1>7. PICK w \in {q, r} : pass' = [pass EXCEPT ![s] = w]
  BY <1>3
<1>8. /\ w \in PassType /\ w.view = pass[s].view /\ w.check = pass[s].check
      /\ w.dues \subseteq pass[s].dues
      /\ pass' \in [Sessions -> PassType] /\ pass'[s] = w
      /\ \A t \in Sessions \ {s} : pass'[t] = pass[t]
  BY <1>4, <1>7, <1>t
<1>e. /\ \A x \in Parties : entry'[x] = IF x = p THEN e ELSE entry[x]
      /\ entry' \in [Parties -> EntryType]
  BY <1>5, <1>t DEF WriteEntry
<1>g. \A x \in Parties : \A h \in Grants :
        /\ h \in entry[x].grants => h \in entry'[x].grants
        /\ h \in entry'[x].grants => h \in entry[x].grants \/ (h = fresh /\ x = p)
        /\ fresh \in entry'[p].grants
  BY <1>5, <1>e, <1>t
<1>f. /\ zcap[fresh] = "unsigned" /\ Grantee[fresh] = p
      /\ \A h \in Grants : /\ h # fresh => zcap'[h] = zcap[h]
                           /\ zcap'[fresh] = "live"
      /\ zcap' \in [Grants -> {"unsigned", "live", "dead"}]
      /\ \A h \in Grants : zcap[h] # "unsigned" /\ Grantee[h] = p => h < fresh
      /\ fresh \notin held
      /\ \A x \in Parties : fresh \notin entry[x].grants
      /\ \A t \in Sessions : /\ fresh \notin run[t].zcaps
                             /\ \A x \in Parties : fresh \notin run[t].seen[x]
      /\ InOrder'
  BY <1>2, <1>t, FreshIsNew
<1>p. g < fresh /\ Grantee[g] = p /\ g # fresh
  BY <1>6, <1>f, <1>t DEF p
<1>s. /\ source'[fresh] = g
      /\ \A h \in Grants : h # fresh => source'[h] = source[h]
      /\ source' \in [Grants -> Grants \cup {0}]
  BY <1>2, <1>t
<1>u. UNCHANGED <<held, connected, knownAs, roster, generator, appKey, pc, run>>
  BY <1>1 DEF UnchangedOutside
<1>9. IndexInv'
  <2>1. Shape'
    <3>1. \A x \in Parties : entry'[x].grants # {} => entry'[x].state = "live"
      BY <1>5, <1>e, <1>i DEF Shape, StoredOK
    <3>2. audit' \in SUBSET Grants
      BY <1>2, <1>i DEF Shape, StoredOK
    <3> QED
      BY <1>e, <1>f, <1>i, <1>u, <3>1, <3>2 DEF Shape, StoredOK
  <2>2. Signed'
    BY <1>f, <1>g, <1>i, <1>u DEF Signed
  <2>3. Own'
    BY <1>i, <1>u DEF Own
  <2>4. Indexed'
    BY <1>f, <1>g, <1>i, <1>t, <1>u DEF Indexed
  <2>5. ASSUME NEW t \in Sessions PROVE RecordedBy(t)'
    BY <1>f, <1>g, <1>i, <1>t, <1>u DEF IndexInv, RecordedBy
  <2>6. ASSUME NEW t \in Sessions PROVE HandledBy(t)'
    <3>1. HandledBy(t)
      BY <1>i DEF IndexInv
    <3>2. \A h \in Grants : zcap[h] = "dead" => zcap'[h] = "dead"
      BY <1>f
    <3> QED
      BY <1>t, <1>u, <3>1, <3>2 DEF HandledBy, Unshared
  <2> QED
    BY <2>1, <2>2, <2>3, <2>4, <2>5, <2>6 DEF IndexInv
<1>10. PassOK'
  BY <1>1, <1>8, <1>i, <1>s DEF PassOK
<1>11. Filed'
  <2>1. \A x \in Parties : entry'[x].grants \in SUBSET Grants
    BY <1>e DEF EntryType
  <2> SUFFICES ASSUME NEW x \in Parties, NEW h \in entry'[x].grants
               PROVE  Grantee[h] = x
    BY DEF Filed
  <2>2. h \in entry[x].grants \/ (h = fresh /\ x = p)
    BY <1>g, <2>1
  <2> QED
    BY <1>f, <1>i, <2>2 DEF Filed
<1>12. Unrecorded'
  <2> SUFFICES ASSUME NEW t \in Sessions, NEW h \in Pending(t)', NEW x \in Parties
               PROVE  h \notin entry'[x].grants
    BY DEF Unrecorded
  <2>1. h \in Pending(t) /\ h \in run[t].zcaps
    BY <1>u DEF Pending
  <2>2. h \in Grants /\ h # fresh
    BY <1>f, <1>t, <2>1
  <2> QED
    BY <1>g, <1>i, <2>1, <2>2 DEF Unrecorded
<1>13. Spent'
  <2>1. \A h \in expired \cup withdrawn : h \in Grants
    BY <1>i DEF PassOK
  <2>2. \A t \in Sessions : pass'[t].check = pass[t].check
    BY <1>8
  <2> QED
    BY <1>1, <1>f, <1>i, <2>1, <2>2 DEF Spent, PassOK
<1>14. CarriedIsPlaced'
  <2> SUFFICES ASSUME NEW h \in Grants, Carried(h)' PROVE Placed(h)'
    BY DEF CarriedIsPlaced
  <2>1. Carried(h) \/ h = fresh
    <3>1. CASE \E x \in Parties : \E G \in entry'[x].outbox : h \in G
      <4>1. PICK x \in Parties : \E G \in entry'[x].outbox : h \in G
        BY <3>1
      <4>2. CASE x = p
        BY <1>5, <1>e, <4>1, <4>2
      <4>3. CASE x # p
        BY <1>e, <4>1, <4>3 DEF Carried
      <4> QED
        BY <4>2, <4>3
    <3>2. CASE \E t \in Sessions : \E x \in Agents : \E G \in pass'[t].view[x].outbox : h \in G
      <4>1. \A t \in Sessions : pass'[t].view = pass[t].view
        BY <1>8
      <4> QED
        BY <3>2, <4>1 DEF Carried
    <3> QED
      BY <3>1, <3>2 DEF Carried
  <2>2. CASE h = fresh
    BY <1>f, <1>g, <1>u, <2>2, <1>t DEF Placed
  <2>3. CASE h # fresh
    <3>1. Placed(h)
      BY <1>i, <2>1, <2>3 DEF CarriedIsPlaced
    <3> QED
      BY <1>f, <1>g, <1>t, <1>u, <2>3, <3>1 DEF Placed
  <2> QED
    BY <2>2, <2>3
<1>15. ASSUME NEW h \in Grants, source'[h] # 0 PROVE Renewed(h)'
  <2>1. CASE h = fresh
    <3>1. \A t \in Sessions : g \notin Pending(t)
      BY <1>6, <1>i, <1>t DEF Unrecorded
    <3>2. \A t \in Sessions : Pending(t)' = Pending(t)
      BY <1>u DEF Pending
    <3> QED
      <4>1. source'[h] = g /\ g < h /\ Grantee[g] = Grantee[h] /\ Grantee[h] = p
        BY <1>f, <1>p, <1>s, <2>1
      <4>2. zcap'[h] # "unsigned" /\ zcap'[g] # "unsigned"
        BY <1>6, <1>f, <1>p, <2>1
      <4>3. \A t \in Sessions : h \notin run'[t].zcaps /\ g \notin Pending(t)'
        BY <1>f, <1>u, <2>1, <3>1, <3>2
      <4>4. h \in entry'[Grantee[h]].grants
        BY <1>f, <1>g, <1>t, <2>1
      <4> QED
        BY <4>1, <4>2, <4>3, <4>4 DEF Renewed
  <2>2. CASE h # fresh
    <3>1. Renewed(h) /\ source'[h] = source[h] /\ source[h] \in Grants
      BY <1>i, <1>s, <1>t, <1>15, <2>2
    <3>2. source[h] # fresh /\ zcap'[h] = zcap[h] /\ zcap'[source[h]] = zcap[source[h]]
      BY <1>f, <2>2, <3>1 DEF Renewed
    <3>3. \A t \in Sessions : Pending(t)' = Pending(t)
      BY <1>u DEF Pending
    <3>4. /\ source[h] \in entry'[Grantee[h]].grants => source[h] \in entry[Grantee[h]].grants
          /\ h \in entry[Grantee[h]].grants => h \in entry'[Grantee[h]].grants
      BY <1>g, <1>t, <3>1, <3>2
    <3> QED
      BY <1>u, <3>1, <3>2, <3>3, <3>4 DEF Renewed
  <2> QED
    BY <2>1, <2>2
<1>16. OneRenewal'
  \* A live successor of g would stand on the entry, newer than its newest.
  <2>1. ASSUME NEW h \in Grants, h # fresh, source[h] = g PROVE zcap[h] # "live"
    <3>1. Renewed(h) /\ g < h /\ Grantee[h] = p
      BY <1>i, <1>p, <1>t, <2>1 DEF Renewed
    <3>2. zcap[h] = "live" => h \in entry[p].grants
      BY <1>6, <2>1, <3>1 DEF Renewed
    <3>3. h \in entry[p].grants => h <= g
      BY <1>6 DEF IsLatest
    <3> QED
      BY <1>t, <3>1, <3>2, <3>3
  <2> SUFFICES ASSUME NEW a \in Grants, NEW b \in Grants \ {a}, source'[a] # 0,
                      source'[a] = source'[b]
               PROVE  ~(zcap'[a] = "live" /\ zcap'[b] = "live")
    BY DEF OneRenewal
  <2>2. CASE a = fresh
    BY <1>f, <1>s, <2>1, <2>2
  <2>3. CASE b = fresh
    BY <1>f, <1>s, <2>1, <2>3
  <2>4. CASE a # fresh /\ b # fresh
    BY <1>f, <1>i, <1>s, <2>4 DEF OneRenewal
  <2> QED
    BY <2>2, <2>3, <2>4
<1> QED
  BY <1>9, <1>10, <1>11, <1>12, <1>13, <1>14, <1>15, <1>16, <1>f DEF AgentInv

\* A restore signs a capability, and holds it until it records it.
LEMMA RestoreMintAgent ==
  ASSUME ConnectionsAssumption, AgentAssumption, AgentInv, NEW s \in Sessions,
         NEW p \in Agents, RestoreMint(s, p)
  PROVE  AgentInv'
<1>i. /\ IndexInv /\ Shape /\ Signed /\ Own /\ Indexed /\ PassOK /\ Filed
      /\ Unrecorded /\ InOrder /\ Spent /\ CarriedIsPlaced /\ OneRenewal
      /\ \A h \in Grants : source[h] # 0 => Renewed(h)
  BY DEF AgentInv, IndexInv
<1>1. PICK fresh \in Grants :
        /\ IsNext(fresh, p)
        /\ zcap' = [zcap EXCEPT ![fresh] = "live"]
        /\ run' = [run EXCEPT ![s] = [NoRun EXCEPT !.party = p, !.zcaps = {fresh}]]
  BY DEF RestoreMint
<1>2. /\ pc' = [pc EXCEPT ![s] = "restore"]
      /\ UNCHANGED <<entry, held, connected, knownAs, audit, roster, generator,
                     appKey, passVars>>
  BY DEF RestoreMint, Goto
<1> DEFINE r == [NoRun EXCEPT !.party = p, !.zcaps = {fresh}]
<1>3. /\ r \in RunType /\ r.party = p /\ r.zcaps = {fresh}
      /\ \A q \in Parties : r.seen[q] = {}
  <2>1. p \in Parties
    BY DEF Parties
  <2> QED
    BY <2>1, NoRunType DEF RunType, NoRun, NoListing
<1> HIDE DEF r
<1>t. /\ p \in Parties /\ run \in [Sessions -> RunType]
      /\ pc \in [Sessions -> AllSteps] /\ "restore" \in AllSteps
      /\ \A h \in Grants : Grantee[h] \in Parties
      /\ \A t \in Sessions : run[t].zcaps \in SUBSET Grants
      /\ \A t \in Sessions : \A q \in Parties : run[t].seen[q] \in SUBSET Grants
      /\ \A t \in Sessions : pc[t] # "idle" => run[t].party \in Parties
      /\ \A h \in Grants : source[h] # 0 => source[h] \in Grants
      /\ held \in SUBSET Grants
  BY <1>i
  DEF PassOK, Shape, StoredOK, RunType, Parties, AllSteps, ConnectionsAssumption
<1>r. /\ run'[s] = r /\ pc'[s] = "restore" /\ run' \in [Sessions -> RunType]
      /\ pc' \in [Sessions -> AllSteps]
      /\ \A t \in Sessions \ {s} : run'[t] = run[t] /\ pc'[t] = pc[t]
  BY <1>1, <1>2, <1>3, <1>t DEF r
<1>f. /\ zcap[fresh] = "unsigned" /\ Grantee[fresh] = p
      /\ \A h \in Grants : /\ h # fresh => zcap'[h] = zcap[h]
                           /\ zcap'[fresh] = "live"
      /\ zcap' \in [Grants -> {"unsigned", "live", "dead"}]
      /\ fresh \notin held
      /\ \A x \in Parties : fresh \notin entry[x].grants
      /\ \A t \in Sessions : /\ fresh \notin run[t].zcaps
                             /\ \A x \in Parties : fresh \notin run[t].seen[x]
      /\ InOrder'
  BY <1>1, <1>t, FreshIsNew
<1>d. \A h \in Grants : zcap[h] = "dead" => zcap'[h] = "dead"
  BY <1>f
<1>4. IndexInv'
  <2>1. Shape'
    BY <1>2, <1>3, <1>f, <1>i, <1>r, <1>t DEF Shape, StoredOK
  <2>2. Signed'
    BY <1>2, <1>3, <1>f, <1>i, <1>r DEF Signed
  <2>3. Own'
    BY <1>2, <1>3, <1>f, <1>i, <1>r DEF Own
  <2>4. Indexed'
    BY <1>2, <1>f, <1>i, <1>t DEF Indexed
  <2>5. ASSUME NEW t \in Sessions PROVE RecordedBy(t)'
    <3>1. RecordedBy(t)
      BY <1>i DEF IndexInv
    <3>2. CASE t = s
      BY <1>r, <3>2 DEF RecordedBy
    <3>3. CASE t # s
      BY <1>2, <1>f, <1>r, <1>t, <3>1, <3>3 DEF RecordedBy
    <3> QED
      BY <3>2, <3>3
  <2>6. ASSUME NEW t \in Sessions PROVE HandledBy(t)'
    <3>1. HandledBy(t)
      BY <1>i DEF IndexInv
    <3>2. CASE t = s
      BY <1>r, <3>2 DEF HandledBy
    <3>3. CASE t # s
      BY <1>d, <1>r, <1>t, <3>1, <3>3 DEF HandledBy, Unshared
    <3> QED
      BY <3>2, <3>3
  <2> QED
    BY <2>1, <2>2, <2>3, <2>4, <2>5, <2>6 DEF IndexInv
<1>5. PassOK'
  BY <1>2, <1>i DEF PassOK, passVars
<1>6. Filed'
  BY <1>2, <1>i DEF Filed
<1>7. /\ \A t \in Sessions \ {s} : Pending(t)' = Pending(t)
      /\ Pending(s)' = {fresh}
  BY <1>3, <1>r DEF Pending
<1>8. Unrecorded'
  BY <1>2, <1>7, <1>f, <1>i DEF Unrecorded
<1>9. Spent'
  BY <1>2, <1>f, <1>i DEF PassOK, Spent, passVars
<1>10. CarriedIsPlaced'
  <2> SUFFICES ASSUME NEW h \in Grants, Carried(h)' PROVE Placed(h)'
    BY DEF CarriedIsPlaced
  <2>1. Carried(h)
    BY <1>2 DEF Carried, passVars
  <2>2. Placed(h)
    BY <1>i, <2>1 DEF CarriedIsPlaced
  <2> QED
    BY <1>2, <1>3, <1>f, <1>r, <2>2 DEF Placed
<1>11. ASSUME NEW h \in Grants, source'[h] # 0 PROVE Renewed(h)'
  <2>1. Renewed(h) /\ source'[h] = source[h] /\ source[h] \in Grants
    BY <1>2, <1>i, <1>t, <1>11 DEF passVars
  <2>2. h # fresh /\ source[h] # fresh
    BY <1>f, <2>1 DEF Renewed
  <2> QED
    <3>1. UNCHANGED entry
      BY <1>2
    <3>2. zcap'[h] = zcap[h] /\ zcap'[source[h]] = zcap[source[h]]
      BY <1>f, <2>1, <2>2
    <3>3. \A t \in Sessions : h \notin run'[t].zcaps /\ source[h] \notin Pending(t)'
      BY <1>3, <1>7, <1>r, <2>1, <2>2 DEF Renewed
    <3> QED
      BY <2>1, <3>1, <3>2, <3>3 DEF Renewed
<1>12. OneRenewal'
  <2>1. \A h \in Grants : source[h] # 0 => h # fresh
    BY <1>f, <1>i DEF Renewed
  <2> QED
    BY <1>2, <1>f, <1>i, <2>1 DEF OneRenewal, passVars
<1> QED
  BY <1>4, <1>5, <1>6, <1>8, <1>9, <1>10, <1>11, <1>12, <1>f DEF AgentInv

\* The owner's consent to nothing.
LEMMA RestoreMarkerAgent ==
  ASSUME ConnectionsAssumption, AgentAssumption, AgentInv, NEW s \in Sessions,
         NEW p \in Agents, RestoreMarker(s, p)
  PROVE  AgentInv' /\ Local(s)
<1>i. IndexInv /\ Shape /\ PassOK /\ Spent
  BY DEF AgentInv, IndexInv
<1> DEFINE r == [NoRun EXCEPT !.party = p]
<1>1. /\ r \in RunType /\ r.party = p /\ r.zcaps = {}
      /\ \A q \in Parties : r.seen[q] = {}
  <2>1. p \in Parties
    BY DEF Parties
  <2> QED
    BY <2>1, NoRunType DEF RunType, NoRun, NoListing
<1>2. /\ run' = [run EXCEPT ![s] = r] /\ Goto(s, "restore")
      /\ UNCHANGED <<stored, passVars>>
  BY DEF RestoreMarker
<1> HIDE DEF r
<1>3. /\ UNCHANGED <<entry, zcap, held, connected, knownAs, audit, roster,
                     generator, appKey>>
      /\ UNCHANGED passVars
  BY <1>2 DEF stored
<1>4. Elsewhere(s) /\ Remembers(s) /\ pc'[s] = "restore"
  BY <1>1, <1>2, <1>i, RunLocal
<1>5. Shape'
  <2>1. pc' = [pc EXCEPT ![s] = "restore"] /\ p \in Parties /\ "restore" \in AllSteps
    BY <1>2 DEF Goto, Parties, AllSteps
  <2> QED
    BY <1>1, <1>2, <1>3, <1>i, <2>1 DEF Shape, StoredOK
<1>6. run'[s].zcaps = {}
  BY <1>1, <1>2, <1>i DEF Shape, StoredOK
<1>7. Waits(s) /\ Fades /\ Tends(s)
  BY <1>3, <1>6, StillWrites DEF Waits
<1>8. Local(s)
  BY <1>3, <1>4, <1>7, Unpromised DEF Local
<1>9. IndexInv'
  BY <1>5, <1>8, <1>i, LocalStep
<1>10. PassOK' /\ Spent' /\ \A g \in Grants : Carried(g)' => Carried(g)
  BY <1>3, <1>7, <1>i, PassesStand, FadesSpends
<1> QED
  BY <1>3, <1>8, <1>9, <1>10, CeremonyStep DEF passVars

\* A restore records its capability, and queues it for the agent.
LEMMA RestoreRecordAgent ==
  ASSUME ConnectionsAssumption, AgentAssumption, AgentInv, NEW s \in Sessions,
         RestoreRecord(s)
  PROVE  AgentInv' /\ Local(s)
<1> DEFINE p == run[s].party
           G == run[s].zcaps
<1>i. IndexInv /\ Shape /\ Signed /\ Own /\ PassOK /\ Spent
  BY DEF AgentInv, IndexInv
<1>1. /\ pc[s] = "restore" /\ Finish(s)
      /\ UNCHANGED <<zcap, held, connected, knownAs, roster, generator, appKey>>
      /\ UNCHANGED passVars
  BY DEF RestoreRecord
<1>t. /\ p \in Parties /\ G \in SUBSET Grants /\ entry[p] \in EntryType
      /\ entry \in [Parties -> EntryType]
  BY <1>1, <1>i DEF Shape, StoredOK, RunType
<1> HIDE DEF p, G
<1>2. Elsewhere(s) /\ Remembers(s) /\ Waits(s) /\ RecordedBy(s)' /\ HandledBy(s)'
  BY <1>1, <1>i, FinishLocal
<1>3. run'[s].zcaps = {} /\ \A t \in Sessions \ {s} : run'[t] = run[t]
  BY <1>1, <1>i DEF Shape, StoredOK, Finish, NoRun
<1>4. Fades
  BY <1>1, StillWrites
<1>5. ASSUME Shape', Tends(s),
             \A g \in Grants : Carried(g)' =>
               Carried(g) \/ (g \in G /\ g \in entry'[p].grants)
      PROVE  AgentInv' /\ Local(s)
  <2>1. Local(s)
    BY <1>1, <1>2, <1>4, <1>5 DEF Local
  <2>2. IndexInv'
    BY <1>5, <1>i, <2>1, LocalStep
  <2>3. PassOK' /\ Spent' /\ UNCHANGED source
    BY <1>1, <1>4, <1>i, FadesSpends DEF PassOK, passVars
  <2>4. ASSUME NEW g \in Grants, g \in G, g \in entry'[p].grants
        PROVE  Placed(g)'
    <3>1. zcap[g] # "unsigned" /\ Grantee[g] = p /\ \A t \in Sessions \ {s} : g \notin run[t].zcaps
      BY <1>i, <2>4 DEF Signed, Own, G, p
    <3> QED
      BY <1>1, <1>3, <2>4, <3>1 DEF Placed
  <2> QED
    BY <1>5, <2>1, <2>2, <2>3, <2>4, CeremonyStep
<1>6. CASE UNCHANGED <<entry, audit>>
  <2>1. Shape'
    BY <1>1, <1>6, <1>i, FinishTyped, TypeParts, TypePrimed DEF EntryOK, RestOK
  <2>2. Tends(s) /\ \A g \in Grants : Carried(g)' => Carried(g)
    BY <1>1, <1>6, StillWrites DEF Carried, passVars
  <2> QED
    BY <1>5, <2>1, <2>2
<1>7. ASSUME NEW queue \in Queued(entry[p].outbox, G), IsListed(entry[p]),
             WriteEntry(p, [RecordGrants(entry[p], G, NoSeed) EXCEPT !.outbox = queue]),
             audit' \in {audit, audit \cup G}
      PROVE  AgentInv' /\ Local(s)
  <2> DEFINE e == [RecordGrants(entry[p], G, NoSeed) EXCEPT !.outbox = queue]
  <2>1. /\ queue \in SUBSET SUBSET Grants
        /\ \A H \in queue : H \in entry[p].outbox \/ H = G
    BY <1>7, <1>t DEF Queued, EntryType
  <2>2. RecordGrants(entry[p], G, NoSeed) \in EntryType
    BY <1>i, <1>t, EntryHelpers DEF Shape, StoredOK
  <2>3. /\ e \in EntryType /\ e.outbox = queue /\ e.state = "live"
        /\ e.grants = entry[p].grants \cup G
    BY <1>t, <2>1, <2>2 DEF RecordGrants, EntryType
  <2>4. WriteEntry(p, e) /\ entry[p].state = "live"
    BY <1>7 DEF IsListed
  <2> HIDE DEF e
  <2>5. \A q \in Parties : entry'[q] = IF q = p THEN e ELSE entry[q]
    BY <1>t, <2>4 DEF WriteEntry
  <2>6. Tends(s)
    <3>1. Recorded(s, p) = G
      BY <1>1 DEF Recorded, p, G
    <3>2. Tended(s, p, e)
      BY <2>3, <2>4, <3>1 DEF Tended
    <3> QED
      BY <1>i, <1>t, <2>4, <3>2, WriteTends
  <2>7. Shape'
    <3>1. entry' \in [Parties -> EntryType]
      BY <1>t, <2>3, <2>4 DEF WriteEntry
    <3>2. \A q \in Parties : entry'[q].grants # {} => entry'[q].state = "live"
      BY <1>i, <2>3, <2>5 DEF Shape, StoredOK
    <3>3. audit' \in SUBSET Grants
      BY <1>7, <1>i, <1>t DEF Shape, StoredOK
    <3> QED
      BY <1>1, <1>i, <3>1, <3>2, <3>3, FinishTyped, TypeParts, TypePrimed
      DEF EntryOK, RestOK
  <2>8. ASSUME NEW g \in Grants, Carried(g)'
        PROVE  Carried(g) \/ (g \in G /\ g \in entry'[p].grants)
    <3>1. CASE \E q \in Parties : \E H \in entry'[q].outbox : g \in H
      BY <1>t, <2>1, <2>3, <2>5, <3>1 DEF Carried
    <3>2. CASE \E t \in Sessions : \E q \in Agents : \E H \in pass'[t].view[q].outbox : g \in H
      BY <1>1, <3>2 DEF Carried, passVars
    <3> QED
      BY <2>8, <3>1, <3>2 DEF Carried
  <2> QED
    BY <1>5, <2>6, <2>7, <2>8
<1> QED
  BY <1>6, <1>7 DEF RestoreRecord, p, G

\* A tab takes its ceremony and its pass with it.
LEMMA CloseTabAgent ==
  ASSUME ConnectionsAssumption, AgentAssumption, AgentInv, NEW s \in Sessions,
         CloseTab(s)
  PROVE  AgentInv' /\ Local(s)
<1>i. IndexInv /\ Shape /\ PassOK /\ Spent
  BY DEF AgentInv, IndexInv
<1>1. /\ Finish(s) /\ pass' = [pass EXCEPT ![s] = NoPass]
      /\ UNCHANGED <<entry, zcap, held, connected, knownAs, audit, roster,
                     generator, appKey>>
      /\ UNCHANGED <<mail, opened, closed, due, expired, withdrawn, source>>
  BY DEF CloseTab, stored
<1>2. Elsewhere(s) /\ Remembers(s) /\ Waits(s) /\ RecordedBy(s)' /\ HandledBy(s)'
  BY <1>1, <1>i, FinishLocal
<1>3. Fades /\ Tends(s)
  BY <1>1, StillWrites
<1>4. Local(s)
  BY <1>1, <1>2, <1>3 DEF Local
<1>5. Shape'
  BY <1>1, <1>i, FinishTyped, TypeParts, TypePrimed DEF EntryOK, RestOK
<1>6. IndexInv'
  BY <1>4, <1>5, <1>i, LocalStep
<1>7. /\ NoPass.check = {} /\ NoPass.dues = {}
      /\ \A p \in Agents : NoPass.view[p].outbox = {}
  BY DEF NoPass, AbsentEntry
<1>8. mail' \subseteq mail /\ \A p \in Parties : entry'[p].outbox \subseteq entry[p].outbox
  BY <1>1
<1>9. PassOK' /\ Spent' /\ \A g \in Grants : Carried(g)' => Carried(g)
  BY <1>1, <1>3, <1>7, <1>8, <1>i, NoPassType, PassTurn
<1> QED
  BY <1>1, <1>4, <1>6, <1>9, CeremonyStep

-----------------------------------------------------------------------------
\* Every step, in the groups the proofs above deal with.

\* Nothing happens.
LEMMA StutterBackground ==
  ASSUME AgentInv, UNCHANGED allVars
  PROVE  Background
<1>1. Shape /\ PassOK /\ Spent /\ UNCHANGED vars /\ UNCHANGED passVars
  BY DEF AgentInv, IndexInv, allVars
<1>2. /\ Shape' /\ Fades /\ UNCHANGED <<entry, pc, run, knownAs, held>>
      /\ \A p \in Parties : entry'[p].outbox \subseteq entry[p].outbox
  BY <1>1, StoreStands DEF vars
<1>3. PassOK' /\ Spent' /\ UNCHANGED <<pass, source>>
  BY <1>1, <1>2, PassesStand, FadesSpends DEF passVars
<1> QED
  BY <1>1, <1>2, <1>3, ClockBackground

LEMMA AgentCases ==
  ASSUME ConnectionsAssumption, AgentAssumption, AgentInv, [AgentNext]_allVars
  PROVE  \/ Background
         \/ \E s \in Sessions :
              \/ ConsentStep(s) /\ InMintOrder /\ UNCHANGED passVars
              \/ RevocationStep(s) /\ UNCHANGED passVars
              \/ \E g \in Grants : RenewRecord(s, g)
              \/ \E p \in Agents : RestoreMint(s, p) \/ RestoreMarker(s, p)
              \/ RestoreRecord(s)
              \/ CloseTab(s)
<1> DEFINE Case == \/ Background
                   \/ \E s \in Sessions :
                        \/ ConsentStep(s) /\ InMintOrder /\ UNCHANGED passVars
                        \/ RevocationStep(s) /\ UNCHANGED passVars
                        \/ \E g \in Grants : RenewRecord(s, g)
                        \/ \E p \in Agents : RestoreMint(s, p) \/ RestoreMarker(s, p)
                        \/ RestoreRecord(s)
                        \/ CloseTab(s)
<1>1. ASSUME NEW s \in Sessions, PassStep(s) PROVE Case
  BY <1>1, PassBackground
<1>2. ASSUME NEW s \in Sessions, OwnerStep(s) PROVE Case
  BY <1>2, OthersBackground DEF OwnerStep
<1>3. ASSUME \/ \E m \in Channels : Invite(m) \/ Close(m)
             \/ \E g \in Grants : ComeDue(g) \/ Expire(g)
             \/ \E G \in SUBSET Grants : Withdraw(G)
      PROVE  Case
  BY <1>3, OthersBackground
<1>4. ASSUME UNCHANGED allVars PROVE Case
  BY <1>4, StutterBackground
<1>5. ASSUME NEW s \in Sessions,
             \/ ConsentStep(s) /\ InMintOrder /\ UNCHANGED passVars
             \/ RevocationStep(s) /\ UNCHANGED passVars
             \/ CloseTab(s)
      PROVE  Case
  BY <1>5
<1> HIDE DEF Case
<1>6. ASSUME AgentNext PROVE Case
  BY <1>1, <1>2, <1>3, <1>5, <1>6 DEF AgentNext
<1>7. Case
  BY <1>4, <1>6
<1> QED
  BY <1>7 DEF Case

LEMMA AgentInductive ==
  ASSUME ConnectionsAssumption, AgentAssumption, AgentInv, [AgentNext]_allVars
  PROVE  AgentInv'
BY AgentCases, BackgroundStep, ConsentAgent, RevocationAgent, RenewAgent,
   RestoreMintAgent, RestoreMarkerAgent, RestoreRecordAgent, CloseTabAgent

LEMMA AgentStart ==
  ASSUME ConnectionsAssumption, AgentAssumption, AgentInit
  PROVE  AgentInv
<1>1. IndexInv /\ Shape /\ pass = [s \in Sessions |-> NoPass]
  BY IndexInit, InitType DEF AgentInit
<1>2. \A s \in Sessions : /\ pass[s].check = {} /\ pass[s].dues = {}
                          /\ \A p \in Agents : pass[s].view[p].outbox = {}
  BY <1>1 DEF NoPass, AbsentEntry
<1>3. /\ \A p \in Parties : entry[p].grants = {} /\ entry[p].outbox = {}
      /\ \A g \in Grants : zcap[g] = "unsigned" /\ source[g] = 0
      /\ mail = {} /\ opened = {} /\ closed = {} /\ due = {} /\ expired = {}
      /\ withdrawn = {} /\ source \in [Grants -> Grants \cup {0}]
  BY DEF AgentInit, Init, AbsentEntry
<1>4. PassOK
  BY <1>1, <1>2, <1>3, NoPassType DEF PassOK
<1>5. Filed /\ Unrecorded /\ InOrder /\ Spent /\ CarriedIsPlaced /\ OneRenewal
  BY <1>2, <1>3
  DEF Filed, Unrecorded, InOrder, Spent, CarriedIsPlaced, Carried, OneRenewal
<1> QED
  BY <1>1, <1>3, <1>4, <1>5 DEF AgentInv

\* The inductive invariant of the connected agents: what an envelope carries is
\* on its entry for as long as it verifies, what a pass renewed stays while the
\* renewed grant does, and no pass and no restore brings an older one back.
THEOREM AgentSafety == AgentSpec => []AgentInv
BY ConnectionsAssumption, AgentAssumption, AgentStart, AgentInductive, PTL
DEF AgentSpec

\* Beside the passes too, a capability some agent or app was handed and that
\* still verifies stands on its listed entry.
THEOREM AgentHeldIsListed == AgentSpec => []HeldIsListed
<1>1. AgentInv => HeldIsListed
  BY ConnectionsAssumption
  DEF AgentInv, IndexInv, Shape, StoredOK, Indexed, HeldIsListed, IsListed,
      ConnectionsAssumption
<1> QED
  BY <1>1, AgentSafety, PTL

\* A grant is renewed once, by however many passes of however many tabs: of the
\* capabilities minted in its place one at most verifies.
THEOREM AgentRenewedOnce == AgentSpec => []RenewedOnce
<1>1. AgentInv => AgentTypeOK
  BY DEF AgentInv, IndexInv, Shape, AllSteps, PassOK, Renewed, AgentTypeOK
<1>2. AgentInv => RenewedOnce
  BY <1>1 DEF AgentInv, OneRenewal, RenewedOnce
<1> QED
  BY <1>2, AgentSafety, PTL

\* What a pass or a restore writes from a stale reading neither lists a revoked
\* agent again nor forgets a capability that still verifies.
THEOREM AgentStaleWritesKeep == AgentSpec => StaleWritesKeep
<1> DEFINE Keep == \A p \in Agents : RetiredUntilConsent(p) /\ LiveKept(p)
<1> USE ConnectionsAssumption, AgentAssumption
<1>1. UNCHANGED entry => Keep
  BY DEF RetiredUntilConsent, LiveKept
<1>2. Background => Keep
  BY DEF Background, Keeps, RetiredUntilConsent, LiveKept, Parties
<1>3. ASSUME AgentInv, NEW s \in Sessions, Local(s) PROVE Keep
  <2>1. \A g \in run[s].zcaps : g \notin held
    BY <1>3 DEF AgentInv, IndexInv, Own
  <2>2. ASSUME NEW p \in Agents
        PROVE  Tended(s, p, entry'[p])
    BY <1>3 DEF Local, Tends, Parties
  <2> QED
    BY <2>1, <2>2 DEF Tended, Released, RetiredUntilConsent, LiveKept
<1>4. ASSUME AgentInv, NEW s \in Sessions, NEW g \in Grants, RenewRecord(s, g)
      PROVE  Keep
  <2>1. PICK fresh \in Grants :
          WriteEntry(Grantee[g], [entry[Grantee[g]] EXCEPT
                       !.grants = @ \cup {fresh}, !.outbox = {{fresh}}])
    BY <1>4 DEF RenewRecord
  <2>2. /\ entry \in [Parties -> EntryType] /\ Grantee[g] \in Parties
        /\ entry[Grantee[g]].state = "live"
    BY <1>4 DEF RenewRecord, AgentInv, IndexInv, Shape, StoredOK, IsListed
  <2>3. \A p \in Parties : /\ entry[p].grants \subseteq entry'[p].grants
                           /\ entry'[p].state = entry[p].state
    BY <2>1, <2>2 DEF WriteEntry, EntryType
  <2> QED
    BY <2>3 DEF RetiredUntilConsent, LiveKept, Parties
<1>5. ASSUME AgentInv, NEW s \in Sessions, ConsentStep(s) PROVE Keep
  <2>1. CASE (\E p \in Parties, G \in SUBSET Grants : ConsentStart(s, p, G))
               \/ ConsentDeliver(s)
    BY <1>1, <2>1 DEF ConsentStart, ConsentDeliver
  <2>2. CASE ~((\E p \in Parties, G \in SUBSET Grants : ConsentStart(s, p, G))
                 \/ ConsentDeliver(s))
    BY <1>3, <1>5, <2>2, ConsentLocal DEF AgentInv
  <2> QED
    BY <2>1, <2>2
<1>6. ASSUME AgentInv, NEW s \in Sessions, RevocationStep(s) PROVE Keep
  BY <1>3, <1>6, RevocationLocal DEF AgentInv
<1>7. ASSUME AgentInv, NEW s \in Sessions, NEW p \in Agents,
             RestoreMint(s, p) \/ RestoreMarker(s, p)
      PROVE  Keep
  BY <1>1, <1>7 DEF RestoreMint, RestoreMarker, stored
<1>8. ASSUME AgentInv, NEW s \in Sessions, RestoreRecord(s) \/ CloseTab(s)
      PROVE  Keep
  BY <1>3, <1>8, RestoreRecordAgent, CloseTabAgent
<1> HIDE DEF Keep
<1>9. AgentInv /\ [AgentNext]_allVars => Keep
  BY <1>2, <1>4, <1>5, <1>6, <1>7, <1>8, AgentCases
<1>10. AgentInv /\ [AgentNext]_allVars
         => [\A p \in Agents : RetiredUntilConsent(p) /\ LiveKept(p)]_allVars
  BY <1>9 DEF Keep
<1> QED
  BY <1>10, AgentSafety, PTL DEF AgentSpec, StaleWritesKeep

-----------------------------------------------------------------------------
\* The agents' one key, and the grant index, beside the passes.

\* A restore records by no seed, so the entry's stays.
LEMMA RestoreQuiet ==
  ASSUME Shape, NEW s \in Sessions,
         \/ \E p \in Agents : RestoreMint(s, p) \/ RestoreMarker(s, p)
         \/ RestoreRecord(s) \/ CloseTab(s)
  PROVE  Quiet(s)
<1>t. /\ run \in [Sessions -> RunType]
      /\ \A p \in Parties : entry[p] \in EntryType
      /\ pc[s] # "idle" => run[s].party \in Parties
  BY DEF Shape, StoredOK
<1>1. ASSUME NEW p \in Agents, RestoreMint(s, p) \/ RestoreMarker(s, p)
      PROVE  Quiet(s)
  <2>1. /\ Goto(s, "restore") /\ \A t \in Sessions \ {s} : run'[t] = run[t]
        /\ UNCHANGED <<entry, held, knownAs, audit>>
    BY <1>1, <1>t DEF RestoreMint, RestoreMarker, stored
  <2> QED
    BY <2>1, SameSeeds, QuietMove
<1>2. CASE CloseTab(s)
  BY <1>2, SameSeeds, QuietFinish DEF CloseTab, stored
<1>3. CASE RestoreRecord(s)
  <2> DEFINE p == run[s].party
             e(queue) == [RecordGrants(entry[p], run[s].zcaps, NoSeed)
                            EXCEPT !.outbox = queue]
  <2>1. /\ Finish(s) /\ UNCHANGED <<held, knownAs>> /\ p \in Parties
        /\ \/ \E queue \in Queued(entry[p].outbox, run[s].zcaps) :
                WriteEntry(p, e(queue))
           \/ UNCHANGED entry
        /\ audit \subseteq audit'
    BY <1>3, <1>t DEF RestoreRecord
  <2>2. \A queue : e(queue).seed = entry[p].seed
    BY <1>t, <2>1 DEF RecordGrants, EntryType
  <2> HIDE DEF e, p
  <2>3. SeedsKept
    BY <2>1, <2>2, WriteSeeds, SameSeeds
  <2> QED
    BY <2>1, <2>3, QuietFinish
<1> QED
  BY <1>1, <1>2, <1>3

\* A renewal leaves the ceremonies alone and records one capability.
LEMMA RenewalRecords ==
  ASSUME ConnectionsAssumption, Shape, NEW s \in Sessions, NEW g \in Grants,
         RenewRecord(s, g)
  PROVE  /\ UNCHANGED <<held, knownAs, pc, run>>
         /\ \A h \in Grants : zcap[h] = "dead" <=> zcap'[h] = "dead"
         /\ \A p \in Parties : /\ entry[p].grants \subseteq entry'[p].grants
                               /\ entry'[p].seed = entry[p].seed
<1>1. PICK fresh \in Grants :
        /\ IsNext(fresh, Grantee[g])
        /\ zcap' = [zcap EXCEPT ![fresh] = "live"]
        /\ WriteEntry(Grantee[g], [entry[Grantee[g]] EXCEPT
                        !.grants = @ \cup {fresh}, !.outbox = {{fresh}}])
  BY DEF RenewRecord
<1>2. UNCHANGED <<held, knownAs, pc, run>>
  BY DEF RenewRecord, UnchangedOutside
<1>3. /\ entry \in [Parties -> EntryType] /\ Grantee[g] \in Parties
      /\ zcap \in [Grants -> {"unsigned", "live", "dead"}]
  BY DEF Shape, StoredOK, ConnectionsAssumption
<1>4. zcap[fresh] = "unsigned"
  BY <1>1 DEF IsNext, Unsigned
<1> QED
  BY <1>1, <1>2, <1>3, <1>4 DEF WriteEntry, EntryType

\* Every response an agent received is signed by the one key its entry holds,
\* whatever a pass or a restore writes to that entry.
THEOREM AgentPairwiseStable == AgentSpec => []PairwiseStable
<1> USE ConnectionsAssumption, AgentAssumption
<1>1. AgentInit => SeedInv
  BY InitType DEF AgentInit, Init, SeedInv, OneKey, SeededBy
<1>2. ASSUME SeedInv, AgentInv, AgentInv', [AgentNext]_allVars PROVE SeedInv'
  <2>1. Shape /\ Shape'
    BY <1>2 DEF AgentInv, IndexInv
  <2>2. ASSUME UNCHANGED <<knownAs, pc, run>>,
               \A p \in Parties : entry'[p].seed = entry[p].seed
        PROVE  SeedInv'
    <3>1. \A s \in Sessions : pc[s] # "idle" => run[s].party \in Parties
      BY <2>1 DEF Shape, StoredOK
    <3> QED
      BY <1>2, <2>1, <2>2, <3>1 DEF SeedInv, OneKey, SeededBy
  <2>3. CASE Background
    BY <2>2, <2>3 DEF Background, Keeps
  <2>4. ASSUME NEW s \in Sessions, NEW g \in Grants, RenewRecord(s, g)
        PROVE  SeedInv'
    BY <2>1, <2>2, <2>4, RenewalRecords
  <2>5. ASSUME NEW s \in Sessions, ConsentStep(s) PROVE SeedInv'
    BY <1>2, <2>1, <2>5, ConsentKeeps
  <2>6. ASSUME NEW s \in Sessions, RevocationStep(s) PROVE SeedInv'
    BY <1>2, <2>1, <2>6, RevocationQuiet, QuietStep
  <2>7. ASSUME NEW s \in Sessions,
               \/ \E p \in Agents : RestoreMint(s, p) \/ RestoreMarker(s, p)
               \/ RestoreRecord(s) \/ CloseTab(s)
        PROVE  SeedInv'
    BY <1>2, <2>1, <2>7, RestoreQuiet, QuietStep
  <2> QED
    BY <1>2, <2>3, <2>4, <2>5, <2>6, <2>7, AgentCases
<1>3. SeedInv => PairwiseStable
  BY DEF SeedInv, OneKey, PairwiseStable, Parties
<1> QED
  BY <1>1, <1>2, <1>3, AgentSafety, PTL DEF AgentSpec

\* A pass changes one thing at a time: what was handed over, or the entries.
LEMMA PassChangesOne ==
  ASSUME NEW s \in Sessions, PassStep(s), \A g \in Grants : ~RenewRecord(s, g)
  PROVE  /\ UNCHANGED zcap
         /\ UNCHANGED held \/ UNCHANGED entry
<1>1. ASSUME NEW m \in Channels,
             DrainReread(s, m) \/ DrainRefuse(s, m) \/ DrainStore(s, m)
               \/ DrainDelete(s, m)
      PROVE  UNCHANGED <<zcap, held>>
  BY <1>1 DEF DrainReread, DrainRefuse, DrainStore, DrainDelete, UnchangedOutside, vars
<1>2. ASSUME PassStart(s) \/ DrainEnd(s) \/ RenewCheck(s) \/ RenewNothing(s)
               \/ RenewEnd(s) \/ PushEnd(s) \/ PassEnd(s)
      PROVE  UNCHANGED <<zcap, held>>
  BY <1>2 DEF PassStart, DrainEnd, RenewCheck, RenewNothing, RenewEnd, PushEnd,
              PassEnd, vars
<1>3. ASSUME NEW p \in Agents,
             PushSettle(s, p) \/ PushRefused(s, p) \/ Prune(s, p)
      PROVE  UNCHANGED <<zcap, held>>
  BY <1>3 DEF PushSettle, PushRefused, Prune, UnchangedOutside
<1>4. ASSUME NEW p \in Agents, PushDeliver(s, p) PROVE UNCHANGED <<zcap, entry>>
  BY <1>4 DEF PushDeliver
<1> QED
  BY <1>1, <1>2, <1>3, <1>4 DEF PassStep

\* A step in the background that changes one thing is one of the grant index's.
LEMMA BackgroundRefines ==
  ASSUME ConnectionsAssumption, AgentInv, Background,
         \/ UNCHANGED <<zcap, held>>
         \/ UNCHANGED <<zcap, entry>>
         \/ UNCHANGED <<held, entry>>
  PROVE  Index!Next
<1>b. /\ Fades /\ Keeps /\ held \subseteq held' /\ Shape'
      /\ \A g \in held' \ held : Carried(g)
  BY DEF Background
<1>1. CASE UNCHANGED <<zcap, held>>
  BY <1>1, <1>b, RemoveStep DEF Keeps
<1>2. CASE UNCHANGED <<held, entry>>
  BY <1>2, <1>b, KillStep DEF Fades
<1>3. CASE UNCHANGED <<zcap, entry>>
  <2>1. /\ held' \ held \in SUBSET Grants /\ held' = held \cup (held' \ held)
        /\ UNCHANGED <<Found, Dead>>
    BY <1>3, <1>b DEF Shape, StoredOK, Found, Dead
  <2>2. (held' \ held) \ Dead \subseteq Found
    <3> SUFFICES ASSUME NEW g \in held' \ held, g \notin Dead PROVE g \in Found
      OBVIOUS
    <3>1. g \in Grants /\ Placed(g)
      BY <1>b, <2>1 DEF AgentInv, CarriedIsPlaced
    <3>2. zcap[g] = "live"
      BY <3>1 DEF Placed, Dead, AgentInv, IndexInv, Shape, StoredOK
    <3> QED
      BY <3>1, <3>2 DEF Placed, Found
  <2>3. Index!Deliver(held' \ held)
    BY <2>1, <2>2 DEF Index!Deliver, Found, Dead
  <2> QED
    BY <2>1, <2>3 DEF Index!Next
<1> QED
  BY <1>1, <1>2, <1>3

\* The directory is the grant index beside the passes too: a pass hands over
\* what the entry records, forgets what is dead, and records what it mints
\* before anyone holds it.
THEOREM AgentsImplementGrantIndex == AgentSpec => IsGrantIndex
<1> USE ConnectionsAssumption, AgentAssumption
<1>1. AgentInit => Index!Init
  BY IndexStart DEF AgentInit
<1>2. AgentInv /\ [AgentNext]_allVars => [Index!Next]_<<Found, held, Dead>>
  <2> SUFFICES ASSUME AgentInv, [AgentNext]_allVars
               PROVE  Index!Next \/ UNCHANGED <<Found, held, Dead>>
    OBVIOUS
  <2>i. IndexInv /\ Shape
    BY DEF AgentInv, IndexInv
  <2>1. ASSUME NEW s \in Sessions, ConsentStep(s) PROVE Index!Next
    BY <2>1, <2>i, ConsentRefines
  <2>2. ASSUME NEW s \in Sessions, RevocationStep(s) PROVE Index!Next
    BY <2>2, <2>i, RevocationRefines
  <2>3. ASSUME NEW s \in Sessions, NEW g \in Grants, RenewRecord(s, g)
        PROVE  Index!Next
    BY <2>3, <2>i, RenewalRecords, RecordStep
  <2>4. ASSUME NEW s \in Sessions, PassStep(s), \A g \in Grants : ~RenewRecord(s, g)
        PROVE  Index!Next
    BY <2>4, PassBackground, PassChangesOne, BackgroundRefines
  <2>5. ASSUME NEW s \in Sessions, NEW p \in Agents, RestoreMint(s, p)
        PROVE  Index!Next
    <3>1. PICK fresh \in Grants : /\ IsNext(fresh, p)
                                  /\ zcap' = [zcap EXCEPT ![fresh] = "live"]
      BY <2>5 DEF RestoreMint
    <3>2. p \in Parties
      BY DEF Parties
    <3>3. \A g \in Grants : zcap[g] = "dead" <=> zcap'[g] = "dead"
      BY <3>1, <3>2, FreshIsNew
    <3> QED
      BY <2>5, <3>3, RecordStep DEF RestoreMint
  <2>6. ASSUME NEW s \in Sessions, RestoreRecord(s) PROVE Index!Next
    <3> DEFINE p == run[s].party
               e(queue) == [RecordGrants(entry[p], run[s].zcaps, NoSeed)
                              EXCEPT !.outbox = queue]
    <3>1. /\ UNCHANGED <<zcap, held>> /\ p \in Parties
          /\ \/ \E queue \in Queued(entry[p].outbox, run[s].zcaps) :
                  WriteEntry(p, e(queue))
             \/ UNCHANGED entry
      BY <2>6, <2>i DEF RestoreRecord, Shape, StoredOK
    <3>2. entry \in [Parties -> EntryType] /\ entry[p] \in EntryType
      BY <2>i, <3>1 DEF Shape, StoredOK
    <3>3. \A queue : e(queue).grants = entry[p].grants \cup run[s].zcaps
      BY <3>2 DEF RecordGrants, EntryType
    <3> HIDE DEF e, p
    <3>4. \A q \in Parties : entry[q].grants \subseteq entry'[q].grants
      BY <3>1, <3>2, <3>3 DEF WriteEntry
    <3> QED
      BY <3>1, <3>4, RecordStep
  <2>7. ASSUME NEW s \in Sessions, NEW p \in Agents, Decline(s, p) PROVE Index!Next
    BY <2>7, OthersBackground, BackgroundRefines DEF Decline
  <2>8. ASSUME \/ \E m \in Channels : Invite(m) \/ Close(m)
               \/ \E g \in Grants : ComeDue(g) \/ Expire(g)
               \/ \E G \in SUBSET Grants : Withdraw(G)
        PROVE  Index!Next
    <3>1. UNCHANGED <<held, entry>>
      BY <2>8 DEF Invite, Close, ComeDue, Expire, Withdraw, vars
    <3> QED
      BY <2>8, <3>1, OthersBackground, BackgroundRefines
  <2>9. ASSUME \/ UNCHANGED allVars
               \/ \E s \in Sessions : CloseTab(s)
               \/ \E s \in Sessions, p \in Agents : RestoreMarker(s, p)
        PROVE  UNCHANGED <<Found, held, Dead>>
    BY <2>9 DEF CloseTab, RestoreMarker, stored, allVars, vars, Found, Dead
  <2>10. ASSUME NEW s \in Sessions, OwnerStep(s)
         PROVE  Index!Next \/ UNCHANGED <<Found, held, Dead>>
    BY <2>5, <2>6, <2>7, <2>9, <2>10 DEF OwnerStep
  <2>11. ASSUME NEW s \in Sessions, PassStep(s) PROVE Index!Next
    BY <2>3, <2>4, <2>11
  <2>12. ASSUME AgentNext PROVE Index!Next \/ UNCHANGED <<Found, held, Dead>>
    BY <2>1, <2>2, <2>8, <2>9, <2>10, <2>11, <2>12 DEF AgentNext
  <2> QED
    BY <2>9, <2>12
<1>3. [Index!Next]_<<Found, held, Dead>>
        => [Index!Next]_<<{g \in Grants : g \in entry[Grantee[g]].grants}, held,
                          {g \in Grants : zcap[g] = "dead"}>>
  BY DEF Found, Dead
<1> QED
  BY <1>1, <1>2, <1>3, AgentSafety, PTL DEF AgentSpec, IsGrantIndex, Index!Spec
====
