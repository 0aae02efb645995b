---- MODULE AgentConnections ----
(***************************************************************************)
(* The connected agents: the inbox pass that keeps their grants alive, and *)
(* what the owner does to them meanwhile.                                  *)
(*                                                                         *)
(* Each session runs its passes one after another, in the background of    *)
(* its ceremonies (RequestConsent, GrantRevocation, the restore and the    *)
(* decline).  A pass works from the entries it read at its start, and      *)
(* reads back only those it wrote.                                         *)
(*                                                                         *)
(* An agent's grants are one scope: the newest one is the record a renewal *)
(* reads, and the older ones are superseded.  Grants are numbered in the   *)
(* order they are minted, which is the order they expire in.               *)
(***************************************************************************)
EXTENDS ConnectionCeremonies, FiniteSetsExt, Integers

CONSTANTS
  Opener,  \* the agent that opens each channel
  MaxDue   \* how many grants may come due

ASSUME AgentAssumption ==
  /\ Grants \subseteq Nat \ {0}
  /\ Opener \in [Channels -> Agents]
  /\ Channels \subseteq Nat
  /\ MaxDue \in Nat

VARIABLES
  pass,       \* each session's inbox pass, and what it holds in memory
  mail,       \* the invitations in the account's inbox
  opened,     \* the channels agents have opened so far
  closed,     \* the channels whose host refuses them
  due,        \* the grants inside the renewal window
  expired,    \* the grants past their expiry
  withdrawn,  \* the grants signed by authority the account withdrew
  source      \* the grant each silent renewal replaces, 0 for the others

passVars == <<pass, mail, opened, closed, due, expired, withdrawn, source>>
allVars == <<vars, passVars>>

AgentListing == [p \in Agents |-> entry[p]]

NoPass ==
  [at |-> "off", view |-> [p \in Agents |-> AbsentEntry], dirty |-> {},
   reread |-> FALSE, kept |-> {}, done |-> {}, sent |-> {}, checked |-> FALSE,
   check |-> {}, dues |-> {}, delivered |-> {}]

AgentInit ==
  /\ Init
  /\ pass = [s \in Sessions |-> NoPass]
  /\ mail = {}
  /\ opened = {}
  /\ closed = {}
  /\ due = {}
  /\ expired = {}
  /\ withdrawn = {}
  /\ source = [g \in Grants |-> 0]

Unsigned(p) == {g \in Grants : Grantee[g] = p /\ zcap[g] = "unsigned"}

\* latestGrantsPerScope, of an agent's records: the one that expires last.
IsLatest(g, G) == g \in G /\ \A h \in G : h <= g

\* The next capability minted for an agent.
IsNext(fresh, p) == fresh \in Unsigned(p) /\ \A h \in Unsigned(p) : fresh <= h

\* refreshWritten: the entries the pass wrote are read back.
Refreshed(s) ==
  [p \in Agents |-> IF p \in pass[s].dirty THEN entry[p] ELSE pass[s].view[p]]

Enter(s, phase) ==
  pass' = [pass EXCEPT ![s].at = phase, ![s].view = Refreshed(s),
                       ![s].dirty = {}, ![s].done = {}, ![s].kept = {},
                       ![s].dues = {}, ![s].reread = FALSE]

UnchangedOutside == UNCHANGED <<held, connected, knownAs, roster, generator,
                                appKey, pc, run>>

-----------------------------------------------------------------------------
\* The pass.

\* Mutant of PassStart: no pass runs while no grant is due.
PassStartWhenDue(s) ==
  /\ pass[s].at = "off"
  /\ due \ expired # {}
  /\ pass' = [pass EXCEPT ![s] =
       [NoPass EXCEPT !.at = "drain", !.view = AgentListing]]
  /\ UNCHANGED <<vars, mail, opened, closed, due, expired, withdrawn, source>>

\* runPass reads the directory and the inbox.
PassStart(s) ==
  /\ pass[s].at = "off"
  /\ pass' = [pass EXCEPT ![s] =
       [NoPass EXCEPT !.at = "drain", !.view = AgentListing]]
  /\ UNCHANGED <<vars, mail, opened, closed, due, expired, withdrawn, source>>

\* An invitation from an agent the pass does not list: the listing is read
\* again, once a pass, since a consent may have written the entry since.
DrainReread(s, m) ==
  /\ pass[s].at = "drain"
  /\ m \in mail
  /\ ~IsListed(pass[s].view[Opener[m]])
  /\ ~pass[s].reread
  /\ pass' = [pass EXCEPT ![s].reread = TRUE, ![s].view = AgentListing]
  /\ UNCHANGED <<vars, mail, opened, closed, due, expired, withdrawn, source>>

\* An unknown sender's message is refused, and deleted.
DrainRefuse(s, m) ==
  /\ pass[s].at = "drain"
  /\ m \in mail
  /\ ~IsListed(pass[s].view[Opener[m]])
  /\ pass[s].reread
  /\ mail' = mail \ {m}
  /\ UNCHANGED <<vars, pass, opened, closed, due, expired, withdrawn, source>>

\* recordReceivedGrants stores the channel on the sender's entry.  On an entry
\* retired since the reading it stores the record or refuses it.
DrainStore(s, m) ==
  LET p == Opener[m] IN
  /\ pass[s].at = "drain"
  /\ m \in mail \ pass[s].kept
  /\ IsListed(pass[s].view[p])
  /\ \/ WriteEntry(p, [entry[p] EXCEPT !.channel = @ \cup {m}])
     \/ ~IsListed(entry[p]) /\ UNCHANGED entry
  /\ pass' = [pass EXCEPT ![s].kept = @ \cup {m}, ![s].dirty = @ \cup {p}]
  /\ UnchangedOutside
  /\ UNCHANGED <<zcap, audit, mail, opened, closed, due, expired, withdrawn,
                 source>>

\* The message is deleted once its channel is stored.
DrainDelete(s, m) ==
  /\ pass[s].at = "drain"
  /\ m \in pass[s].kept \cap mail
  /\ mail' = mail \ {m}
  /\ UNCHANGED <<vars, pass, opened, closed, due, expired, withdrawn, source>>

\* The drain ends: the inbox is empty, a cap is reached, or calls failed.  A
\* message it did not delete waits for the next pass.
DrainEnd(s) ==
  /\ pass[s].at = "drain"
  /\ Enter(s, "check")
  /\ UNCHANGED <<vars, mail, opened, closed, due, expired, withdrawn, source>>

\* agentsWithChannel
WithChannel(view) == {p \in Agents : IsListed(view[p]) /\ view[p].channel # {}}

\* The grants a renewal mints again: of each agent with a channel, the latest
\* record, due, not yet expired, its proof verifying.
DueGrants(view) ==
  {g \in due \ (expired \cup withdrawn) :
     /\ Grantee[g] \in WithChannel(view)
     /\ IsLatest(g, view[Grantee[g]].grants)}

\* renewalSignerCheck reads the account document, when an agent has a channel,
\* and dueAgentGrants goes by that reading.
RenewCheck(s) ==
  /\ pass[s].at = "check"
  /\ WithChannel(pass[s].view) # {}
  /\ pass' = [pass EXCEPT ![s].at = "renew", ![s].checked = TRUE,
                          ![s].check = withdrawn,
                          ![s].dues = DueGrants(pass[s].view)]
  /\ UNCHANGED <<vars, mail, opened, closed, due, expired, withdrawn, source>>

\* No agent has a channel, or the document cannot be read: nothing is renewed.
RenewNothing(s) ==
  /\ pass[s].at = "check"
  /\ Enter(s, "push")
  /\ UNCHANGED <<vars, mail, opened, closed, due, expired, withdrawn, source>>

\* Mutant of RenewRecord: the merge does not look at the newest record again.
RenewRecordStale(s, g) ==
  LET p == Grantee[g] IN
  /\ pass[s].at = "renew"
  /\ g \in pass[s].dues
  /\ IsListed(entry[p])
  /\ \E fresh \in Grants :
       /\ IsNext(fresh, p)
       /\ zcap' = [zcap EXCEPT ![fresh] = "live"]
       /\ source' = [source EXCEPT ![fresh] = g]
       /\ WriteEntry(p, [entry[p] EXCEPT !.grants = @ \cup {fresh},
                                         !.outbox = {{fresh}}])
  /\ pass' = [pass EXCEPT ![s].dues = @ \ {g}, ![s].dirty = @ \cup {p}]
  /\ UnchangedOutside
  /\ UNCHANGED <<audit, mail, opened, closed, due, expired, withdrawn>>

\* recordRenewedGrants, the pivot: one compare-and-swap over the entry as it
\* stands.  The envelope replaces a pending one of the same scope.  The Grant
\* activity behind it is best-effort.  A put whose response is lost leaves the
\* pass with its old reading of the entry.
RenewRecord(s, g) ==
  LET p == Grantee[g] IN
  /\ pass[s].at = "renew"
  /\ g \in pass[s].dues
  /\ IsListed(entry[p])
  /\ entry[p].channel # {}
  /\ IsLatest(g, entry[p].grants)
  /\ \E fresh \in Grants :
       /\ IsNext(fresh, p)
       /\ zcap' = [zcap EXCEPT ![fresh] = "live"]
       /\ source' = [source EXCEPT ![fresh] = g]
       /\ WriteEntry(p, [entry[p] EXCEPT !.grants = @ \cup {fresh},
                                         !.outbox = {{fresh}}])
       /\ \/ /\ audit' \in {audit, audit \cup {fresh}}
             /\ pass' = [pass EXCEPT ![s].dues = @ \ {g},
                                     ![s].dirty = @ \cup {p}]
          \/ /\ UNCHANGED audit
             /\ pass' = [pass EXCEPT ![s].dues = @ \ {g}]
  /\ UnchangedOutside
  /\ UNCHANGED <<mail, opened, closed, due, expired, withdrawn>>

\* The renewals end.  One whose pivot was refused, or failed, is discarded.
RenewEnd(s) ==
  /\ pass[s].at = "renew"
  /\ Enter(s, "push")
  /\ UNCHANGED <<vars, mail, opened, closed, due, expired, withdrawn, source>>

\* The items the push sends, and the channel it sends them through: the live
\* one that expires last, which is the last one opened.
Sendable(s, p) ==
  {G \in pass[s].view[p].outbox :
     G \notin pass[s].sent /\ ~(G \subseteq expired)}

Through(s, p) == Max(pass[s].view[p].channel)

\* drainOutboxes: the agent's host takes the envelope queued first.
PushDeliver(s, p) ==
  /\ pass[s].at = "push"
  /\ p \in WithChannel(pass[s].view) \ pass[s].done
  /\ Through(s, p) \notin closed
  /\ \E G \in Sendable(s, p) :
       /\ \A H \in Sendable(s, p) : Min(G) <= Min(H)
       /\ held' = held \cup G
       /\ pass' = [pass EXCEPT ![s].sent = @ \cup {G}]
  /\ UNCHANGED <<entry, zcap, connected, knownAs, audit, roster, generator,
                 appKey, pc, run, mail, opened, closed, due, expired,
                 withdrawn, source>>

\* settleOutboxItem removes the delivered item, if the entry still queues it.
\* When its response is lost the scope does not count as delivered.
PushSettle(s, p) ==
  /\ pass[s].at = "push"
  /\ \E G \in pass[s].view[p].outbox \cap pass[s].sent :
       WriteEntry(p, [entry[p] EXCEPT !.outbox = @ \ {G}])
  /\ \/ pass' = [pass EXCEPT ![s].dirty = @ \cup {p},
                             ![s].delivered = @ \cup {p}]
     \/ UNCHANGED pass
  /\ UnchangedOutside
  /\ UNCHANGED <<zcap, audit, mail, opened, closed, due, expired, withdrawn,
                 source>>

\* The host refuses the channel, which is dropped from the entry; the queued
\* envelopes wait for the agent's next invitation.
PushRefused(s, p) ==
  /\ pass[s].at = "push"
  /\ p \in WithChannel(pass[s].view) \ pass[s].done
  /\ Through(s, p) \in closed
  /\ Sendable(s, p) # {}
  /\ WriteEntry(p, [entry[p] EXCEPT !.channel = @ \ {Through(s, p)}])
  /\ pass' = [pass EXCEPT ![s].dirty = @ \cup {p},
                          ![s].done = @ \cup {p}]
  /\ UnchangedOutside
  /\ UNCHANGED <<zcap, audit, mail, opened, closed, due, expired, withdrawn,
                 source>>

\* The pushes end: everything was sent, or calls failed or timed out.  An item
\* that was not settled waits for the next pass.
PushEnd(s) ==
  /\ pass[s].at = "push"
  /\ Enter(s, "prune")
  /\ UNCHANGED <<vars, mail, opened, closed, due, expired, withdrawn, source>>

\* Mutant of Prunable: every superseded record.
PrunableSuperseded(s, p) ==
  {g \in pass[s].view[p].grants : ~IsLatest(g, pass[s].view[p].grants)}

\* The superseded records a prune may remove: past their expiry, or of a dead
\* chain, by the document as the pass read it, once an item of their scope was
\* delivered.
Prunable(s, p) ==
  {g \in pass[s].view[p].grants :
     /\ ~IsLatest(g, pass[s].view[p].grants)
     /\ \/ g \in expired
        \/ pass[s].checked /\ p \in pass[s].delivered /\ g \in pass[s].check}

\* pruneSupersededGrants, over the entry as it stands.
Prune(s, p) ==
  /\ pass[s].at = "prune"
  /\ p \notin pass[s].done
  /\ IsListed(pass[s].view[p])
  /\ pass[s].view[p].grants # {}
  /\ \/ Prunable(s, p) # {}
     \/ \E G \in pass[s].view[p].outbox : G \subseteq expired
  /\ WriteEntry(p,
       [entry[p] EXCEPT
          !.grants = {g \in @ : IsLatest(g, @) \/ g \notin Prunable(s, p)},
          !.outbox = {G \in @ : ~(G \subseteq expired)}])
  /\ pass' = [pass EXCEPT ![s].done = @ \cup {p}]
  /\ UnchangedOutside
  /\ UNCHANGED <<zcap, audit, mail, opened, closed, due, expired, withdrawn,
                 source>>

PassEnd(s) ==
  /\ pass[s].at = "prune"
  /\ pass' = [pass EXCEPT ![s] = NoPass]
  /\ UNCHANGED <<vars, mail, opened, closed, due, expired, withdrawn, source>>

PassStep(s) ==
  \/ PassStart(s)
  \/ \E m \in Channels :
       \/ DrainReread(s, m)
       \/ DrainRefuse(s, m)
       \/ DrainStore(s, m)
       \/ DrainDelete(s, m)
  \/ \E g \in Grants : RenewRecord(s, g)
  \/ DrainEnd(s)
  \/ RenewCheck(s)
  \/ RenewNothing(s)
  \/ RenewEnd(s)
  \/ PushEnd(s)
  \/ PassEnd(s)
  \/ \E p \in Agents :
       \/ PushDeliver(s, p)
       \/ PushSettle(s, p)
       \/ PushRefused(s, p)
       \/ Prune(s, p)

-----------------------------------------------------------------------------
\* The owner's other ceremonies over an agent.

\* remintAgentGrants reads the listing and mints the latest record of a listed
\* agent again, whatever its proof: the owner's tick is the consent.
RestoreMint(s, p) ==
  /\ pc[s] = "idle"
  /\ p \in Agents
  /\ IsListed(entry[p])
  /\ entry[p].grants # {}
  /\ \E fresh \in Grants :
       /\ IsNext(fresh, p)
       /\ zcap' = [zcap EXCEPT ![fresh] = "live"]
       /\ run' = [run EXCEPT ![s] =
            [NoRun EXCEPT !.party = p, !.zcaps = {fresh}]]
  /\ Goto(s, "restore")
  /\ UNCHANGED <<entry, held, connected, knownAs, audit, roster, generator,
                 appKey, passVars>>

\* Mutant of RestoreRecord: the merge un-retires the entry.
RestoreUnretiring(s) ==
  LET p == run[s].party
      G == run[s].zcaps IN
  /\ pc[s] = "restore"
  /\ WriteEntry(p, [RecordGrants(entry[p], G, NoSeed) EXCEPT !.outbox = {G}])
  /\ Finish(s)
  /\ UNCHANGED <<zcap, held, connected, knownAs, audit, roster, generator,
                 appKey, passVars>>

\* The outboxes after an envelope carrying G is queued, beside a pending one or
\* in its place.  Without grants there is no envelope.
Queued(outbox, G) == IF G = {} THEN {outbox} ELSE {{G}, outbox \cup {G}}

\* recordGrants with `unlessRetired`, the envelope queued in the same write,
\* then the Grant activity, best-effort.  A write that fails is discarded.
RestoreRecord(s) ==
  LET p == run[s].party
      G == run[s].zcaps IN
  /\ pc[s] = "restore"
  /\ \/ /\ IsListed(entry[p])
        /\ \E queue \in Queued(entry[p].outbox, G) :
             WriteEntry(p, [RecordGrants(entry[p], G, NoSeed)
                              EXCEPT !.outbox = queue])
        /\ audit' \in {audit, audit \cup G}
     \/ UNCHANGED <<entry, audit>>
  /\ Finish(s)
  /\ UNCHANGED <<zcap, held, connected, knownAs, roster, generator, appKey,
                 passVars>>

\* A declined agent with nothing left to mint only loses its marker, by a
\* consent to nothing.
RestoreMarker(s, p) ==
  /\ pc[s] = "idle"
  /\ p \in Agents
  /\ IsListed(entry[p])
  /\ entry[p].grants = {}
  /\ entry[p].declined
  /\ run' = [run EXCEPT ![s] = [NoRun EXCEPT !.party = p]]
  /\ Goto(s, "restore")
  /\ UNCHANGED <<stored, passVars>>

\* declineAgents: the owner left the agent unticked in the dialog of a
\* ceremony that withdrew its grants' authority.
Decline(s, p) ==
  /\ pc[s] = "idle"
  /\ p \in Agents
  /\ entry[p].state # "absent"
  /\ ~entry[p].declined
  /\ \E g \in withdrawn : Grantee[g] = p
  /\ WriteEntry(p, [entry[p] EXCEPT !.declined = TRUE])
  /\ UNCHANGED <<zcap, held, connected, knownAs, audit, roster, generator,
                 appKey, pc, run, passVars>>

OwnerStep(s) ==
  \/ RestoreRecord(s)
  \/ \E p \in Agents : RestoreMint(s, p) \/ RestoreMarker(s, p) \/ Decline(s, p)

-----------------------------------------------------------------------------
\* The agents, the clock, and the account.

\* An agent that can still post into the owner's inbox opens a channel.
Invite(m) ==
  /\ m \notin opened
  /\ \E g \in held : Grantee[g] = Opener[m] /\ zcap[g] = "live"
  /\ \A n \in Channels : n < m => n \in opened
  /\ opened' = opened \cup {m}
  /\ mail' = mail \cup {m}
  /\ UNCHANGED <<vars, pass, closed, due, expired, withdrawn, source>>

\* An agent's host refuses a channel from now on.
Close(m) ==
  /\ m \in opened \ closed
  /\ closed' = closed \cup {m}
  /\ UNCHANGED <<vars, pass, mail, opened, due, expired, withdrawn, source>>

ComeDue(g) ==
  /\ zcap[g] # "unsigned"
  /\ g \notin due
  /\ Cardinality(due) < MaxDue
  /\ due' = due \cup {g}
  /\ UNCHANGED <<vars, pass, mail, opened, closed, expired, withdrawn, source>>

\* Grants expire in the order they were minted.
Expire(g) ==
  /\ g \in due \ expired
  /\ \A h \in Grants : h < g /\ zcap[h] # "unsigned" => h \in expired
  /\ expired' = expired \cup {g}
  /\ Revoke({g})
  /\ UNCHANGED <<entry, held, connected, knownAs, audit, roster, generator,
                 appKey, pc, run, pass, mail, opened, closed, due, withdrawn,
                 source>>

\* A ceremony withdraws the authority that signed some of the grants.
Withdraw(G) ==
  /\ G # {}
  /\ G \cap withdrawn = {}
  /\ \A g \in G : zcap[g] # "unsigned"
  /\ withdrawn' = withdrawn \cup G
  /\ Revoke(G)
  /\ UNCHANGED <<entry, held, connected, knownAs, audit, roster, generator,
                 appKey, pc, run, pass, mail, opened, closed, due, expired,
                 source>>

\* A tab closes, and takes its ceremony and its pass with it.
CloseTab(s) ==
  /\ pc[s] # "idle" \/ pass[s].at # "off"
  /\ Finish(s)
  /\ pass' = [pass EXCEPT ![s] = NoPass]
  /\ UNCHANGED <<stored, mail, opened, closed, due, expired, withdrawn, source>>

\* Grants are numbered in the order they are minted.
InMintOrder ==
  \A g \in Grants : \A h \in Grants :
    /\ h < g
    /\ Grantee[h] = Grantee[g]
    /\ zcap'[g] # "unsigned"
    => zcap'[h] # "unsigned"

AgentNext ==
  \/ \E s \in Sessions :
       \/ ConsentStep(s) /\ InMintOrder /\ UNCHANGED passVars
       \/ RevocationStep(s) /\ UNCHANGED passVars
       \/ PassStep(s)
       \/ OwnerStep(s)
       \/ CloseTab(s)
  \/ \E m \in Channels : Invite(m) \/ Close(m)
  \/ \E g \in Grants : ComeDue(g) \/ Expire(g)
  \/ \E G \in SUBSET Grants : Withdraw(G)

AgentSpec == AgentInit /\ [][AgentNext]_allVars

-----------------------------------------------------------------------------

PassType ==
  [at : {"off", "drain", "check", "renew", "push", "prune"},
   view : [Agents -> EntryType], dirty : SUBSET Agents, reread : BOOLEAN,
   kept : SUBSET Channels, done : SUBSET Agents, sent : SUBSET SUBSET Grants,
   checked : BOOLEAN, check : SUBSET Grants, dues : SUBSET Grants,
   delivered : SUBSET Agents]

\* Every variable keeps its shape, and a silent renewal replaces an earlier
\* grant of the same party.
AgentTypeOK ==
  /\ StoredOK
  /\ pc \in [Sessions -> Steps \cup {"restore"}]
  /\ pass \in [Sessions -> PassType]
  /\ mail \subseteq opened /\ closed \subseteq opened /\ opened \subseteq Channels
  /\ expired \subseteq due /\ due \subseteq Grants
  /\ withdrawn \subseteq Grants
  /\ source \in [Grants -> Grants \cup {0}]
  /\ \A g \in Grants : source[g] # 0 => source[g] < g

\* A grant is renewed once: of the capabilities that passes minted in its place,
\* those two passes that found it due at the same time minted among them, one at
\* most verifies.  A second one is minted only once the first is dead.  Every
\* variable keeps its shape meanwhile.
RenewedOnce ==
  /\ AgentTypeOK
  /\ \A g \in Grants : \A h \in Grants \ {g} :
       source[g] # 0 /\ source[g] = source[h]
         => ~(zcap[g] = "live" /\ zcap[h] = "live")

\* Nothing but the owner's consent brings a revoked connection back: no pass
\* and no restore that read the entry before the revoke un-retires it.
RetiredUntilConsent(p) ==
  entry[p].state = "retired" /\ entry'[p].state = "live"
    => \E s \in Sessions : pc[s] = "record" /\ run[s].party = p

\* A capability that still verifies leaves an agent's entry only with the
\* rollback of the consent that signed it, which handed it to nobody.
LiveKept(p) ==
  \A g \in entry[p].grants \ entry'[p].grants :
    \/ zcap[g] = "dead"
    \/ /\ g \notin held
       /\ \E s \in Sessions :
            pc[s] \in {"rollback", "reretire"} /\ g \in run[s].zcaps

\* What a pass or a restore writes goes by an entry read before other writers
\* wrote it, and neither brings back a connection the owner revoked meanwhile
\* nor forgets a capability that still verifies, a superseded one included.
StaleWritesKeep ==
  [][\A p \in Agents : RetiredUntilConsent(p) /\ LiveKept(p)]_allVars

\* The passes keep running: tabs may close, but not before every push of
\* every pass, and no call fails every time.
FairPasses(s) ==
  /\ SF_allVars(PassStart(s))
  /\ SF_allVars(DrainEnd(s))
  /\ SF_allVars(RenewCheck(s) \/ RenewNothing(s))
  /\ SF_allVars(RenewEnd(s))
  /\ \A p \in Agents : SF_allVars(PushDeliver(s, p))
  /\ SF_allVars(PushEnd(s) \/ PassEnd(s))

\* An envelope queued for an agent reaches it, unless it is dead by then, or
\* withdrawn with its connection, or replaced by a newer one, or the agent
\* has no open channel.
QueuedIsDelivered ==
  \A g \in Grants :
    LET p == Grantee[g] IN
    {g} \in entry[p].outbox
      ~> \/ g \in held \/ zcap[g] = "dead" \/ {g} \notin entry[p].outbox
         \/ entry[p].channel \subseteq closed
====
