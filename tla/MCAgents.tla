---- MODULE MCAgents ----
(***************************************************************************)
(* Small instances of AgentConnections: one agent with grants on one       *)
(* public collection.                                                      *)
(***************************************************************************)
EXTENDS AgentConnections

CONSTANTS ag, c1, s1, s2

OneAgent == [g \in Grants |-> ag]
OneTarget == [g \in Grants |-> c1]
OneOpener == [m \in Channels |-> ag]

\* A connected agent: its grant recorded, handed over and due, the channels in
\* `open` recorded on its entry.  Every such state is reachable from AgentInit:
\* a consent, an invitation, and the pass that drained it.
Connected(open) ==
  /\ entry = [p \in Parties |-> [AbsentEntry EXCEPT
       !.state = "live", !.grants = {1}, !.seed = s1, !.channel = open]]
  /\ zcap = [g \in Grants |-> IF g = 1 THEN "live" ELSE "unsigned"]
  /\ held = {1}
  /\ connected = Parties
  /\ knownAs = [p \in Parties |-> {s1}]
  /\ audit = {1}
  /\ roster = [c \in Collections |-> {}]
  /\ generator = [c \in Collections |-> NoParty]
  /\ appKey = [p \in Parties |-> "none"]
  /\ pc = [s \in Sessions |-> "idle"]
  /\ run = [s \in Sessions |-> NoRun]
  /\ pass = [s \in Sessions |-> NoPass]
  /\ mail = {}
  /\ opened = open
  /\ closed = {}
  /\ due = {1}
  /\ expired = {}
  /\ withdrawn = {}
  /\ source = [g \in Grants |-> 0]

\* What the two tabs do in a behaviour: the owner and the passes in the first
\* tab alone, the owner in both beside the passes of the first, the passes of
\* both beside the owner's restores in the first, or the owner in both while
\* the agent is new.
VARIABLE scene

OneTabNext ==
  \/ ConsentStep(s1) /\ InMintOrder /\ UNCHANGED passVars
  \/ RevocationStep(s1) /\ UNCHANGED passVars
  \/ PassStep(s1)
  \/ OwnerStep(s1)
  \/ CloseTab(s1)
  \/ \E m \in Channels : Invite(m) \/ Close(m)
  \/ \E g \in Grants : ComeDue(g) \/ Expire(g)
  \/ \E G \in SUBSET Grants : Withdraw(G)

OwnersNext ==
  \/ \E s \in Sessions :
       \/ ConsentStep(s) /\ InMintOrder /\ UNCHANGED passVars
       \/ RevocationStep(s) /\ UNCHANGED passVars
       \/ OwnerStep(s)
       \/ CloseTab(s)
  \/ PassStep(s1)
  \/ \E g \in Grants : Expire(g)
  \/ \E G \in SUBSET Grants : Withdraw(G)

PassesNext ==
  \/ \E s \in Sessions : PassStep(s) \/ CloseTab(s)
  \/ OwnerStep(s1)
  \/ \E g \in Grants : ComeDue(g)

NewNext ==
  \E s \in Sessions :
    \/ ConsentStep(s) /\ InMintOrder /\ UNCHANGED passVars
    \/ RevocationStep(s) /\ UNCHANGED passVars
    \/ CloseTab(s)

ScenesInit ==
  /\ scene \in {"one tab", "owners", "passes", "new"}
  /\ IF scene = "new" THEN AgentInit
     ELSE Connected(IF scene = "one tab" THEN {} ELSE Channels)

ScenesNext ==
  /\ \/ scene = "one tab" /\ OneTabNext /\ zcap'[3] = "unsigned"
     \/ scene = "owners" /\ OwnersNext /\ zcap'[3] = "unsigned"
     \/ scene = "passes" /\ PassesNext
     \/ scene = "new" /\ NewNext /\ zcap'[3] = "unsigned"
  /\ UNCHANGED scene

Scenes == ScenesInit /\ [][ScenesNext]_<<allVars, scene>>

\* Everything but the consents, which hand their own grants over.
DeliveryNext ==
  \/ RevocationStep(s1) /\ UNCHANGED passVars
  \/ PassStep(s1)
  \/ OwnerStep(s1)
  \/ CloseTab(s1)
  \/ \E m \in Channels : Invite(m) \/ Close(m)
  \/ \E g \in Grants : ComeDue(g) \/ Expire(g)
  \/ \E G \in SUBSET Grants : Withdraw(G)

\* One tab, whose passes keep running.
FairTab ==
  /\ Connected({1}) /\ scene = "one tab"
  /\ [][DeliveryNext /\ UNCHANGED scene]_<<allVars, scene>>
  /\ FairPasses(s1)
====
