---- MODULE Connections ----
(***************************************************************************)
(* The state the connection ceremonies share: the account's `connections`  *)
(* directory, the capabilities the wallet signed, the key-epoch rosters of *)
(* its collections, and the wallet tabs (sessions) that run ceremonies     *)
(* over them.  RequestConsent and GrantRevocation add the ceremonies.      *)
(***************************************************************************)
EXTENDS ConnectionEntry, FiniteSets

CONSTANTS
  Sessions,     \* the wallet's sessions: tabs and devices
  Apps,         \* parties known by an app key the wallet mints
  Agents,       \* parties that connect through an interaction URL
  Grants,       \* capability ids
  Collections,  \* the Space's collections
  Shared,       \* wallet collections an app may be given a share of
  AppPrivate,   \* encrypted collections provisioned for a requester
  AppPublic,    \* public collections provisioned for a requester
  Grantee,      \* the party each capability is delegated to
  Target,       \* the collection each capability targets
  Channels,     \* the channels agents may open back to the wallet
  NoParty,      \* no party
  RereadFails   \* whether the re-read behind a failed escrow may fail too

Parties == Apps \cup Agents

\* Collections governed by a key-epoch log.  The rest are plaintext.
Private == Shared \cup AppPrivate

\* Collections a consent creates when they do not stand yet.
Provisioned == AppPrivate \cup AppPublic

ASSUME ConnectionsAssumption ==
  /\ Apps \cap Agents = {}
  /\ Shared \cap Provisioned = {}
  /\ AppPrivate \cap AppPublic = {}
  /\ Shared \cup Provisioned \subseteq Collections
  /\ Grantee \in [Grants -> Parties]
  /\ Target \in [Grants -> Collections]
  /\ NoParty \notin Parties
  /\ NoSeed \notin Sessions
  /\ RereadFails \in BOOLEAN
  \* the interaction-URL page bars the share class
  /\ \A g \in Grants : Target[g] \in Shared => Grantee[g] \in Apps

VARIABLES
  entry,      \* the directory: each party's entry
  zcap,       \* each capability: unsigned, live, or dead (revoked, expired,
              \* or signed under a key that left the account's document)
  held,       \* the capabilities some party was handed
  connected,  \* the parties holding a response no disconnect has ended
  knownAs,    \* the pairwise keys each party has seen responses signed by
  audit,      \* the capabilities a Grant activity names
  roster,     \* each collection's current key epoch: the parties it wraps to
  generator,  \* the party a provisioned collection is stamped with
  appKey,     \* each app's stored key: none, stored or deleted
  pc,         \* where each session's ceremony stands
  run         \* what each session's ceremony holds in memory

stored == <<entry, zcap, held, connected, knownAs, audit, roster, generator,
            appKey>>
vars == <<entry, zcap, held, connected, knownAs, audit, roster, generator,
          appKey, pc, run>>

Listing == [p \in Parties |-> entry[p].grants]

NoListing == [p \in Parties |-> {}]

NoRun ==
  [party |-> NoParty, zcaps |-> {}, prior |-> "absent", escrowed |-> {},
   audited |-> FALSE, seed |-> NoSeed, seen |-> NoListing, todo |-> {},
   failed |-> FALSE]

\* The ceremony ends, or its tab closes: what it held in memory is gone.
Finish(s) ==
  /\ pc' = [pc EXCEPT ![s] = "idle"]
  /\ run' = [run EXCEPT ![s] = NoRun]

Goto(s, step) == pc' = [pc EXCEPT ![s] = step]

WriteEntry(p, e) == entry' = [entry EXCEPT ![p] = e]

\* The capabilities of a set that a revocation POST would still change.
Live(G) == {g \in G : zcap[g] = "live"}

Revoke(G) == zcap' = [g \in Grants |-> IF g \in G THEN "dead" ELSE zcap[g]]

SharesOn(G, c) == {g \in G : Target[g] = c /\ c \in Shared}

Init ==
  /\ entry = [p \in Parties |-> AbsentEntry]
  /\ zcap = [g \in Grants |-> "unsigned"]
  /\ held = {}
  /\ connected = {}
  /\ knownAs = [p \in Parties |-> {}]
  /\ audit = {}
  /\ roster = [c \in Collections |-> {}]
  /\ generator = [c \in Collections |-> NoParty]
  /\ appKey = [p \in Parties |-> "none"]
  /\ pc = [s \in Sessions |-> "idle"]
  /\ run = [s \in Sessions |-> NoRun]

\* A capability expires, or the key that signed its chain leaves the account's
\* document: it verifies nowhere from then on, and stays wherever it is recorded.
Lapse(g) ==
  /\ zcap[g] = "live"
  /\ zcap' = [zcap EXCEPT ![g] = "dead"]
  /\ UNCHANGED <<entry, held, connected, knownAs, audit, roster, generator,
                 appKey, pc, run>>

\* A tab closes, or the browser crashes, between two awaits of a ceremony.
Crash(s) ==
  /\ pc[s] # "idle"
  /\ Finish(s)
  /\ UNCHANGED stored
====
