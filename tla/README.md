# A TLA+ verification of freewallet

freewallet is a browser wallet. It keeps an account (a did:webvh document, a
user key, a roster of recipients), a Space of encrypted collections on a remote
server, and a directory of the parties it gave access to. This directory holds
TLA+ models of the parts where several actors, or a crash, meet the same stored
state: the **connections** (apps and agents let in, what they were handed, the
ceremonies that take it back), and the **account's own ceremonies** (who its
clients are, which credentials stand, which key it is on, how its content
arrives, how it is recovered and how it is deleted).

Paths below are relative to the repository's `src/`; `PROJECT.json` has them in
full, and maps every definition to its lines.

## Inventory of the system

| component | state it keeps | operations | modelled in |
|---|---|---|---|
| Connection consent (`lib/walletRequest/{respond,processZcaps,appConnect,processRequest}.ts`) | a run's grants, prior entry state, what was escrowed | record the entry, write the Grant activity, escrow, provision, deliver, roll back | `RequestConsent` |
| Grant revocation (`lib/connectedApps.ts`, `stores/storageManager.ts`) | one directory reading, the collections still to rotate | disconnect an app, revoke an agent, unshare a collection | `GrantRevocation` |
| The `connections` directory (entries written through wallet-core) | per party: grants, pairwise seed, channels, outbox, retired and declined markers | record, remove, retire, clear, prune, compare-and-swap | `ConnectionEntry`, `Connections`, `GrantIndex` |
| Agent inbox pass (`session/inboxPass.ts`) | the entries read at its start, the ones it wrote, the document as read | drain, renew, push, prune | `AgentConnections` |
| Agent restore and decline (`session/agentReconnect.ts`) | the minted grants | mint again, record unless retired, decline | `AgentConnections` |
| Wallet-client entries (`session/connectionWriters.ts`, `session/clients.ts`) | the client's entry | register, retire, un-retire | `ClientMembership`, partly |
| Login and routing (`session/{transientLogin,initSession,keyring,verifiedLog,...}.ts`) | cached records, pins, the session | log in, enroll, route by the record | `ClientMembership`, `UnlockRecord`, partly |
| Signup and genesis (`session/{credentialAnchoredGenesis,standingUnlock,signup}.ts`) | the account being built | create, establish a credential | no |
| Session persistence (`session/{keyring,transientLogin}.ts`) | the unlock record, the browser's copy of it | fetch, cache, heal, renew, re-aim | `UnlockRecord`, partly |
| Session lifecycle (`session/sessionLifecycle.ts`) | disposal signals | dispose, check | `EncounterRunner`, partly |
| Credential rotation and repair (`session/{credentialRotation,pendingRetirement,unlockMethods,standingEstablishment,backupCredential}.ts`) | registry entries and their seal, document, roster, unlock Spaces | establish a credential entry first, clean up what failed, rotate off it, finish what tore | `PassphraseChange`, `StandingCredentials`, partly |
| Settings ceremonies (`session/accountSettings.ts`) | a walk's grades and its place | change the passphrase, add and remove a passkey or a backup credential, delete the account | `PassphraseChange`, `StandingCredentials`, `AccountDeletion`, partly |
| Recovery, revocation, forget, wipe (`session/{recovery,revocation,forget,wipe}.ts`) | the pending record, the account document, the roster | spend a code, resume a spend, disconnect a client, forget a browser | `RecoverySpend`, `ClientMembership`, partly |
| Backup and migration (`session/{backupExport,contentMigration}.ts`) | a run's sets of what it has seen | import, cancel, repeat | `ContentMigration`, `AppCollectionImport`, `AccountImport`, partly |
| Repairs and sweeps (`session/{userKeyAdoption,userKeySweep,registryReseal,...}.ts`) | registry seal, roster, user key | adopt, sweep, re-seal, rebuild an entry | `UserKeyAdoption`, `StandingCredentials`, partly |
| Menders and the encounter runner (`session/menders/*`) | runs in flight, spent budgets per session | raise, join, gate, run | `EncounterRunner`, `StrandedCollections`, partly |
| Wallet storage (`stores/*`) | the collections, their epochs, the local replica | read, write, share, rotate, sync | what the ceremonies call |
| Shared log plumbing, front-end stores, libraries, classification, user interface | caches, page state | | no |

How they interact. Ceremonies hardly ever call each other. They meet in stored
state: an entry or a registry (compare-and-swap by a helper), the roster of a
collection or of the user key, the account log, the records of an unlock Space,
the browser's own records. Tabs and devices share nothing else. Within one
session, background passes and repairs run beside the user's ceremonies on one
event loop, and any `await` is a place where they interleave.

Hard behaviours: every remote call may fail, and may land with its response
lost; a tab closes between any two awaits; a ceremony works from a reading it
made many calls ago; two tabs run different ceremonies on one party or one
account; what tore is retried from the start, or finished by the next login; the
server may mask a refusal as an absence, or serve an older log.

What makes each component correct. Consent: no capability is handed over that
the owner cannot find, no epoch is joined that a disconnect would not look at, no
hand-over without its audit row, one key per agent. Revocation: it never forgets
a live grant, takes nobody else's access, and finishes when retried. Inbox pass:
each grant renewed once, queued envelopes delivered, nothing usable pruned.
Restore: it never undoes a revoke. Client membership: no phantom client, a
removal stands and is completed. Credential rotation: a torn run is finished in
the one safe direction, and what the account holds of a credential stays
removable from its registry. Recovery: the account is reachable at every point of the
spend. Encounter runner: one run at a time, and its limits. Key adoption:
nothing goes back to an older key. Migration: one of everything. Deletion:
reports are true. Unlock record: no rewrite undoes another's.

## Modules

| module | models |
|---|---|
| `ConnectionEntry` | one directory entry and the wallet-core helpers over it (external: modelled from how this code calls them) |
| `Connections` | the shared state, the sessions and what their ceremonies hold in memory, crashes, capabilities lapsing |
| `RequestConsent` | `runRequestConsent`, one action per remote call |
| `GrantRevocation` | `revokeAppAccess`, `revokeAgentAccess`, `unshareCollection`, one action per remote call |
| `ConnectionCeremonies` | the two composed over any number of sessions; the properties |
| `GrantIndex` | the abstract specification: what the directory promises |
| `AgentConnections` | the inbox pass, the restore and the decline, the agents and the clock, composed with the above |
| `EncounterRunner` | one session's login block, its gate, the encounters behind it, disposal |
| `UserKeyAdoption` | how a live session moves onto a rotated user key: its own ceremonies, followers, the registry's re-seal |
| `StrandedCollections` | a transient session's refusing ciphers, the report, the binding, the repair |
| `PassphraseChange` | the change, the retirement of the old passphrase, the sweep and the repair of the next login |
| `StandingCredentials` | passkeys and backup credentials: establishment and its cleanup, removal, the registry's compare-and-swap, the login passes |
| `ClientMembership` | enrollment and its resume, disconnect, forget, wipe, the login passes |
| `RecoverySpend` | the spend of a code, remembered and transient, and its resume |
| `UnlockRecord` | one credential's record, its compare-and-swap rewrites, the browser's cached copy |
| `ContentMigration`, `AppCollectionImport` | the two halves of a migration: the wallet's own content, and one app collection |
| `AccountImport` | the two halves side by side; the properties of a migration |
| `AccountDeletion` | the deletion walk and what later logins remove |
| `MCConnections`, `MCAgents`, `MCEncounters`, `MCKeys`, `MCPassphrase`, `MCMembership`, `MCRecord`, `MCContent`, `MCDeletion` | the small instances (`RecoverySpend` is its own) |
| `ConnectionProofs` | theorems of `ConnectionCeremonies` and `AgentConnections` |
| `SessionProofs` | theorems of `EncounterRunner`, `UserKeyAdoption` and `StrandedCollections` |
| `UnlockProofs` | theorems of `StandingCredentials` and `PassphraseChange` |
| `MembershipProofs`, `SpendProofs`, `RecordProofs`, `ContentProofs`, `DeletionProofs` | theorems of `ClientMembership`, `RecoverySpend`, `UnlockRecord`, `AccountImport`, `AccountDeletion` |

### How state and actions correspond to the code

In every module an action is one stretch of code between two awaits, and `at`
(or `pc`) names the await at which an actor stands; the rest of its record is
what the function holds in local variables. A call that lands and one that fails
are two actions, or two disjuncts of one; the failing one may still change the
server. A tab that closes forgets its actor's record and nothing else.
`failures`, where it occurs, only counts them, against `MaxFailures`. A variable
or a field marked *history* is read by properties alone.

*Connections.* `entry` is the directory Resource of a party, `zcap` the status
of each capability at the server, `held` what some party was handed, `connected`
which parties hold a response, `knownAs` the pairwise keys an agent has seen,
`audit` the grants a Grant activity names, `roster` the current epoch's
recipients other than the owner, `generator` the attribution of a provisioned
collection, `appKey` the stored app-key Resource. `run[s]` holds the locals of
`runRequestConsent` (`recordedEntry`, `escrowed`, `persistedGrantId`) or of a
revocation (`directory`, the candidates, the failure count).
`revokeCollectionRecipients` rotates its candidates concurrently, so
`DisconnectRotate` takes them in any order. In `AgentConnections`, `pass[s]` is
a `PassDirectory` with the step of `runPass`, `dirty` its written entries,
`check` the memoized signer check.

*EncounterRunner.* `flights` is the map of runs in flight, `spent` the budget
set, `gate` the encounter gate's promise, `at` and `awaited` the place and the
pending writers of `runMenderBlock`, `tail` the login's inbox pass. A call of
`runEncounter` is raised, waits at the gate or behind a run it may not join,
converges, and returns its entries.

*UserKeyAdoption.* A user key is its epoch number. `site[s]` is an encounter that
read the roster and adopts by stages (join, pin, registry, record, keys);
`own[o]` a rotating ceremony under `withOwnUserKeyRotation`, whose mark is
`marks`. `cipher` is what each collection's cipher seals under.
*StrandedCollections* takes the ciphers from there: `stranded` refuse, `reports`
is the microtask, `running`/`dirty`/`seen` the binding's own state.

*PassphraseChange.* `doc`, `holders`, `readers`, `spaces`, `local`, `entry` are
the six stores the change writes one after the other, and `session[b]` the place
of the change, of the sweep or of the repair. `entry.marker` is the
establishment marker that names what is being established.
*StandingCredentials* has the same stores per credential: `listed` in the
document, `wraps` in the roster's current epoch (`wrapped` in any), `records` for
the unlock Space, `registry` with each entry absent, bare or full and the user
key it is sealed to. A credential stands for its secret and its Space. `job[s]`
is a session's login, its ceremony and the write it stands at; `base` is the
registry a compare-and-swap read, its content standing for its ETag. A session
whose `key` is not the one the registry is sealed to can neither read nor write
it; a visit whose own credential was struck signs nothing.

*ClientMembership.* `doc`/`published` are the clients the current document, and
any version, lists; `wraps` and `readers` the rosters; `record[b]` the browser's
one client-key record, `copy[t]` the one a background save has loaded;
`registering[t]` the writer registration running beside the session.

*RecoverySpend.* A *run* stands for the keys one run mints. `log` is the account
log entry by entry, so a stale read is a prefix; `epochs` the user key's;
`served` the unlock record's; `registry`, `local` and `job` as above. Its actions
are the calls of `runRecoveryCeremony`, of the transient hook, of the save
confirm and of `resumePendingRecovery`.

*UnlockRecord.* `held` is the sequence of versions the Space served; a delegation
is known by the version it first rode in and by the seed and Space it was minted
for. `job[t]` is a login with its `seen` delegations and the rewrite under way;
an ETag is a version number.

*ContentMigration, AppCollectionImport.* An archived Resource is its content
identity: `shown` and `arriving` are what the store shows and what it has not
pulled yet, `run[t]` the position and the sets a run keeps. In the app half,
`coll` is the collection's settings, in the order the create makes them, and
`held` whether each Resource is absent, a stub, or whole.

*AccountDeletion.* `alive`, `annex`, `unlock` are the Spaces that stand, `run[t]`
the walk: what it read, the grade of each Space, and what it tells the user.

### Abstractions

- Keys, envelopes, signatures, and DID documents are the sets they name. A proof
  over a record or a log verifies; what is served may be old, never forged.
- A capability is an id with a party and a target collection, and is `unsigned`,
  `live` or `dead`: expiry, revocation and a rotted parent are one status, as
  they are to whoever verifies it.
- A wallet-core helper is one atomic change of one entry, since it is one
  compare-and-swap retried on conflict. In `UnlockRecord`, where the retry is
  the code's own, it is not.
- Sessions mint fresh ids. An exhausted set of ids stops mints, nothing else.
- Activities nothing reads back, events and logs are left out.
- A retired entry keeps its seed. The seed's tag check, which refuses a seed the
  wallet did not write, is left out.
- An agent's grants are one scope, numbered in the order they are minted, which
  is the order they expire in; two envelopes queued in one millisecond are not
  modelled.
- A write of the inbox pass whose response is lost is a disjunct where the
  pass's stale reading matters afterwards; for its other writes it shows nothing
  that a tab closing there does not.
- `recordReceivedGrants` on an entry retired since the reading either stores the
  record or refuses it: both are allowed, since the helper is external.
- `UserKeyAdoption` lets others rotate and re-seal as one step each.
- `ContentMigration` reads one bundle. In `AppCollectionImport` the app asks for
  a provision of the archived kind.
- `AccountDeletion` probes a Space and its log in one step, confirms by
  passphrase, and leaves out a promoted account with a server of its own.
- `RecoverySpend` takes its remembered path as the code has it, behind
  `forcedRememberBrowser`, the default being the transient one.
- In `UnlockRecord` no request outlasts a tick, and the deployment without a
  server, where the cache is all there is, is left out.
- `StandingCredentials` reads an entry's shape as absent, bare or full; labels,
  the generation delegation's renewal ahead of a strike, the pre-flight of the
  attribution and the annex rungs are left out, their refusals being failures of
  the step they precede. A passkey that is removed records a management
  capability.
- In `ClientMembership` one standing credential logs in everywhere, so a browser
  has one record; the last client's re-mint of the annex, the writers' sweep and
  labels are left out.

## What the runs check

| run | instance, distinct states | checks |
|---|---|---|
| `OneTab` | 1 session, 2 apps sharing a collection, an agent with a private one, 3 grants, the apps symmetric; 3.5M | `TypeOK`, `HeldIsListed`, `HandedOverIsAudited`, `AccessIsTrue`, refinement of `GrantIndex` |
| `Converge` | 2 sessions, 1 app, 1 share; 80k, liveness | `DisconnectConverges` |
| `Scenes` | 2 sessions, 1 agent, 3 grants, 1 channel, four scenes; 3.3M | `HeldIsListed`, `PairwiseStable`, `RenewedOnce`, `StaleWritesKeep` |
| `Delivery` | 1 session, 1 agent, 2 grants; 0.2M, liveness | `QueuedIsDelivered` |
| `Encounters` | 3 calls, 3 registrations, a block of three; 0.4M, liveness | `OneRun`, `FreshIsCovered`, `BehindWriters`, `LimitsHold`, `EveryCallSettles` |
| `Keys` | 3 epochs, 2 collections, 2 sites, 1 ceremony, three parts; 0.4M, liveness | `RotatesAlone`, `NothingGoesBack`, `RotationsSettle` |
| `Passphrase` | 3 passphrases, 2 passkeys, 1 backup credential, 2 browsers, 2 failures, six scenes; 0.5M, liveness | `StandingIsNamed`, `ResidueIsNamed`, `AnchorStands`, `RetiredReadsNoMore`, `EstablishmentSettles` |
| `Membership` | 2 browsers with a tab each, 2 key sets, 1 failure; 1.0M, liveness | `NoPhantom`, `RemovalsStand`, `RemovedReadsNoMore` |
| `Spend` | 1 tab, 2 passphrases, 2 runs, 2 acts of another client, 2 failures; 0.4M, liveness | `Reachable`, `CodeIsKept`, `RegistryIsTrue`, `Finishes` |
| `Content` | 6 Resources and 2 archived app Resources, 3 runs, 2 failures, two halves; 1.8M | `MergedOnce`, `ImportedAsArchived`, `RunsLoseNothing` |
| `Deletion` | 2 tabs, 2 siblings, 3 annex Spaces, 2 failures, two scenes; 0.3M, liveness | `Enterable`, `RunsReportTrue`, `GoesInTheEnd` |
| `Record` | 1 remembered tab, 1 visit, 2 attempts, 2 acts, 3 ticks, two scenes; 1.6M, liveness | `NothingIsUndone`, `OfflineForgets`, `Aims` |

A **scene** (or part, or half) fixes at the start which actors take part, so that
one run asks one question of several small casts instead of one large one.
`Scenes` has the passes of one tab beside its own ceremonies; the owner in two
tabs beside the passes of the first; the passes of two tabs over one due grant;
and two tabs that consent to a new agent at once. Its scenes but the last start
from `Connected(open)`: an agent with one grant recorded, handed over and due,
and the channels in `open` recorded. A consent, an invitation and a pass that
drained it lead there from `AgentInit`; starting there keeps those steps out of
every interleaving. `Delivery` starts there too, and leaves the consents out,
since a consent hands its own grants over. `Keys` has a remembered session, a
transient one, and a transient one's strands. `Passphrase` has a remembered
browser alone with two failures, over an entry that names its passphrase or a
bare one, and beside a transient one with one failure; its other three scenes are
of `StandingCredentials`: the two browsers over all three credentials without a
failure, over the passkeys with two, and the remembered one alone with two.
`AccessIsTrue` joins `AccessIsListed` and `CoAdmittedKeepsAccess`;
`RotationsSettle` says that a ceremony's mark goes and that reported strands are
met by a repair; `StandingIsNamed` includes `CurrentStands`. `Deletion` and `Record`
have one actor alone, with more failures or more time, and two beside each other.

**Why these bounds.** The ceremonies interfere pairwise, through one entry, one
roster or one record, so two tabs, browsers or passes are every pair. *Grants:*
two make a consent that escrows in part and a disconnect that read one and not
the other; two apps on one collection are what a rotation must tell apart; the
agent's private collection is what a provision and its clear touch; a second
grant is the successor of the first, and the third in the scene of two passes is
what a second pass, or the restore, would mint beside it. In the other scenes the third
grant is never minted, which keeps them small; what `Scenes` checks is proved for
every number of grants.
*Failures:* one tears a ceremony, the second tears the run that repairs it.
*Epochs:* two rotations are what a stale adoption needs. *Runs:* the third run of
a migration is the one that meets what two stopped ones left; two runs of a spend
are a torn one and its repetition. *Annex Spaces:* one a session rides, one a
second tab mints, one a retry mints. *Record:* two attempts make a conflict
retried and a conflict given up. *Passkeys:* one stands and one comes and goes,
from either browser; a credential removed is never established again, since its
secret is new each time. `MaxDue` bounds how many grants come due at
once, `Channels` how many invitations an agent sends. The theorems below remove
the bounds for the properties they state.

**Deadlock** is not checked: every model stops when its ids, failures or runs are
used up, and the system itself has then nothing left to do.

**Fairness.** In every liveness run a call that is under way returns or fails
(weak fairness of the step in flight), which the code's timeouts give. Beyond it:

- `Converge`: an owner who keeps asking for the disconnect of a listed app in tab
  1, and no call that fails every time it is tried (strong fairness of each
  call's success). The comment on `revokeAppAccess` relies on just this: a stage
  that does not land leaves the row listed, and the user runs it again. Tab 2 has
  no fairness, and tabs close at any time.
- `Delivery`: passes keep starting (each login runs one), and neither a push nor
  a stage fails or is cut off by a closing tab forever. A pass that does fail is
  retried by the next: that is the design of `inboxPass.ts`.
- `Encounters`: the login block and the calls go on; nothing is assumed of their
  outcome, nor of the disposal.
- `Keys`: encounters and ceremonies go on; the strands' gate opens, a microtask
  runs.
- `Passphrase` and `Membership`: only steps in flight. That another login comes
  is a premise of the property (`[]<>` a login's sweep, or a passkey's own login),
  not a fairness: nobody must log in. A failing repair cannot fail forever, since failures are bounded.
- `Spend`: the user logs in now and again, and a session that stays open finishes
  its sweep.
- `Deletion`: a user who wants the account gone tries again, signs in again after
  a refusal (strong fairness of `Enter`), and accepts the removals the logins
  offer.
- `Record`: requests are answered, sessions heal their pointer, users come back.

**Mutants.** Each property of a run names one plausible mistake in the code (a
lost guard, a best-effort write, an unchecked merge, a swapped order) that makes
TLC find it violated in that run. The mutated operators stand before the
definition they replace.

## Where the code is exposed

These interleavings do break a property, or a sentence of the code's own
documentation. The runs keep each of them out by a bound or a constant, which is
named, so that the properties say what holds apart from it.

*Connections* (the first three are why `OneTab` has one session, and the agent's
are visible in `AgentConnections` as it stands):

- An unshare in one tab takes a grant off the entry that a consent in another has
  recorded and not yet escrowed. The consent goes on to escrow, and the app is on
  the epoch with no recorded grant (`respond.ts:522-524` promises a revocation
  hook for every key-epoch entry).
- A rotation admits whom the directory admitted when the disconnect started. An
  app escrowed since is left out of the fresh epoch
  (`storageManager.ts:5105-5107` promises it keeps its access).
- A disconnect between a zero-grant connect's record and its delivery retires the
  entry, having nothing to refuse it by: the app holds a response, with no
  capability, while unlisted.
- `RereadFails`: a failed escrow is re-read, and where the re-read fails too the
  grant counts as not escrowed (`storageManager.ts:6111-6123`), though its append
  may have landed: the rollback takes it off the entry, and the app is on the
  epoch with no recorded grant.
- The inbox pass reads the account document once, and renews by that reading a
  grant whose authority was withdrawn a moment later (`app-connect.md:721-722`
  says this never happens). It pushes from its own snapshot of the outbox, also
  after the revoke cleared it (`storageManager.ts:5364-5366`). Either way the
  grant that goes out is dead or about to be: the revoke POSTs every grant it
  finds, and a renewal is on the entry.

*Account:*

- `HeldAdoption`: the removal of a credential and the passphrase change adopt the
  rotated key after they let go of the own-rotation mark
  (`userKeyAdoption.ts:326`). If another client rotates and an encounter follows
  in between, the late adoption re-seals the registry back to the older key. The
  run takes the ceremonies that adopt under the mark.
- `Sites` of a remembered session is one site in `Keys`: two sites that adopt
  different rotations at once may write the browser's client-key record out of
  order.
- `Abandons`: a change from p1 to p2 tears behind its document entry; the user
  goes back to p1 and changes to p3. p2 still stands with nothing naming it, and
  a login with it retires p3, the current passphrase (`pendingRetirement.ts:209`;
  `docs/architecture/session-and-auth.md:352-355` says the gate prevents it, but
  the gate is asked only of a credential the document does not list).
- `RemovesBare`: `removeAccountPasskey` says that both paths retire the passkey as
  a standing credential (`accountSettings.ts:1298-1302`), but over a bare entry,
  which a torn establishment leaves, there is no key to strike: the rotation
  returns nothing (`credentialRotation.ts:260-263`), the Space and the entry go,
  and the passkey stays in the document and in the roster with nothing naming it
  (`menders/invariants.ts:568`). With `RemovesBare` TRUE, TLC finds `AnchorStands`
  violated. The refusal to remove the last method counts bare entries too
  (`SettingsPage.tsx:440-447`), so the one passkey that still logs in may go.
- `Overlaps`: a removal beside the establishment or the rebuild of the same
  credential, in another session. The removal deletes the record under the
  listing that the other publishes behind it, or the other's upsert brings the
  dropped entry back. With `Overlaps` TRUE, TLC finds `AnchorStands` violated.
- Over an entry that names no passphrase, nothing tells what a torn change was
  from, so `StandingIsNamed` is not asked of that scene; and with two browsers
  such an entry lets a change torn in one be forgotten by the other.
- `BrowserOf` gives each tab a browser of its own: two tabs of one browser without a
  record enroll at once, the second's pending record replaces the first's, and the
  first publishes a client no record holds (`standingUnlock.ts:926`). The theorems
  assume `OneTabEach`.
- `Overlap`: two tabs that migrate one bundle each write their Import activity and
  then each delete the other's (`storageManager.ts:7946`). A migration that begins
  over a replica that has not caught up copies twice; `lagged` marks it.
- The cipher of an imported app Resource is checked against the served metadata
  before the seal, and an epoch rotated between the two seals it under the older
  one (`storageManager.ts:7891`): hence `SealedFresh` says "when its own import
  began".
- A second tab that deletes the account between the first's probe and its DELETEs
  makes the first say the account is still there
  (`accountSettings.ts:2606`, `i18n/locales/en.json:66`), so `RunsReportTrue` asks
  this only of the run's own DELETE. A walk torn behind its annex delete cannot be
  retried in its session (`accountSettings.ts:2174`), only after signing in again:
  that is `Enter`'s fairness.
- `Spend` has one tab: two tabs that spend a code for one passphrase overwrite
  each other's unlock record (`recovery.ts:2985`). Another client's sweep between
  the passphrase's wrap and its document entry drops the wrap, and the registry
  still records the passphrase as standing (`recovery.ts:1908`); a replacement
  code revoked elsewhere comes back into the registry with the spend's next step
  (`recovery.ts:2474`). `RegistryIsTrue` asks for neither.
- `Kept` has one tab: a tab that read the record before its retirement saves it
  behind another tab's miss, and the passphrase resolves offline for a TTL
  (`keyring.ts:1227`). `OfflineForgetsSafety` assumes one such tab.

## What is proved

By TLAPS, for every value of the constants that satisfies the module's
`ASSUME` (each states only that the constants are of their kind and disjoint
where the code's are). Where a theorem needs more, it says so.

| theorem | states |
|---|---|
| `TypeSafety`, `IndexSafety` | `TypeOK`, and the inductive invariant of the connection ceremonies |
| `HeldIsListedSafety`, `AgentHeldIsListed` | a live capability that was handed over stands on its party's listed entry, also beside the inbox passes |
| `ImplementsGrantIndex`, `AgentsImplementGrantIndex` | every step of the ceremonies, and of the passes, restores and clock beside them, is a step of `GrantIndex` or leaves the index alone |
| `AccessIsTrueSafety` | whoever reads a collection's epoch or holds a response is listed with a grant the owner finds it by, and a rotation takes the collection from its party alone (with `OneSession`) |
| `HandedOverIsAuditedSafety`, `PairwiseStableSafety`, `AgentPairwiseStable` | every hand-over has its activity; an agent sees one key |
| `AgentSafety`, `AgentRenewedOnce`, `AgentStaleWritesKeep` | the agents' inductive invariant; of the renewals of one grant at most one verifies; no stale write brings back a revoked agent or forgets a live capability |
| `OneRunSafety`, `FreshIsCoveredSafety`, `BehindWritersSafety`, `LimitsHoldSafety` | the encounter runner, for any block, calls and registrations |
| `AdoptionSafety`, `RotatesAloneSafety`, `NothingGoesBackSafety` | no follower adoption beside a rotating ceremony; no cipher, registry or record goes back to an older key (with `OneAtATime`) |
| `StrandsSafety`, `CollectionsForwardSafety` | the binding counts the run under way and a cipher refuses exactly when it is older than the key; no repair and no rotation moves a collection back |
| `ChangeSafety`, `StandingIsNamedSafety` | whatever stands of a passphrase that is not the current one is named by the entry (with `GoesOn`) |
| `StandingSafety`, `ResidueIsNamedSafety`, `AnchorStandsSafety` | what the account holds of a passkey or a backup credential stands behind a registry entry; a listed one keeps its record (with `Apart`) |
| `MembershipSafety`, `NoPhantomSafety`, `RemovalsStandSafety` | every listed client has its record; a removal is not reversed (with `OneTabEach`) |
| `SpendReachable`, `SpendCodeIsKept`, `SpendRegistryIsTrue`, `SpendGivesUpRightly` | the account a code is spent on stays reachable, its new code kept, its registry true, and a pending record is given up only when the spend is void (with `OneTab`) |
| `RecordSafety`, `NothingUndoneSafety`, `OneAuthoritySafety`, `OfflineForgetsSafety` | no rewrite undoes another's; no version mixes two seeds; a told browser forgets (the last with one tab of the browser at the credential) |
| `ContentMergedOnce`, `AppImportedAsArchived`, `NothingIsLost` | one of everything; an app collection is as archived; a clean run loses nothing (the first and the last with `~Overlap`) |
| `DeletionSafety`, `EnterableSafety`, `ReportsSafety` | the account that lives can be entered; every report of a walk is true |

The assumptions beyond the `ASSUME`s are those under which the runs check the
same property, and each is a case the code does not guard against, named under
"Where the code is exposed": `OneTabEach` and `OneTab`, one tab in each browser or
one tab spending the code; `~Overlap`, one tab migrating at a time; `Apart`, no
two sessions at one credential and no removal over a bare entry; `GoesOn`, the
user does not abandon a torn change and the entry named its passphrase at first;
`OneAtATime`, one ceremony rotates at a time and under its mark to the end, and a
remembered browser has one site that follows; `OneSession`, one session runs the
connection ceremonies and the re-read behind a failed escrow answers.
`StrandsAssumption` is the bounds' kind only.

**Connections.** `HeldIsListed` is not inductive: nothing in it says why a retire
or a rollback may take a grant away. `IndexInv` adds

- `Signed`: what is recorded, held, in a consent's hands or in a reading was
  signed, so a consent that starts on unsigned ids meets none of it;
- `Own`: a consent in flight is the only one holding its grants, and nobody was
  handed them, so its rollback removes only what nobody holds;
- `RecordedBy`: from its record to its delivery, a consent's live grants stand
  on the entry, whatever other ceremonies do meanwhile;
- `HandledBy`: a disconnect that reached its key delete or its retirement, and
  an unshare that reached its removal, have seen every grant of their reading
  dead, so the retire, which refuses an entry with a grant outside the reading,
  drops only dead ones.

Almost every step is "local": it moves one session, revokes some capabilities,
and changes the entry only by adding its own, dropping its own or dropping dead
grants. `LocalStep` shows that such a step keeps the invariant, and the proof of
each action is that it is local and keeps its own promise. `AuditInv` adds that a
consent past its Grant activity has its grants named by one; the case that needs
`Own` is the rollback that deletes an activity. `SeedInv` says that every key an
agent saw is its entry's and that a consent past its record signs by the entry's
seed; it is inductive because no write takes a seed off an entry or replaces it.

`AccessInv` adds the rosters. `AskedBy`: whatever a consent would take off the
entry if it were rolled back now (its grants, save those whose escrow landed) is
never what a collection's epoch lists the party by; so a rollback, from any place
and after an escrow whose answer was lost, leaves a grant for every epoch the
party is on. `TakenBy`: with one session the reading of a disconnect is still true
when it rotates, so nobody the directory admits is left out of the fresh epoch;
and a revocation writes the entry only once the party is off the rosters its
grants stood for. Neither holds with two sessions, by the interleavings listed
above. The theorem still covers a session that stops anywhere and one that begins
where it stopped.

**Agents.** Beside the ceremonies `AgentInv` says what a pass relies on, though
its reading is old. `CarriedIsPlaced`: what a queued envelope carries, on an entry
or on one some pass has read, was minted, is in no consent's hands, and stands on
its entry for as long as it verifies; so a push, from whatever snapshot, hands
over only what the owner finds. `Renewed`: the successor of a grant stays on the
entry while that grant does, so a pass that finds the grant again finds its
successor too and mints no second live one (`OneRenewal`); it rests on `Unrecorded`
(what a consent or a restore signed is on no entry before it records it) and on
`InOrder`. A step is either one of the ceremonies, which the lemmas above cover,
or "background" (`Keeps`): it records nothing, brings nothing back, and forgets
nothing live. The refinement of `GrantIndex` holds beside the passes by the same
split.

`RenewedOnce` speaks of capabilities that verify. The plain form (no grant is
renewed twice) does not hold: with four grants TLC finds one renewed again after
its first successor is dead. `StaleWritesKeep` excuses dropping a *dead* capability,
superseded or not: the pass counts any settled item of a scope as the delivery of
its grant's successor (`inboxPass.ts:1617-1645`), while
decision 0044 (line 80) says "the item carrying its successor". Where a queued
envelope of a dead grant settles first, the older grant is pruned before its
successor arrives. What is pruned is dead, so no access is lost by it.

**Encounters.** `Owns` ties a running call to its registration's flight, so two
runs of one registration are one call. `Covers` says that a call with fresh
evidence joins nobody. `Opens` carries the gate: writers still ahead of the block
are still awaited, and the gate is shut until none is. `Spent` ties the last
failure to the budget.

**User key.** `Alone`: a marked ceremony that still waits has every adoption in
flight among those it waits for; one that no longer waits has none. The mark
keeps new adoptions from starting, so the set only shrinks. `Forward` keeps the
keys in order: no key is ahead of the roster nor the browser's record ahead of the
pin (`Behindhand`); a follower pins before it writes, and writes over an older
record (`Followed`); a ceremony marks the session until its end, and nothing that
stands is newer than what it holds (`Minting`). In `StrandedCollections` the repair
appends behind a roster read of a while ago; what keeps the collections from going
back is that wallet-core's cascade leaves one that is ahead of the read (`Onto`).

**Passphrase change.** The hard case is two browsers at work side by side, one
finishing what the other tore. `Agree` says that they always work on the same two
passphrases in the same direction, and that whoever logs in meanwhile uses one
of the two. `Under(o, n)` is what the stores look like during such a change: the
entry names one of the two, no marker names the old one, and the old one is out of
the document before the entry names the new one. `Behind` adds, for each place of
the change and of its retirement, which writes are behind it. `Steady` is what one
session's step may do to the stores; `WorkStep` shows that such a step leaves the
other sessions what they rely on.

**Standing credentials.** `OneWorker`: no two sessions are at one credential.
`PlacedOf`: at its place an establishment stands behind its registry entry and its
record, and a retirement has struck, rotated, deleted and dropped in this order,
a write without an answer included. A step touches only the credential its
session works on (`Elsewhere`), save the sweep, which wraps what is listed, so the
residue of every other credential stays named. The compare-and-swap matters in
one place: a reading that is not current writes nothing.

**Deletion.** `Standing` says that the acting record outlives the account.
`Place` says what a walk has behind it: past the pivot the account is gone, and
it only deletes the acting record there. `True`, `Covered` and `Ended` are the
three halves of a report: what is graded deleted is gone, every sibling read is
graded, and the end says so. All of it is stable under `Later`: nothing another
tab does to the Spaces revives one.

**Record.** Every version carries delegations of its own seed (`VerOK`); the
siblings a tab has seen are for no later Space than the one it minted for, so its
put turns none away; what it puts over is what its ETag read, so it restates only
what still stands; and a version in a tab's hands that was just written or
fetched stands until now (`Until`), so the save it makes is fresh.

**Membership.** No key set is two tabs' (`Distinct`); a listed client is a
standing record's (`Backed`), which holds because the record precedes the entry
and the wipe follows the removal; a client about to be published was never
published, so a torn enrollment the login resumes cannot list a struck one; and a
forget past its wait has its tab's registration settled, so nothing puts the
retired entry back.

**Recovery.** The invariant is in the order of the stores. `LogInv`: one entry
strikes the code, for good, and lists the one client and the one replacement code
there ever are. `Untouched`: before it the account is as it was, so a run torn
there leaves nothing to repair. `SpendInv`: behind it one record reaches the
account, either through its client, or still pending, through the spent code,
which the roster lets in until the escrow of its successor. `RecordInv`,
`RosterInv` and `RegistryInv` say what the browser's records, the roster and the
registry hold of the log, and `JobInv` what each tab has behind it at its stage.
A stale answer of the server is a prefix of the log; `LogInv` says of every prefix
what the resume may conclude from it, which is why it gives a record up rightly.

**Content.** `MemoryIsTrue`: what a run remembers of a contact's head is what
became of it; `MissesNothing`: in a replica that has caught up it has seen all that
stands; `RecordsLast`: the activity it wrote is the last, and it removes the others
only. With one tab at work the next run starts from a true picture, however the
last one stopped. In the app half `OwnIsFinished` says that a collection the
migration made has its settings before a run writes into it, `KindIsRight` that
what is sealed goes where the archive had it, and `PassedWhole` that a clean run
has left no stub behind.

**Only model-checked.** The liveness properties (`DisconnectConverges`,
`QueuedIsDelivered`, `EveryCallSettles`, `RotationsSettle`, `RetiredReadsNoMore`,
`RemovedReadsNoMore`, `EstablishmentSettles`, `Finishes`, `GoesInTheEnd`, `Aims`):
TLAPS proves no liveness under fairness, and no ENABLED. `CollectionsForward`,
the safety in `RotationsSettle`, is proved. `StandingIsNamed` over a bare entry, for
one browser. What a recursive definition over data computes for every input is out
of reach (no induction over data); the models have none.

## What is not modelled

The map covers about an eighth of the implementation's lines. What is left out,
and why:

- *User interface, front-end stores, translations* (about a quarter of the lines):
  page state, no protocol; a page's guards that matter to a ceremony are guards of
  its action.
- *Encryption, parsing, WebAuthn, HTTP, IndexedDB, key management*: a call's
  failure is modelled, not its bytes. The replica's synchronisation is a
  library's; what a ceremony sees of it is `arriving`.
- *Request classification and composition, descriptors, credential verification*:
  pure functions of their input.
- *Most of `storageManager.ts` and the remote store*: single reads and writes of
  one Resource, with no second step to tear, beyond what the ceremonies call.
- *Signup and genesis*: nobody else reaches the account that is being built. Its
  order of writes is what `PassphraseChange`, `StandingCredentials` and
  `ClientMembership` tear and
  repair for an account that lives.
- *The shared log adapters*: they wrap wallet-core's logs; the epochs they write
  are the rosters above.

What would come next, in this order: the recovery code's form of credential
rotation and establishment (`unlockMethods.ts`); signup, as the
abstract "establish a credential" that the passphrase change, the passkey and the
spend refine; the writers' sweep of `connectionWriters.ts`; and the issuance and
revocation of recovery codes.
