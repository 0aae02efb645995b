---- MODULE UnlockRecord ----
(***************************************************************************)
(* One credential's unlock record: the copy its unlock Space serves, which *)
(* any session of the credential may rewrite under compare-and-swap, and   *)
(* the copy a browser caches for the logins it makes offline.              *)
(*                                                                         *)
(* A record names the account, by a DID once a login has healed the        *)
(* pointer, and the ladder seed, and carries two delegations: the bridge   *)
(* to the account log, and the sibling to the annex Space the account      *)
(* document points at.  A delegation is known by the version of the record *)
(* it first rode in, and by the seed and the Space it was minted for.      *)
(***************************************************************************)
EXTENDS Naturals, FiniteSets, Sequences

CONSTANTS
  Kept,         \* the tabs of one browser, whose logins keep local state
  Visits,       \* the tabs of transient logins
  Attempts,     \* compare-and-swap attempts of one rewrite
  TTL,          \* how long a cached record answers offline
  OtherActs,    \* what other devices may do to the record
  MaxActs,      \* bound: their acts
  MaxRenewals,  \* bound: delegations found expired
  MaxSpaces,    \* bound: annex Spaces
  MaxFailures,  \* bound: calls whose answer does not arrive
  MaxNow        \* bound: the time

Tabs == Kept \cup Visits

ASSUME RecordAssumption ==
  /\ Kept \cap Visits = {}
  /\ Attempts \in Nat \ {0} /\ TTL \in Nat
  /\ OtherActs \subseteq {"remint", "reseed", "retire"}
  /\ MaxActs \in Nat /\ MaxRenewals \in Nat
  /\ MaxSpaces \in Nat \ {0} /\ MaxFailures \in Nat /\ MaxNow \in Nat \ {0}

VARIABLES
  held,      \* the versions of the served record, the last one standing
  retired,   \* when the unlock Space was deleted, 0 while it stands
  pointed,   \* the annex Space the account document points at
  cache,     \* the browser's copy: its version and the time of its save
  told,      \* the browser has been told that the Space is gone
  job,       \* each tab's login and rewrite
  now, acts, renewals, failures

counts == <<acts, renewals, failures>>
vars == <<held, retired, pointed, cache, told, job, now, counts>>

Served == held[Len(held)]
NoCache == [ver |-> 0, at |-> 0]
Idle == [at |-> "idle", base |-> 0, seenB |-> {}, seenS |-> {}, heals |-> FALSE,
         renews |-> FALSE, space |-> 0, ver |-> 0, etag |-> 0, tries |-> 0]

\* The types; a version a tab or the cache holds is one that was served.
TypeOK ==
  /\ \A v \in 1..Len(held) :
       /\ held[v].did \in BOOLEAN /\ held[v].seed \in 1..Len(held)
       /\ held[v].bridge.of \in 1..v /\ held[v].sibling.of \in 1..v
       /\ held[v].sibling.space \in 1..MaxSpaces /\ held[v].since \in 1..now
  /\ retired \in 0..now /\ pointed \in 1..MaxSpaces
  /\ cache.ver \in 0..Len(held) /\ cache.at \in 0..now /\ told \in BOOLEAN
  /\ \A t \in Tabs :
       /\ job[t].at \in {"idle", "missed", "fetched", "offline", "ensure", "in",
                         "read", "put", "written"}
       /\ job[t].base \in 0..Len(held) /\ job[t].ver \in 0..Len(held)
       /\ job[t].etag \in 0..Len(held) /\ job[t].tries \in 0..(Attempts - 1)
       /\ job[t].seenB \subseteq 1..Len(held) /\ job[t].seenS \subseteq 1..Len(held)
       /\ job[t].heals \in BOOLEAN /\ job[t].renews \in BOOLEAN
       /\ job[t].space \in 0..MaxSpaces
  /\ now \in 1..MaxNow /\ acts \in 0..MaxActs /\ renewals \in 0..MaxRenewals
  /\ failures \in 0..MaxFailures

\* A cached copy may carry no time, from an app version that stamped none.
Init ==
  /\ \E did \in BOOLEAN :
       held = <<[did |-> did, seed |-> 1, since |-> 1,
                 bridge |-> [of |-> 1, seed |-> 1],
                 sibling |-> [of |-> 1, seed |-> 1, space |-> 1]]>>
  /\ cache \in {NoCache, [ver |-> 1, at |-> 0], [ver |-> 1, at |-> 1]}
  /\ retired = 0 /\ pointed = 1 /\ told = FALSE
  /\ job = [t \in Tabs |-> Idle]
  /\ now = 1 /\ acts = 0 /\ renewals = 0 /\ failures = 0

At(t, at) == job[t].at = at
Goes(t, at) == job' = [job EXCEPT ![t].at = at]
Counted == failures < MaxFailures /\ failures' = failures + 1
Fine == UNCHANGED failures
Renewed == renewals < MaxRenewals /\ renewals' = renewals + 1

(***************************************************************************)
(* The login's read.                                                       *)
(***************************************************************************)
Usable == cache # NoCache /\ cache.at # 0 /\ now - cache.at <= TTL

Opened(v, at) ==
  [Idle EXCEPT !.at = at, !.base = v, !.ver = v,
               !.seenB = {held[v].bridge.of}, !.seenS = {held[v].sibling.of}]

Fetch(t) ==
  /\ At(t, "idle")
  /\ job' = [job EXCEPT ![t] =
       IF retired # 0 THEN [Idle EXCEPT !.at = IF t \in Kept THEN "missed" ELSE "idle"]
       ELSE Opened(Len(held), IF t \in Kept THEN "fetched" ELSE "ensure")]
  /\ UNCHANGED <<held, retired, pointed, cache, told, now, counts>>

\* The server is out of reach: the cache answers, a while.
FetchOffline(t) ==
  /\ At(t, "idle") /\ t \in Kept /\ Counted
  /\ Usable /\ job' = [job EXCEPT ![t] = Opened(cache.ver, "offline")]
  /\ UNCHANGED <<held, retired, pointed, cache, told, now, acts, renewals>>

\* Mutant of Missed: the copy is left.
MissedKept == cache
Missed == NoCache
Miss(t) ==
  /\ At(t, "missed")
  /\ cache' = Missed /\ told' = TRUE
  /\ job' = [job EXCEPT ![t] = Idle]
  /\ UNCHANGED <<held, retired, pointed, now, counts>>

SaveCache(t) ==
  /\ At(t, "fetched")
  /\ cache' = [ver |-> job[t].base, at |-> now]
  /\ Goes(t, "in")
  /\ UNCHANGED <<held, retired, pointed, told, now, counts>>

(***************************************************************************)
(* What starts a rewrite.                                                  *)
(***************************************************************************)
Offers(t, heals, renews, space) ==
  job' = [job EXCEPT ![t].at = "read", ![t].heals = heals,
            ![t].renews = renews, ![t].space = space, ![t].tries = 0]

\* The login's heal fills the account's DID into the pointer.
Heal(t) ==
  /\ At(t, "in") /\ t \in Kept /\ ~held[job[t].base].did
  /\ Offers(t, TRUE, FALSE, 0)
  /\ UNCHANGED <<held, retired, pointed, cache, told, now, counts>>

\* A stale pair is re-minted, the sibling for the Space the session knows.
Refresh(t) ==
  /\ At(t, "in") /\ t \in Kept /\ Renewed
  /\ Offers(t, FALSE, TRUE, held[job[t].base].sibling.space)
  /\ UNCHANGED <<held, retired, pointed, cache, told, now, acts, failures>>

\* A visit mints a sibling for the Space the document points at, if the
\* record's is for another or has expired, and renews the bridge if it has.
\* The rest of the pair it restates.  The Space itself may be minted anew.
\* Mutant of Misaimed: the record's sibling is taken as it is.
MisaimedNever(t) == FALSE
Misaimed(t) == held[job[t].base].sibling.space # pointed
Ensure(t) ==
  /\ At(t, "ensure")
  /\ \/ /\ ~Misaimed(t) /\ Goes(t, "in") /\ UNCHANGED <<pointed, renewals>>
     \/ /\ Misaimed(t) /\ UNCHANGED <<pointed, renewals>>
        /\ Offers(t, FALSE, FALSE, pointed)
     \/ /\ Renewed /\ UNCHANGED pointed
        /\ \/ Offers(t, FALSE, FALSE, pointed)
           \/ Offers(t, FALSE, TRUE, IF Misaimed(t) THEN pointed ELSE 0)
     \/ /\ pointed < MaxSpaces /\ pointed' = pointed + 1
        /\ Offers(t, FALSE, FALSE, pointed + 1) /\ UNCHANGED renewals
  /\ held[job[t].base].did
  /\ UNCHANGED <<held, retired, cache, told, now, acts, failures>>

\* A visit to a record that names no DID yet is refused here.
Unpromoted(t) ==
  /\ At(t, "ensure") /\ ~held[job[t].base].did
  /\ job' = [job EXCEPT ![t] = Idle]
  /\ UNCHANGED <<held, retired, pointed, cache, told, now, counts>>

(***************************************************************************)
(* The compare-and-swap rewrite.                                           *)
(***************************************************************************)
\* A failed rewrite leaves a session standing; a visit whose sibling is not
\* resealed does not open.
Failed(t) ==
  job' = [job EXCEPT ![t] =
    IF t \in Visits /\ job[t].space # 0 THEN Idle ELSE [@ EXCEPT !.at = "in"]]

Landed(t) == job[t].heals /\ Served.did
SameAuthority(t) ==
  /\ held[job[t].base].did = Served.did
  /\ held[job[t].base].seed = Served.seed

Read(t) ==
  /\ At(t, "read")
  /\ \/ /\ Fine
        /\ IF retired # 0 THEN Failed(t)
           ELSE IF Landed(t)
                THEN job' = [job EXCEPT ![t].at = "written", ![t].ver = Len(held)]
           ELSE IF SameAuthority(t)
                THEN job' = [job EXCEPT ![t].at = "put", ![t].etag = Len(held)]
           ELSE Failed(t)
     \/ Failed(t) /\ Counted
  /\ UNCHANGED <<held, retired, pointed, cache, told, now, acts, renewals>>

\* Another writer re-pointed the sibling at a Space of its own.
Repointed(t) ==
  LET there == held[job[t].etag].sibling IN
  job[t].space # 0 /\ there.of \notin job[t].seenS /\ there.space # job[t].space

\* What the caller did not mint is taken from the record it writes over.
\* Mutant of Carried: from the record it read at login.
CarriedOver(t) == held[job[t].base]
Carried(t) == held[job[t].etag]
Rewritten(t) ==
  LET minted == held[job[t].base].seed
      next == Len(held) + 1 IN
  [did |-> Carried(t).did \/ job[t].heals, seed |-> held[job[t].etag].seed,
   since |-> now,
   bridge |-> IF job[t].renews THEN [of |-> next, seed |-> minted]
              ELSE Carried(t).bridge,
   sibling |-> IF job[t].space # 0
               THEN [of |-> next, seed |-> minted, space |-> job[t].space]
               ELSE Carried(t).sibling]

Matches(t) == job[t].etag = Len(held) /\ retired = 0

Again(t) == job[t].tries + 1 < Attempts

Put(t) ==
  /\ At(t, "put")
  /\ \/ Repointed(t) /\ Failed(t) /\ Fine /\ UNCHANGED <<held, retired>>
     \/ /\ ~Repointed(t) /\ Matches(t)
        /\ held' = Append(held, Rewritten(t)) /\ retired' = 0
        /\ \/ /\ Fine
              /\ job' = [job EXCEPT ![t].at = "written", ![t].ver = Len(held) + 1]
           \/ Failed(t) /\ Counted
     \/ /\ ~Repointed(t) /\ ~Matches(t) /\ Fine /\ UNCHANGED <<held, retired>>
        /\ IF Again(t)
           THEN job' = [job EXCEPT ![t].at = "read", ![t].tries = @ + 1]
           ELSE Failed(t)
  /\ UNCHANGED <<pointed, cache, told, now, acts, renewals>>

\* The closure has now seen what it minted, and the session acts through what
\* landed.
Written(t) ==
  /\ At(t, "written")
  /\ cache' = IF t \in Kept THEN [ver |-> job[t].ver, at |-> now] ELSE cache
  /\ job' = [job EXCEPT ![t].at = "in",
       ![t].seenB = IF job[t].renews THEN @ \cup {held[job[t].ver].bridge.of} ELSE @,
       ![t].seenS = IF job[t].space # 0 THEN @ \cup {held[job[t].ver].sibling.of}
                    ELSE @]
  /\ UNCHANGED <<held, retired, pointed, told, now, counts>>

Leave(t) ==
  /\ job[t].at \in {"in", "offline"}
  /\ job' = [job EXCEPT ![t] = Idle]
  /\ UNCHANGED <<held, retired, pointed, cache, told, now, counts>>

(***************************************************************************)
(* Other devices, and time.                                                *)
(***************************************************************************)
Acts(act) == act \in OtherActs /\ acts < MaxActs /\ acts' = acts + 1 /\ retired = 0
Replaces(seed) ==
  held' = Append(held, [Served EXCEPT !.seed = seed, !.since = now,
                          !.bridge = [of |-> Len(held) + 1, seed |-> seed],
                          !.sibling = [@ EXCEPT !.of = Len(held) + 1, !.seed = seed]])

\* A cascade signs the pair again.
OtherRemints ==
  /\ Acts("remint") /\ Replaces(Served.seed)
  /\ UNCHANGED <<retired, pointed, cache, told, job, now, renewals, failures>>

\* The credential is established again, on a seed of its own.
OtherReseeds ==
  /\ Acts("reseed") /\ Replaces(Len(held) + 1)
  /\ UNCHANGED <<retired, pointed, cache, told, job, now, renewals, failures>>

\* The credential is retired.
OtherRetires ==
  /\ Acts("retire") /\ retired' = now
  /\ UNCHANGED <<held, pointed, cache, told, job, now, renewals, failures>>

\* No request outlasts a tick.
Tick ==
  /\ now < MaxNow /\ \A t \in Tabs : job[t].at \in {"idle", "in", "offline"}
  /\ now' = now + 1
  /\ UNCHANGED <<held, retired, pointed, cache, told, job, counts>>

Step(t) ==
  \/ Miss(t) \/ SaveCache(t) \/ Ensure(t) \/ Unpromoted(t) \/ Read(t) \/ Put(t)
  \/ Written(t)
Others == OtherRemints \/ OtherReseeds \/ OtherRetires
Next ==
  \/ \E t \in Tabs : \/ Fetch(t) \/ FetchOffline(t) \/ Step(t) \/ Heal(t)
                     \/ Refresh(t) \/ Leave(t)
  \/ Others \/ Tick

Spec == Init /\ [][Next]_vars

\* Requests are answered, sessions heal their pointer, and the user comes back.
Fairness ==
  \A t \in Tabs :
    WF_vars(Step(t)) /\ WF_vars(Fetch(t)) /\ SF_vars(Heal(t)) /\ WF_vars(Leave(t))
FairSpec == Spec /\ Fairness

(***************************************************************************)
(* Properties.                                                             *)
(***************************************************************************)
Until(v) == IF v < Len(held) THEN held[v + 1].since
            ELSE IF retired # 0 THEN retired ELSE now

\* A delegation another writer has replaced is never put back, nor a promoted
\* pointer taken away.
NeverPutBack ==
  held' # held =>
    LET new == held'[Len(held')] IN
    /\ new.bridge.of \in {Served.bridge.of, Len(held')}
    /\ new.sibling.of \in {Served.sibling.of, Len(held')}
    /\ new.did \/ ~Served.did

\* A retired credential's record is not written again.
StaysRetired == retired # 0 => retired' = retired /\ held' = held

\* A sibling aimed at the Space the document points at is not turned away.
StaysAimed ==
  held' # held /\ Served.sibling.space = pointed
    => held'[Len(held')].sibling.space = pointed'

\* No rewrite undoes what another writer did between its read and its put.
NothingIsUndone == [][NeverPutBack /\ StaysRetired /\ StaysAimed]_vars

\* A record carries no delegation minted for a credential's earlier seed.
OneAuthority ==
  \A v \in 1..Len(held) :
    held[v].bridge.seed = held[v].seed /\ held[v].sibling.seed = held[v].seed

\* A browser told that the credential is retired resolves it no more ("Drop
\* the cached copy so the retired passphrase cannot keep resolving offline"),
\* and an offline login opens what the server was serving a TTL ago or later.
\* Every variable keeps its shape.
OfflineForgets ==
  /\ [](TypeOK /\ (told => cache = NoCache))
  /\ [][\A t \in Tabs : job[t].at # "offline" /\ job'[t].at = "offline" =>
          now - Until(job'[t].base) <= TTL]_vars
====
