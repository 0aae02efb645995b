---- MODULE RecordProofs ----
(***************************************************************************)
(* What the rewrites of an unlock record guarantee for every number of     *)
(* tabs, versions, annex Spaces, attempts and failures.                    *)
(***************************************************************************)
EXTENDS UnlockRecord, TLAPS

Delegation == [of : Nat, seed : Nat]
Version ==
  [did : BOOLEAN, seed : Nat, since : Nat, bridge : Delegation,
   sibling : [of : Nat, seed : Nat, space : Nat]]
Job ==
  [at : {"idle", "missed", "fetched", "offline", "ensure", "in", "read", "put",
         "written"},
   base : Nat, seenB : SUBSET Nat, seenS : SUBSET Nat, heals : BOOLEAN,
   renews : BOOLEAN, space : Nat, ver : Nat, etag : Nat, tries : Nat]

\* A version carries delegations of its own seed, and a sibling for a Space the
\* document came to point at, the one it was minted for.
VerOK(v) ==
  /\ held[v].seed \in 1..Len(held) /\ held[v].since \in 1..now
  /\ held[v].bridge.of \in 1..v /\ held[v].sibling.of \in 1..v
  /\ held[v].sibling.space \in 1..pointed
  /\ held[held[v].sibling.of].sibling.space = held[v].sibling.space
  /\ held[v].bridge.seed = held[v].seed /\ held[v].sibling.seed = held[v].seed

\* What is served and cached: the cached version stood when it was saved.
Stored ==
  /\ held \in Seq(Version) /\ Len(held) \in Nat /\ Len(held) >= 1
  /\ \A v \in 1..Len(held) : VerOK(v)
  /\ now \in 1..MaxNow /\ retired \in 0..now /\ pointed \in 1..MaxSpaces
  /\ told \in BOOLEAN
  /\ acts \in 0..MaxActs /\ renewals \in 0..MaxRenewals /\ failures \in 0..MaxFailures
  /\ cache \in [ver : Nat, at : Nat]
  /\ cache.ver \in 0..Len(held) /\ cache.at \in 0..now
  /\ cache.at # 0 => cache.ver >= 1 /\ cache.at <= Until(cache.ver)

Writing == {"read", "put", "written"}

\* What a tab's rewrite has behind it: the siblings it has seen are for no later
\* Space than its own, and what it writes over is of the seed it mints for.
JobOK(t) ==
  /\ job[t].base \in 0..Len(held) /\ job[t].ver \in 0..Len(held)
  /\ job[t].etag \in 0..Len(held) /\ job[t].tries \in 0..(Attempts - 1)
  /\ job[t].seenB \subseteq 1..Len(held) /\ job[t].seenS \subseteq 1..Len(held)
  /\ job[t].space \in 0..MaxSpaces
  /\ job[t].at \notin {"idle", "missed"} => job[t].base >= 1
  /\ job[t].at = "missed" => retired # 0
  /\ job[t].at = "ensure" => t \notin Kept
  /\ job[t].at \in Writing /\ job[t].heals => job[t].space = 0
  /\ job[t].at \in Writing /\ job[t].space # 0 =>
       /\ job[t].space <= pointed
       /\ \A o \in job[t].seenS : held[o].sibling.space <= job[t].space
  /\ t \in Kept /\ job[t].at \notin {"idle", "missed"} =>
       /\ \A o \in job[t].seenS : held[o].sibling.space = held[job[t].base].sibling.space
       /\ job[t].at \in Writing /\ job[t].space # 0 =>
            job[t].space = held[job[t].base].sibling.space
  /\ job[t].at = "put" =>
       job[t].etag >= 1 /\ held[job[t].etag].seed = held[job[t].base].seed
  /\ job[t].at = "written" =>
       /\ job[t].ver >= 1 /\ Until(job[t].ver) = now
       /\ job[t].space # 0 =>
            held[held[job[t].ver].sibling.of].sibling.space = job[t].space
  /\ job[t].at = "fetched" => Until(job[t].base) = now

Inv == Stored /\ job \in [Tabs -> Job] /\ \A t \in Tabs : JobOK(t)

Quiet == {"idle", "in", "offline"}

\* Versions are only added, the document is only re-pointed, and a version that
\* has gone stays gone from when it went.
Later ==
  /\ Len(held') \in Nat /\ Len(held) <= Len(held')
  /\ \A v \in 1..Len(held) : held'[v] = held[v] /\ Until(v) <= Until(v)'
  /\ pointed' \in Nat /\ pointed <= pointed'
  /\ now' \in Nat /\ now <= now'
  /\ now' = now \/ \A t \in Tabs : job[t].at \in Quiet
  /\ retired # 0 => retired' # 0

LEMMA Untils ==
  ASSUME Stored, NEW v \in 1..Len(held) PROVE Until(v) \in Nat /\ Until(v) <= now
<1>1. v < Len(held) => v + 1 \in 1..Len(held)
  BY DEF Stored
<1>2. v < Len(held) => held[v + 1].since \in 1..now
  BY <1>1 DEF Stored, VerOK
<1> QED
  BY <1>2 DEF Stored, Until

\* A record that is only read.
LEMMA Unwritten ==
  ASSUME RecordAssumption, Inv, UNCHANGED <<held, retired, now>>,
         pointed' \in pointed..MaxSpaces,
         UNCHANGED cache \/ cache' = NoCache
           \/ \E v \in 1..Len(held) : Until(v) = now /\ cache' = [ver |-> v, at |-> now],
         told' \in BOOLEAN, acts' \in 0..MaxActs, renewals' \in 0..MaxRenewals,
         failures' \in 0..MaxFailures
  PROVE  Stored' /\ Later
<1>1. \A v : Until(v)' = Until(v)
  BY DEF Until
<1>2. pointed \in Nat /\ pointed' \in Nat /\ pointed' \in 1..MaxSpaces /\ pointed <= pointed'
  BY DEF Inv, Stored, RecordAssumption
<1>3. \A v \in 1..Len(held) : VerOK(v)'
  BY <1>2 DEF Inv, Stored, VerOK
<1>4. /\ cache' \in [ver : Nat, at : Nat]
      /\ cache'.ver \in 0..Len(held) /\ cache'.at \in 0..now
      /\ cache'.at # 0 => cache'.ver >= 1 /\ cache'.at <= Until(cache'.ver)
  BY DEF Inv, Stored, NoCache
<1>5. Until(cache.ver)' = Until(cache'.ver)
  BY DEF Until
<1>6. Stored'
  BY <1>2, <1>3, <1>4, <1>5 DEF Inv, Stored
<1>7. \A v \in 1..Len(held) : Until(v) <= Until(v)'
  BY <1>1, Untils DEF Inv
<1> QED
  BY <1>2, <1>6, <1>7 DEF Inv, Stored, Later

\* A version added over the one served.
LEMMA Grows ==
  ASSUME RecordAssumption, Inv, NEW new \in Version, held' = Append(held, new),
         retired = 0, UNCHANGED <<retired, now, pointed, cache, told>>,
         acts' \in 0..MaxActs, renewals' \in 0..MaxRenewals,
         failures' \in 0..MaxFailures,
         new.since = now, new.seed \in 1..(Len(held) + 1),
         new.bridge.of \in 1..(Len(held) + 1),
         new.sibling.space \in 1..pointed,
         \/ new.sibling.of = Len(held) + 1
         \/ /\ new.sibling.of \in 1..Len(held)
            /\ held[new.sibling.of].sibling.space = new.sibling.space,
         new.bridge.seed = new.seed, new.sibling.seed = new.seed
  PROVE  Stored' /\ Later
<1>1. /\ held' \in Seq(Version) /\ Len(held') = Len(held) + 1 /\ Len(held) \in Nat
      /\ held'[Len(held) + 1] = new
      /\ \A v \in 1..Len(held) : held'[v] = held[v]
  BY DEF Inv, Stored
<1>2. \A v \in 1..Len(held) : Until(v) <= Until(v)' /\ (Until(v) = now => Until(v)' = now)
                                /\ Until(v)' \in Nat
  <2> SUFFICES ASSUME NEW v \in 1..Len(held)
               PROVE  /\ Until(v) <= Until(v)' /\ (Until(v) = now => Until(v)' = now)
                      /\ Until(v)' \in Nat
    OBVIOUS
  <2>1. Until(v) \in Nat /\ Until(v) <= now
    BY Untils DEF Inv
  <2>2. CASE v < Len(held)
    <3>1. v + 1 \in 1..Len(held) /\ v < Len(held')
      BY <1>1, <2>2
    <3>2. Until(v)' = Until(v)
      BY <1>1, <2>2, <3>1 DEF Until
    <3> QED
      BY <2>1, <3>2
  <2>3. CASE v = Len(held)
    BY <1>1, <2>1, <2>3 DEF Until
  <2> QED
    BY <1>1, <2>2, <2>3
<1>3. \A v \in 1..Len(held') : VerOK(v)'
  <2> SUFFICES ASSUME NEW v \in 1..Len(held') PROVE VerOK(v)'
    OBVIOUS
  <2>1. CASE v \in 1..Len(held)
    <3>1. VerOK(v) /\ held[v].sibling.of \in 1..Len(held)
      BY <1>1, <2>1 DEF Inv, Stored, VerOK
    <3> QED
      BY <1>1, <2>1, <3>1 DEF VerOK
  <2>2. CASE v = Len(held) + 1
    BY <1>1, <2>2 DEF Inv, Stored, VerOK
  <2> QED
    BY <1>1, <2>1, <2>2
<1>4. cache.at # 0 => cache.ver >= 1 /\ cache.at <= Until(cache.ver)'
  <2>1. cache.at # 0 => cache.ver \in 1..Len(held) /\ cache.at <= Until(cache.ver)
    BY <1>1 DEF Inv, Stored
  <2>2. \A v : v = cache.ver => Until(v)' = Until(cache.ver)'
    BY DEF Until
  <2>3. \A v \in 1..Len(held) : Until(v) \in Nat /\ Until(v)' \in Nat
    BY <1>2, Untils DEF Inv
  <2>4. cache.at \in Nat
    BY DEF Inv, Stored
  <2> QED
    BY <1>2, <2>1, <2>2, <2>3, <2>4
<1>5. Stored'
  BY <1>1, <1>3, <1>4 DEF Inv, Stored
<1> QED
  BY <1>1, <1>2, <1>5 DEF Inv, Stored, Later, RecordAssumption

\* A rewrite no step touched keeps what it has behind it.
LEMMA Stays ==
  ASSUME RecordAssumption, Inv, Stored', Later, NEW t \in Tabs, job'[t] = job[t]
  PROVE  JobOK(t)'
<1>1. JobOK(t) /\ job[t] \in Job
  BY DEF Inv
<1>2. /\ Len(held) \in Nat /\ Len(held') \in Nat /\ Len(held) <= Len(held')
      /\ \A v \in 1..Len(held) : held'[v] = held[v] /\ v \in 1..Len(held')
      /\ pointed \in Nat /\ pointed' \in Nat /\ pointed <= pointed'
  BY DEF Inv, Stored, Later, RecordAssumption
<1>3. /\ job[t].space \in Nat
      /\ \A o \in job[t].seenS : o \in 1..Len(held) /\ held'[o] = held[o]
      /\ job[t].base >= 1 => held'[job[t].base] = held[job[t].base]
  BY <1>1, <1>2 DEF JobOK, Job
<1>4. job[t].at \notin Quiet => now' = now
  BY DEF Later
<1>5. ASSUME NEW v \in 1..Len(held), Until(v) = now, now' = now PROVE Until(v)' = now'
  <2>1. Until(v) <= Until(v)' /\ now \in Nat
    BY <1>5 DEF Inv, Stored, Later, RecordAssumption
  <2>2. Until(v)' \in Nat /\ Until(v)' <= now'
    <3>1. v \in 1..Len(held')
      BY <1>2
    <3>2. v < Len(held') => v + 1 \in 1..Len(held')
      BY <1>2
    <3>3. v < Len(held') => held'[v + 1].since \in 1..now'
      BY <3>2 DEF Stored, VerOK
    <3> QED
      BY <3>3 DEF Stored, Until, RecordAssumption
  <2> QED
    BY <1>5, <2>1, <2>2
<1>6. job[t].at = "fetched" => Until(job[t].base)' = now'
  <2>1. CASE job[t].at = "fetched"
    <3>1. job[t].base \in 1..Len(held) /\ Until(job[t].base) = now /\ now' = now
      BY <1>1, <1>2, <1>4, <2>1 DEF JobOK, Quiet
    <3>2. \A v : v = job[t].base => Until(v)' = Until(job[t].base)'
      BY DEF Until
    <3> QED
      BY <1>5, <3>1, <3>2
  <2> QED
    BY <2>1
<1>7. job[t].at = "written" =>
        /\ Until(job[t].ver)' = now' /\ job[t].ver \in 1..Len(held)
        /\ held'[held'[job[t].ver].sibling.of].sibling.space
             = held[held[job[t].ver].sibling.of].sibling.space
  <2>1. CASE job[t].at = "written"
    <3>1. job[t].ver \in 1..Len(held) /\ Until(job[t].ver) = now /\ now' = now
      BY <1>1, <1>2, <1>4, <2>1 DEF JobOK, Quiet
    <3>2. \A v : v = job[t].ver => Until(v)' = Until(job[t].ver)'
      BY DEF Until
    <3>3. held[job[t].ver].sibling.of \in 1..Len(held)
      BY <1>2, <3>1 DEF Inv, Stored, VerOK
    <3> QED
      BY <1>2, <1>5, <3>1, <3>2, <3>3
  <2> QED
    BY <2>1
<1>8. /\ job[t].base \in 0..Len(held') /\ job[t].ver \in 0..Len(held')
      /\ job[t].etag \in 0..Len(held') /\ job[t].tries \in 0..(Attempts - 1)
      /\ job[t].seenB \subseteq 1..Len(held') /\ job[t].seenS \subseteq 1..Len(held')
      /\ job[t].space \in 0..MaxSpaces
  BY <1>1, <1>2 DEF JobOK
<1>9. job[t].at = "put" =>
        job[t].etag >= 1 /\ held'[job[t].etag].seed = held'[job[t].base].seed
  BY <1>1, <1>2, <1>3 DEF JobOK
<1>10. job[t].at \in Writing /\ job[t].space # 0 =>
         /\ job[t].space <= pointed'
         /\ \A o \in job[t].seenS : held'[o].sibling.space <= job[t].space
  BY <1>1, <1>2, <1>3 DEF JobOK
<1>11. t \in Kept /\ job[t].at \notin {"idle", "missed"} =>
         /\ \A o \in job[t].seenS :
              held'[o].sibling.space = held'[job[t].base].sibling.space
         /\ job[t].at \in Writing /\ job[t].space # 0 =>
              job[t].space = held'[job[t].base].sibling.space
  BY <1>1, <1>3 DEF JobOK
<1>12. /\ job[t].at \notin {"idle", "missed"} => job[t].base >= 1
       /\ job[t].at = "missed" => retired' # 0
       /\ job[t].at = "ensure" => t \notin Kept
       /\ job[t].at \in Writing /\ job[t].heals => job[t].space = 0
  BY <1>1 DEF JobOK, Later
<1>13. job[t].at = "written" => job[t].ver >= 1 /\ (job[t].space # 0 =>
         held'[held'[job[t].ver].sibling.of].sibling.space = job[t].space)
  BY <1>1, <1>7 DEF JobOK
<1> QED
  BY <1>6, <1>7, <1>8, <1>9, <1>10, <1>11, <1>12, <1>13 DEF JobOK

\* A step of one tab that leaves what is stored in order, and its own rewrite,
\* keeps the invariant.
LEMMA OneTab ==
  ASSUME RecordAssumption, Inv, Stored', Later, NEW t \in Tabs, NEW r \in Job,
         job' = [job EXCEPT ![t] = r], JobOK(t)'
  PROVE  Inv'
<1>1. job' \in [Tabs -> Job]
  BY DEF Inv
<1>2. ASSUME NEW u \in Tabs PROVE JobOK(u)'
  <2>1. CASE u # t
    <3>1. job'[u] = job[u]
      BY <2>1 DEF Inv
    <3> QED
      BY <3>1, Stays
  <2> QED
    BY <2>1
<1> QED
  BY <1>1, <1>2 DEF Inv

LEMMA NoTab ==
  ASSUME RecordAssumption, Inv, Stored', Later, job' = job
  PROVE  Inv'
  BY Stays DEF Inv

LEMMA InitInv == RecordAssumption /\ Init => Inv
<1> SUFFICES ASSUME RecordAssumption, Init PROVE Inv
  OBVIOUS
<1>1. PICK did \in BOOLEAN :
        held = <<[did |-> did, seed |-> 1, since |-> 1,
                  bridge |-> [of |-> 1, seed |-> 1],
                  sibling |-> [of |-> 1, seed |-> 1, space |-> 1]]>>
  BY DEF Init
<1>2. held \in Seq(Version) /\ Len(held) = 1
  BY <1>1 DEF Version, Delegation
<1>3. \A v \in 1..Len(held) : VerOK(v)
  BY <1>1, <1>2 DEF Init, VerOK
<1>4. /\ cache \in [ver : Nat, at : Nat]
      /\ cache.ver \in 0..1 /\ cache.at \in 0..1 /\ (cache.at # 0 => cache.ver = 1)
  BY DEF Init, NoCache
<1>5. Until(1) = 1
  BY <1>2 DEF Init, Until
<1>6. cache.at # 0 => cache.at <= Until(cache.ver)
  BY <1>4, <1>5
<1>7. Stored
  <2>1. /\ now \in 1..MaxNow /\ retired \in 0..now /\ pointed \in 1..MaxSpaces
        /\ told \in BOOLEAN
        /\ acts \in 0..MaxActs /\ renewals \in 0..MaxRenewals
        /\ failures \in 0..MaxFailures
    <3>1. /\ 1 \in 1..MaxNow /\ 0 \in 0..1 /\ 1 \in 1..MaxSpaces /\ 0 \in 0..MaxActs
          /\ 0 \in 0..MaxRenewals /\ 0 \in 0..MaxFailures
      BY DEF RecordAssumption
    <3> QED
      BY <3>1 DEF Init
  <2>2. /\ cache.ver \in 0..Len(held) /\ cache.at \in 0..now
        /\ cache.at # 0 => cache.ver >= 1
    BY <1>2, <1>4 DEF Init
  <2>3. Len(held) \in Nat /\ Len(held) >= 1
    BY <1>2
  <2> QED
    BY <1>2, <1>3, <1>4, <1>6, <2>1, <2>2, <2>3, Zenon DEF Stored
<1>8. Idle \in Job
  BY DEF Idle, Job
<1>9. \A t \in Tabs : job[t] = Idle
  BY DEF Init
<1>10. \A t \in Tabs : JobOK(t)
  BY <1>9 DEF JobOK, Idle, Writing, RecordAssumption
<1> QED
  BY <1>7, <1>8, <1>10 DEF Init, Inv

LEMMA IdleOK ==
  ASSUME RecordAssumption, Inv, Stored', Later, NEW t \in Tabs,
         \/ job'[t] = Idle
         \/ job'[t] = [Idle EXCEPT !.at = "missed"] /\ retired' # 0
  PROVE  JobOK(t)'
<1>1. /\ job'[t].at \in {"idle", "missed"} /\ job'[t].base = 0 /\ job'[t].ver = 0
      /\ job'[t].etag = 0 /\ job'[t].tries = 0 /\ job'[t].seenB = {}
      /\ job'[t].seenS = {} /\ job'[t].space = 0
      /\ job'[t].at = "missed" => retired' # 0
  BY DEF Idle
<1>2. 0 \in 0..Len(held') /\ 0 \in 0..(Attempts - 1) /\ 0 \in 0..MaxSpaces
  BY DEF Stored, RecordAssumption
<1> QED
  BY <1>1, <1>2 DEF JobOK, Writing

\* A login that opens a version of the record.
LEMMA OpenedOK ==
  ASSUME RecordAssumption, Inv, Stored', UNCHANGED <<held, retired, now>>, NEW t \in Tabs,
         NEW v \in 1..Len(held), NEW p \in {"fetched", "offline", "ensure"},
         p = "fetched" => Until(v) = now, p = "ensure" => t \notin Kept,
         job'[t] = Opened(v, p)
  PROVE  JobOK(t)'
<1>1. /\ job'[t].at = p /\ job'[t].base = v /\ job'[t].ver = v /\ job'[t].etag = 0
      /\ job'[t].seenB = {held[v].bridge.of} /\ job'[t].seenS = {held[v].sibling.of}
      /\ job'[t].tries = 0 /\ job'[t].space = 0
  BY DEF Opened, Idle
<1>2. /\ held[v].bridge.of \in 1..Len(held) /\ held[v].sibling.of \in 1..Len(held)
      /\ held[held[v].sibling.of].sibling.space = held[v].sibling.space
      /\ v \in Nat
  <2>1. VerOK(v) /\ Len(held) \in Nat
    BY DEF Inv, Stored
  <2> QED
    BY <2>1 DEF VerOK
<1>3. Until(v)' = Until(v) /\ (\A u : u = job'[t].base => Until(u)' = Until(job[t].base)')
  BY DEF Until
<1>4. p = "fetched" => Until(job[t].base)' = now'
  BY <1>1, <1>3
<1> QED
  BY <1>1, <1>2, <1>4 DEF JobOK, Writing, RecordAssumption

\* What a rewrite had behind it is still so over the versions as they are now.
LEMMA StillBehind ==
  ASSUME RecordAssumption, Inv, Stored', Later, NEW t \in Tabs
  PROVE  /\ job[t] \in Job
         /\ job[t].base \in 0..Len(held') /\ job[t].ver \in 0..Len(held')
         /\ job[t].etag \in 0..Len(held') /\ job[t].tries \in 0..(Attempts - 1)
         /\ job[t].seenB \subseteq 1..Len(held') /\ job[t].seenS \subseteq 1..Len(held')
         /\ job[t].space \in 0..MaxSpaces
         /\ job[t].at \notin {"idle", "missed"} => job[t].base >= 1
         /\ job[t].at \in Writing /\ job[t].space # 0 =>
              /\ job[t].space <= pointed'
              /\ \A o \in job[t].seenS : held'[o].sibling.space <= job[t].space
         /\ job[t].at \in Writing /\ job[t].heals => job[t].space = 0
         /\ t \in Kept /\ job[t].at \notin {"idle", "missed"} =>
              /\ \A o \in job[t].seenS :
                   held'[o].sibling.space = held'[job[t].base].sibling.space
              /\ job[t].at \in Writing /\ job[t].space # 0 =>
                   job[t].space = held'[job[t].base].sibling.space
<1>1. JobOK(t) /\ job[t] \in Job
  BY DEF Inv
<1>2. /\ Len(held) \in Nat /\ Len(held') \in Nat /\ Len(held) <= Len(held')
      /\ \A v \in 1..Len(held) : held'[v] = held[v] /\ v \in 1..Len(held')
      /\ pointed \in Nat /\ pointed' \in Nat /\ pointed <= pointed'
  <2>1. Len(held) \in Nat /\ Len(held') \in Nat /\ Len(held) <= Len(held')
    BY DEF Inv, Stored, Later
  <2>2. pointed \in Nat /\ pointed' \in Nat /\ pointed <= pointed'
    BY DEF Inv, Stored, Later, RecordAssumption
  <2>3. \A v \in 1..Len(held) : held'[v] = held[v]
    BY DEF Later
  <2>4. \A v \in 1..Len(held) : v \in 1..Len(held')
    BY <2>1
  <2> QED
    BY <2>1, <2>2, <2>3, <2>4
<1>3. /\ job[t].space \in Nat
      /\ \A o \in job[t].seenS : o \in 1..Len(held) /\ held'[o] = held[o]
      /\ job[t].base >= 1 => held'[job[t].base] = held[job[t].base]
  BY <1>1, <1>2 DEF JobOK, Job
<1>4. /\ job[t].base \in 0..Len(held') /\ job[t].ver \in 0..Len(held')
      /\ job[t].etag \in 0..Len(held') /\ job[t].tries \in 0..(Attempts - 1)
      /\ job[t].seenB \subseteq 1..Len(held') /\ job[t].seenS \subseteq 1..Len(held')
      /\ job[t].space \in 0..MaxSpaces
  BY <1>1, <1>2 DEF JobOK
<1>5. job[t].at \in Writing /\ job[t].space # 0 =>
        /\ job[t].space <= pointed'
        /\ \A o \in job[t].seenS : held'[o].sibling.space <= job[t].space
  BY <1>1, <1>2, <1>3 DEF JobOK
<1>6. t \in Kept /\ job[t].at \notin {"idle", "missed"} =>
        /\ \A o \in job[t].seenS :
             held'[o].sibling.space = held'[job[t].base].sibling.space
        /\ job[t].at \in Writing /\ job[t].space # 0 =>
             job[t].space = held'[job[t].base].sibling.space
  BY <1>1, <1>3 DEF JobOK
<1> QED
  BY <1>1, <1>4, <1>5, <1>6 DEF JobOK

\* Each step of a rewrite keeps it in order.
LEMMA Moves ==
  ASSUME RecordAssumption, Inv, Stored', Later, NEW t \in Tabs,
         Step(t) \/ Heal(t) \/ Refresh(t), job[t].at \notin {"idle", "missed"}
  PROVE  JobOK(t)'
<1>1. /\ job[t] \in Job
      /\ Len(held') \in Nat
  BY DEF Inv, Later
<1>2. /\ job[t].base \in 0..Len(held') /\ job[t].ver \in 0..Len(held')
      /\ job[t].etag \in 0..Len(held') /\ job[t].tries \in 0..(Attempts - 1)
      /\ job[t].seenB \subseteq 1..Len(held') /\ job[t].seenS \subseteq 1..Len(held')
      /\ job[t].space \in 0..MaxSpaces /\ job[t].base >= 1
  BY StillBehind
<1>3. job[t].at \in Writing /\ job[t].space # 0 =>
        /\ job[t].space <= pointed'
        /\ \A o \in job[t].seenS : held'[o].sibling.space <= job[t].space
  BY StillBehind
<1>4. t \in Kept =>
        /\ \A o \in job[t].seenS :
             held'[o].sibling.space = held'[job[t].base].sibling.space
        /\ job[t].at \in Writing /\ job[t].space # 0 =>
             job[t].space = held'[job[t].base].sibling.space
  BY StillBehind
<1>h. job[t].at \in Writing /\ job[t].heals => job[t].space = 0
  BY StillBehind
<1>5. ASSUME job'[t] = [job[t] EXCEPT !.at = "in"]
      PROVE  JobOK(t)'
  <2>1. /\ job'[t].at = "in" /\ job'[t].base = job[t].base
        /\ job'[t].seenB = job[t].seenB /\ job'[t].seenS = job[t].seenS
        /\ job'[t].heals = job[t].heals /\ job'[t].renews = job[t].renews
        /\ job'[t].space = job[t].space /\ job'[t].ver = job[t].ver
        /\ job'[t].etag = job[t].etag /\ job'[t].tries = job[t].tries
    BY <1>1, <1>5 DEF Job
  <2>2. /\ job'[t].base \in 0..Len(held') /\ job'[t].ver \in 0..Len(held')
        /\ job'[t].etag \in 0..Len(held') /\ job'[t].tries \in 0..(Attempts - 1)
        /\ job'[t].seenB \subseteq 1..Len(held') /\ job'[t].seenS \subseteq 1..Len(held')
        /\ job'[t].space \in 0..MaxSpaces /\ job'[t].base >= 1
    BY <1>1, <1>2, <1>5, <2>1, RecordAssumption DEF RecordAssumption
  <2>3. job'[t].at \in Writing /\ job'[t].space # 0 =>
          /\ job'[t].space <= pointed'
          /\ \A o \in job'[t].seenS : held'[o].sibling.space <= job'[t].space
    BY <1>3, <1>5, <2>1 DEF Writing
  <2>4. t \in Kept =>
          /\ \A o \in job'[t].seenS :
               held'[o].sibling.space = held'[job'[t].base].sibling.space
          /\ job'[t].at \in Writing /\ job'[t].space # 0 =>
               job'[t].space = held'[job'[t].base].sibling.space
    BY <1>4, <1>5, <2>1 DEF Writing
  <2>h. job'[t].at \in Writing /\ job'[t].heals => job'[t].space = 0
    BY <1>h, <1>5, <2>1 DEF Writing
  <2>5. job'[t].at = "put" =>
          job'[t].etag >= 1 /\ held'[job'[t].etag].seed = held'[job'[t].base].seed
    BY <1>1, <1>5, <2>1
  <2> QED
    BY <1>5, <2>1, <2>2, <2>3, <2>4, <2>h, <2>5 DEF JobOK
<1>6. ASSUME NEW h \in BOOLEAN,
             NEW n \in BOOLEAN,
             NEW s \in 0..MaxSpaces,
             h => s = 0,
             s # 0 => /\ s <= pointed'
                      /\ \A o \in job[t].seenS : held'[o].sibling.space <= s
                      /\ t \in Kept => s = held'[job[t].base].sibling.space,
             job'[t] = [job[t] EXCEPT !.at = "read", !.heals = h, !.renews = n, !.space = s, !.tries = 0]
      PROVE  JobOK(t)'
  <2>1. /\ job'[t].at = "read" /\ job'[t].base = job[t].base
        /\ job'[t].seenB = job[t].seenB /\ job'[t].seenS = job[t].seenS
        /\ job'[t].heals = h /\ job'[t].renews = n
        /\ job'[t].space = s /\ job'[t].ver = job[t].ver
        /\ job'[t].etag = job[t].etag /\ job'[t].tries = 0
    BY <1>1, <1>6 DEF Job
  <2>2. /\ job'[t].base \in 0..Len(held') /\ job'[t].ver \in 0..Len(held')
        /\ job'[t].etag \in 0..Len(held') /\ job'[t].tries \in 0..(Attempts - 1)
        /\ job'[t].seenB \subseteq 1..Len(held') /\ job'[t].seenS \subseteq 1..Len(held')
        /\ job'[t].space \in 0..MaxSpaces /\ job'[t].base >= 1
    BY <1>1, <1>2, <1>6, <2>1, RecordAssumption DEF RecordAssumption
  <2>3. job'[t].at \in Writing /\ job'[t].space # 0 =>
          /\ job'[t].space <= pointed'
          /\ \A o \in job'[t].seenS : held'[o].sibling.space <= job'[t].space
    BY <1>3, <1>6, <2>1 DEF Writing
  <2>4. t \in Kept =>
          /\ \A o \in job'[t].seenS :
               held'[o].sibling.space = held'[job'[t].base].sibling.space
          /\ job'[t].at \in Writing /\ job'[t].space # 0 =>
               job'[t].space = held'[job'[t].base].sibling.space
    BY <1>4, <1>6, <2>1 DEF Writing
  <2>h. job'[t].at \in Writing /\ job'[t].heals => job'[t].space = 0
    BY <1>h, <1>6, <2>1 DEF Writing
  <2>5. job'[t].at = "put" =>
          job'[t].etag >= 1 /\ held'[job'[t].etag].seed = held'[job'[t].base].seed
    BY <1>1, <1>6, <2>1
  <2> QED
    BY <1>6, <2>1, <2>2, <2>3, <2>4, <2>h, <2>5 DEF JobOK
<1>7. ASSUME NEW e \in 1..Len(held'),
             job[t].at = "read",
             held'[e].seed = held'[job[t].base].seed,
             job'[t] = [job[t] EXCEPT !.at = "put", !.etag = e]
      PROVE  JobOK(t)'
  <2>1. /\ job'[t].at = "put" /\ job'[t].base = job[t].base
        /\ job'[t].seenB = job[t].seenB /\ job'[t].seenS = job[t].seenS
        /\ job'[t].heals = job[t].heals /\ job'[t].renews = job[t].renews
        /\ job'[t].space = job[t].space /\ job'[t].ver = job[t].ver
        /\ job'[t].etag = e /\ job'[t].tries = job[t].tries
    BY <1>1, <1>7 DEF Job
  <2>2. /\ job'[t].base \in 0..Len(held') /\ job'[t].ver \in 0..Len(held')
        /\ job'[t].etag \in 0..Len(held') /\ job'[t].tries \in 0..(Attempts - 1)
        /\ job'[t].seenB \subseteq 1..Len(held') /\ job'[t].seenS \subseteq 1..Len(held')
        /\ job'[t].space \in 0..MaxSpaces /\ job'[t].base >= 1
    BY <1>1, <1>2, <1>7, <2>1, RecordAssumption DEF RecordAssumption
  <2>3. job'[t].at \in Writing /\ job'[t].space # 0 =>
          /\ job'[t].space <= pointed'
          /\ \A o \in job'[t].seenS : held'[o].sibling.space <= job'[t].space
    BY <1>3, <1>7, <2>1 DEF Writing
  <2>4. t \in Kept =>
          /\ \A o \in job'[t].seenS :
               held'[o].sibling.space = held'[job'[t].base].sibling.space
          /\ job'[t].at \in Writing /\ job'[t].space # 0 =>
               job'[t].space = held'[job'[t].base].sibling.space
    BY <1>4, <1>7, <2>1 DEF Writing
  <2>h. job'[t].at \in Writing /\ job'[t].heals => job'[t].space = 0
    BY <1>h, <1>7, <2>1 DEF Writing
  <2>5. job'[t].at = "put" =>
          job'[t].etag >= 1 /\ held'[job'[t].etag].seed = held'[job'[t].base].seed
    BY <1>1, <1>7, <2>1
  <2> QED
    BY <1>7, <2>1, <2>2, <2>3, <2>4, <2>h, <2>5 DEF JobOK
<1>8. ASSUME NEW v \in 1..Len(held'),
             job[t].at \in {"read", "put"},
             Until(v)' = now',
             job[t].space # 0 =>
               held'[held'[v].sibling.of].sibling.space = job[t].space,
             job'[t] = [job[t] EXCEPT !.at = "written", !.ver = v]
      PROVE  JobOK(t)'
  <2>1. /\ job'[t].at = "written" /\ job'[t].base = job[t].base
        /\ job'[t].seenB = job[t].seenB /\ job'[t].seenS = job[t].seenS
        /\ job'[t].heals = job[t].heals /\ job'[t].renews = job[t].renews
        /\ job'[t].space = job[t].space /\ job'[t].ver = v
        /\ job'[t].etag = job[t].etag /\ job'[t].tries = job[t].tries
    BY <1>1, <1>8 DEF Job
  <2>2. /\ job'[t].base \in 0..Len(held') /\ job'[t].ver \in 0..Len(held')
        /\ job'[t].etag \in 0..Len(held') /\ job'[t].tries \in 0..(Attempts - 1)
        /\ job'[t].seenB \subseteq 1..Len(held') /\ job'[t].seenS \subseteq 1..Len(held')
        /\ job'[t].space \in 0..MaxSpaces /\ job'[t].base >= 1
    BY <1>1, <1>2, <1>8, <2>1, RecordAssumption DEF RecordAssumption
  <2>3. job'[t].at \in Writing /\ job'[t].space # 0 =>
          /\ job'[t].space <= pointed'
          /\ \A o \in job'[t].seenS : held'[o].sibling.space <= job'[t].space
    BY <1>3, <1>8, <2>1 DEF Writing
  <2>4. t \in Kept =>
          /\ \A o \in job'[t].seenS :
               held'[o].sibling.space = held'[job'[t].base].sibling.space
          /\ job'[t].at \in Writing /\ job'[t].space # 0 =>
               job'[t].space = held'[job'[t].base].sibling.space
    BY <1>4, <1>8, <2>1 DEF Writing
  <2>h. job'[t].at \in Writing /\ job'[t].heals => job'[t].space = 0
    BY <1>h, <1>8, <2>1 DEF Writing
  <2>5. job'[t].at = "put" =>
          job'[t].etag >= 1 /\ held'[job'[t].etag].seed = held'[job'[t].base].seed
    BY <1>1, <1>8, <2>1
  <2>6. job'[t].ver >= 1 /\ Until(job[t].ver)' = now'
    <3>1. \A u : u = job'[t].ver => Until(u)' = Until(job[t].ver)'
      BY DEF Until
    <3> QED
      BY <1>1, <1>8, <2>1, <3>1
  <2> QED
    BY <1>8, <2>1, <2>2, <2>3, <2>4, <2>h, <2>5, <2>6 DEF JobOK
<1>9. ASSUME job[t].at = "put",
             job[t].tries + 1 \in 0..(Attempts - 1),
             job'[t] = [job[t] EXCEPT !.at = "read", !.tries = @ + 1]
      PROVE  JobOK(t)'
  <2>1. /\ job'[t].at = "read" /\ job'[t].base = job[t].base
        /\ job'[t].seenB = job[t].seenB /\ job'[t].seenS = job[t].seenS
        /\ job'[t].heals = job[t].heals /\ job'[t].renews = job[t].renews
        /\ job'[t].space = job[t].space /\ job'[t].ver = job[t].ver
        /\ job'[t].etag = job[t].etag /\ job'[t].tries = job[t].tries + 1
    BY <1>1, <1>9 DEF Job
  <2>2. /\ job'[t].base \in 0..Len(held') /\ job'[t].ver \in 0..Len(held')
        /\ job'[t].etag \in 0..Len(held') /\ job'[t].tries \in 0..(Attempts - 1)
        /\ job'[t].seenB \subseteq 1..Len(held') /\ job'[t].seenS \subseteq 1..Len(held')
        /\ job'[t].space \in 0..MaxSpaces /\ job'[t].base >= 1
    BY <1>1, <1>2, <1>9, <2>1, RecordAssumption DEF RecordAssumption
  <2>3. job'[t].at \in Writing /\ job'[t].space # 0 =>
          /\ job'[t].space <= pointed'
          /\ \A o \in job'[t].seenS : held'[o].sibling.space <= job'[t].space
    BY <1>3, <1>9, <2>1 DEF Writing
  <2>4. t \in Kept =>
          /\ \A o \in job'[t].seenS :
               held'[o].sibling.space = held'[job'[t].base].sibling.space
          /\ job'[t].at \in Writing /\ job'[t].space # 0 =>
               job'[t].space = held'[job'[t].base].sibling.space
    BY <1>4, <1>9, <2>1 DEF Writing
  <2>h. job'[t].at \in Writing /\ job'[t].heals => job'[t].space = 0
    BY <1>h, <1>9, <2>1 DEF Writing
  <2>5. job'[t].at = "put" =>
          job'[t].etag >= 1 /\ held'[job'[t].etag].seed = held'[job'[t].base].seed
    BY <1>1, <1>9, <2>1
  <2> QED
    BY <1>9, <2>1, <2>2, <2>3, <2>4, <2>h, <2>5 DEF JobOK
<1>10. ASSUME NEW B \in SUBSET (1..Len(held')),
             NEW S \in SUBSET (1..Len(held')),
             t \in Kept => \A o \in S :
               held'[o].sibling.space = held'[job[t].base].sibling.space,
             job'[t] = [job[t] EXCEPT !.at = "in", !.seenB = @ \cup B, !.seenS = @ \cup S]
      PROVE  JobOK(t)'
  <2>1. /\ job'[t].at = "in" /\ job'[t].base = job[t].base
        /\ job'[t].seenB = job[t].seenB \cup B /\ job'[t].seenS = job[t].seenS \cup S
        /\ job'[t].heals = job[t].heals /\ job'[t].renews = job[t].renews
        /\ job'[t].space = job[t].space /\ job'[t].ver = job[t].ver
        /\ job'[t].etag = job[t].etag /\ job'[t].tries = job[t].tries
    BY <1>1, <1>10 DEF Job
  <2>2. /\ job'[t].base \in 0..Len(held') /\ job'[t].ver \in 0..Len(held')
        /\ job'[t].etag \in 0..Len(held') /\ job'[t].tries \in 0..(Attempts - 1)
        /\ job'[t].seenB \subseteq 1..Len(held') /\ job'[t].seenS \subseteq 1..Len(held')
        /\ job'[t].space \in 0..MaxSpaces /\ job'[t].base >= 1
    BY <1>1, <1>2, <1>10, <2>1, RecordAssumption DEF RecordAssumption
  <2>3. job'[t].at \in Writing /\ job'[t].space # 0 =>
          /\ job'[t].space <= pointed'
          /\ \A o \in job'[t].seenS : held'[o].sibling.space <= job'[t].space
    BY <1>3, <1>10, <2>1 DEF Writing
  <2>4. t \in Kept =>
          /\ \A o \in job'[t].seenS :
               held'[o].sibling.space = held'[job'[t].base].sibling.space
          /\ job'[t].at \in Writing /\ job'[t].space # 0 =>
               job'[t].space = held'[job'[t].base].sibling.space
    BY <1>4, <1>10, <2>1 DEF Writing
  <2>h. job'[t].at \in Writing /\ job'[t].heals => job'[t].space = 0
    BY <1>h, <1>10, <2>1 DEF Writing
  <2>5. job'[t].at = "put" =>
          job'[t].etag >= 1 /\ held'[job'[t].etag].seed = held'[job'[t].base].seed
    BY <1>1, <1>10, <2>1
  <2> QED
    BY <1>10, <2>1, <2>2, <2>3, <2>4, <2>h, <2>5 DEF JobOK
<1>20. /\ \A r : job' = [job EXCEPT ![t] = r] => job'[t] = r
       /\ \A p : Goes(t, p) => job'[t] = [job[t] EXCEPT !.at = p]
  BY DEF Inv, Goes
<1>21. /\ JobOK(t) /\ (held' = held => Len(held') = Len(held) /\ Served' = Served)
       /\ Len(held) \in 1..Len(held') /\ retired \in Nat
       /\ \A v \in 1..Len(held) :
            held[v].sibling.space \in 1..pointed /\ held[v].sibling.of \in 1..Len(held)
       /\ pointed \in Nat /\ pointed \in 1..MaxSpaces /\ pointed' \in 1..MaxSpaces
       /\ pointed <= pointed' /\ pointed' \in Nat
  BY DEF Inv, Stored, VerOK, Later, RecordAssumption, Served
<1>22. ASSUME Failed(t) PROVE JobOK(t)'
  <2>1. \/ job'[t] = Idle
        \/ job'[t] = [job[t] EXCEPT !.at = "in"]
    BY <1>22 DEF Failed, Idle, Inv
  <2> QED
    BY <1>5, <2>1, IdleOK
<1>23. CASE SaveCache(t)
  BY <1>5, <1>20, <1>23 DEF SaveCache, At
<1>24. CASE Unpromoted(t)
  <2>1. job'[t] = Idle
    BY <1>20, <1>24 DEF Unpromoted, Idle
  <2> QED
    BY <2>1, IdleOK
<1>25. CASE Heal(t)
  <2>1. job'[t] = [job[t] EXCEPT !.at = "read", !.heals = TRUE, !.renews = FALSE,
                                 !.space = 0, !.tries = 0]
    BY <1>25 DEF Heal, Offers, Inv
  <2> QED
    <3>1. 0 \in 0..MaxSpaces
      BY DEF RecordAssumption
    <3> QED
      BY <1>6, <2>1, <3>1, Zenon
<1>26. CASE Refresh(t)
  <2> DEFINE s == held[job[t].base].sibling.space
  <2>1. job'[t] = [job[t] EXCEPT !.at = "read", !.heals = FALSE, !.renews = TRUE,
                                 !.space = s, !.tries = 0]
    BY <1>26 DEF Refresh, Offers, Inv
  <2>2. t \in Kept /\ held' = held /\ pointed' = pointed
    BY <1>26 DEF Refresh, At
  <2>3. job[t].base \in 1..Len(held)
    BY <1>2, <1>21, <2>2
  <2>4. s \in 1..pointed /\ s \in 0..MaxSpaces
    BY <1>21, <2>3
  <2> HIDE DEF s
  <2>5. s = held'[job[t].base].sibling.space
    BY <2>2 DEF s
  <2>6. \A o \in job[t].seenS : held'[o].sibling.space <= s
    BY <1>4, <2>2, <2>4, <2>5
  <2>7. s <= pointed'
    BY <1>21, <2>2, <2>4
  <2> QED
    BY <1>6, <2>1, <2>4, <2>5, <2>6, <2>7, Zenon
<1>27. CASE Ensure(t)
  <2>1. t \notin Kept /\ held' = held
    BY <1>21, <1>27 DEF Ensure, At, JobOK
  <2>2. CASE Goes(t, "in")
    BY <1>5, <1>20, <2>2
  <2>3. ASSUME NEW n \in BOOLEAN, NEW s \in {0, pointed, pointed + 1}, s = 0 \/ s <= pointed',
               Offers(t, FALSE, n, s)
        PROVE  JobOK(t)'
    <3>1. job'[t] = [job[t] EXCEPT !.at = "read", !.heals = FALSE, !.renews = n,
                                   !.space = s, !.tries = 0]
      BY <2>3 DEF Offers, Inv
    <3>2. s \in 0..MaxSpaces
      BY <1>21, <2>3
    <3>3. s # 0 => \A o \in job[t].seenS : held'[o].sibling.space <= s
      BY <1>2, <1>21, <2>1, <2>3
    <3> QED
      BY <1>6, <2>1, <2>3, <3>1, <3>2, <3>3
  <2> QED
    <3>1. /\ 0 \in {0, pointed, pointed + 1} /\ pointed \in {0, pointed, pointed + 1}
          /\ pointed + 1 \in {0, pointed, pointed + 1}
      OBVIOUS
    <3>2. CASE \/ Offers(t, FALSE, FALSE, pointed) \/ Offers(t, FALSE, TRUE, pointed)
               \/ Offers(t, FALSE, TRUE, 0)
      BY <1>21, <2>3, <3>1, <3>2
    <3>3. CASE pointed' = pointed + 1 /\ Offers(t, FALSE, FALSE, pointed + 1)
      <4>1. pointed + 1 <= pointed'
        BY <1>21, <3>3
      <4> QED
        BY <2>3, <3>1, <3>3, <4>1
    <3> QED
      BY <1>27, <2>2, <3>2, <3>3 DEF Ensure
<1>28. CASE Read(t)
  <2>1. held' = held /\ retired' = retired /\ now' = now /\ job[t].at = "read"
    BY <1>28 DEF Read, At
  <2>2. CASE Failed(t)
    BY <1>22, <2>2
  <2>3. CASE retired = 0 /\ Landed(t)
             /\ job' = [job EXCEPT ![t].at = "written", ![t].ver = Len(held)]
    <3>1. Until(Len(held))' = now'
      BY <2>1, <2>3 DEF Until
    <3>2. job'[t] = [job[t] EXCEPT !.at = "written", !.ver = Len(held)]
      BY <2>3 DEF Inv
    <3>3. job[t].space = 0
      BY <1>21, <2>1, <2>3 DEF JobOK, Landed, Writing
    <3>4. PICK v \in 1..Len(held') : v = Len(held)
      BY <1>21
    <3>5. Until(v)' = now'
      BY <2>1, <2>3, <3>4 DEF Until
    <3> QED
      BY <1>8, <2>1, <3>2, <3>3, <3>4, <3>5
  <2>4. CASE SameAuthority(t) /\ job' = [job EXCEPT ![t].at = "put", ![t].etag = Len(held)]
    <3>1. job'[t] = [job[t] EXCEPT !.at = "put", !.etag = Len(held)]
      BY <2>4 DEF Inv
    <3>2. held'[Len(held)].seed = held'[job[t].base].seed
      BY <2>1, <2>4 DEF SameAuthority, Served
    <3> QED
      BY <1>7, <1>21, <2>1, <3>1, <3>2
  <2> QED
    BY <1>28, <2>2, <2>3, <2>4 DEF Read, At
<1>29. CASE Put(t)
  <2>1. job[t].at = "put"
    BY <1>29 DEF Put, At
  <2>2. CASE Failed(t)
    BY <1>22, <2>2
  <2>3. CASE /\ held' = Append(held, Rewritten(t)) /\ retired' = 0
             /\ job' = [job EXCEPT ![t].at = "written", ![t].ver = Len(held) + 1]
    <3>1. job'[t] = [job[t] EXCEPT !.at = "written", !.ver = Len(held) + 1]
      BY <2>3 DEF Inv
    <3>2. Len(held') = Len(held) + 1 /\ held'[Len(held) + 1] = Rewritten(t)
          /\ Len(held) \in Nat
      BY <2>3 DEF Inv, Stored
    <3>3. PICK v \in 1..Len(held') : v = Len(held) + 1
      BY <3>2
    <3>4. Until(v)' = now'
      BY <2>3, <3>2, <3>3 DEF Until
    <3>5. job[t].space # 0 =>
            Rewritten(t).sibling.of = Len(held) + 1 /\ Rewritten(t).sibling.space = job[t].space
      BY DEF Rewritten
    <3>6. job[t].space # 0 => held'[held'[v].sibling.of].sibling.space = job[t].space
      BY <3>2, <3>3, <3>5
    <3> QED
      BY <1>8, <2>1, <3>1, <3>3, <3>4, <3>6
  <2>4. CASE Again(t) /\ job' = [job EXCEPT ![t].at = "read", ![t].tries = @ + 1]
    <3>1. job'[t] = [job[t] EXCEPT !.at = "read", !.tries = @ + 1]
      BY <2>4 DEF Inv
    <3>2. job[t].tries + 1 \in 0..(Attempts - 1)
      BY <1>2, <2>4, RecordAssumption DEF Again, RecordAssumption
    <3> QED
      BY <1>9, <2>1, <3>1, <3>2
  <2> QED
    BY <1>29, <2>2, <2>3, <2>4 DEF Put, At
<1>30. CASE Written(t)
  <2> DEFINE B == IF job[t].renews THEN {held[job[t].ver].bridge.of} ELSE {}
             S == IF job[t].space # 0 THEN {held[job[t].ver].sibling.of} ELSE {}
  <2>1. held' = held /\ job[t].at = "written"
    BY <1>30 DEF Written, At
  <2>2. job'[t] = [job[t] EXCEPT !.at = "in", !.seenB = @ \cup B, !.seenS = @ \cup S]
    BY <1>30 DEF Written, Inv
  <2>3. job[t].ver \in 1..Len(held)
    BY <1>21, <2>1 DEF JobOK
  <2>4. /\ held[job[t].ver].bridge.of \in 1..Len(held)
        /\ held[job[t].ver].sibling.of \in 1..Len(held)
    <3>1. VerOK(job[t].ver) /\ Len(held) \in Nat
      BY <2>3 DEF Inv, Stored
    <3> QED
      BY <2>3, <3>1 DEF VerOK
  <2>5. B \in SUBSET (1..Len(held')) /\ S \in SUBSET (1..Len(held'))
    BY <2>1, <2>4
  <2>6. t \in Kept => \A o \in S :
          held'[o].sibling.space = held'[job[t].base].sibling.space
    BY <1>4, <1>21, <2>1 DEF JobOK, Writing
  <2> HIDE DEF B, S
  <2> QED
    BY <1>10, <2>2, <2>5, <2>6
<1>31. CASE Miss(t)
  BY <1>31 DEF Miss, At
<1> QED
  BY <1>23, <1>24, <1>25, <1>26, <1>27, <1>28, <1>29, <1>30, <1>31 DEF Step

\* The rewrite of a tab stays one, whatever its step.
LEMMA JobTyped ==
  ASSUME RecordAssumption, Inv, NEW t \in Tabs,
         \/ Step(t) \/ Heal(t) \/ Refresh(t) \/ Fetch(t) \/ FetchOffline(t) \/ Leave(t)
  PROVE  \E r \in Job : job' = [job EXCEPT ![t] = r]
<1> DEFINE Typed == \E r \in Job : job' = [job EXCEPT ![t] = r]
<1>1. /\ job \in [Tabs -> Job] /\ job[t] \in Job /\ Idle \in Job
      /\ Len(held) \in Nat /\ pointed \in Nat /\ cache.ver \in 0..Len(held)
      /\ \A v \in 1..Len(held) : /\ held[v].bridge.of \in Nat /\ held[v].sibling.of \in Nat
                                 /\ held[v].sibling.space \in Nat
  BY DEF Inv, Stored, VerOK, Idle, Job, RecordAssumption
<1>2. JobOK(t)
  BY DEF Inv
<1>3. ASSUME Failed(t) PROVE Typed
  <2>1. [job[t] EXCEPT !.at = "in"] \in Job
    BY <1>1 DEF Job
  <2> QED
    BY <1>1, <1>3, <2>1 DEF Failed
<1>4. ASSUME NEW h \in BOOLEAN, NEW n \in BOOLEAN, NEW s \in Nat, Offers(t, h, n, s)
      PROVE  Typed
  <2> DEFINE r == [job[t] EXCEPT !.at = "read", !.heals = h, !.renews = n, !.space = s,
                                 !.tries = 0]
  <2>1. r \in Job
    BY <1>1 DEF Job
  <2>2. job' = [job EXCEPT ![t] = r]
    BY <1>1, <1>4 DEF Offers
  <2> QED
    BY <2>1, <2>2
<1>5. CASE Fetch(t)
  <2>1. Len(held) \in 1..Len(held)
    BY DEF Inv, Stored
  <2>2. \A p \in {"fetched", "ensure"} : Opened(Len(held), p) \in Job
    BY <1>1, <2>1 DEF Opened, Job
  <2>3. \A p \in {"missed", "idle"} : [Idle EXCEPT !.at = p] \in Job
    BY <1>1 DEF Job
  <2> QED
    BY <1>5, <2>2, <2>3 DEF Fetch
<1>6. CASE FetchOffline(t)
  <2>1. cache.ver \in 1..Len(held)
    BY <1>1, <1>6 DEF FetchOffline, Usable, Inv, Stored
  <2>2. Opened(cache.ver, "offline") \in Job
    <3>1. PICK v \in 1..Len(held) : v = cache.ver
      BY <2>1
    <3>2. /\ v \in Nat /\ {held[v].bridge.of} \in SUBSET Nat
          /\ {held[v].sibling.of} \in SUBSET Nat
      BY <1>1, <3>1
    <3>3. Opened(v, "offline") \in Job
      BY <1>1, <3>2 DEF Opened, Job
    <3> QED
      BY <3>1, <3>3
  <2> QED
    BY <1>6, <2>2 DEF FetchOffline
<1>7. CASE Miss(t) \/ Unpromoted(t) \/ Leave(t)
  BY <1>1, <1>7 DEF Miss, Unpromoted, Leave
<1>8. ASSUME NEW p \in {"in", "read", "put", "written"}, Goes(t, p) PROVE Typed
  BY <1>1, <1>8 DEF Goes, Job
<1>9. CASE SaveCache(t)
  BY <1>8, <1>9 DEF SaveCache
<1>10. CASE Heal(t)
  BY <1>4, <1>10 DEF Heal
<1>11. CASE Refresh(t)
  <2>1. job[t].base \in 1..Len(held)
    BY <1>1, <1>2, <1>11 DEF Refresh, At, JobOK
  <2> QED
    BY <1>1, <1>4, <1>11, <2>1 DEF Refresh
<1>12. CASE Ensure(t)
  <2>1. pointed + 1 \in Nat /\ 0 \in Nat
    BY <1>1
  <2>2. CASE Goes(t, "in")
    BY <1>8, <2>2
  <2>3. CASE \/ Offers(t, FALSE, FALSE, pointed) \/ Offers(t, FALSE, TRUE, pointed)
             \/ Offers(t, FALSE, TRUE, 0) \/ Offers(t, FALSE, FALSE, pointed + 1)
    BY <1>1, <1>4, <2>1, <2>3
  <2> QED
    BY <1>12, <2>2, <2>3 DEF Ensure
<1>13. CASE Read(t)
  <2>1. ASSUME job' = [job EXCEPT ![t].at = "written", ![t].ver = Len(held)] PROVE Typed
    <3>1. [job[t] EXCEPT !.at = "written", !.ver = Len(held)] \in Job
      BY <1>1 DEF Job
    <3> QED
      BY <1>1, <2>1, <3>1
  <2>2. ASSUME job' = [job EXCEPT ![t].at = "put", ![t].etag = Len(held)] PROVE Typed
    <3>1. [job[t] EXCEPT !.at = "put", !.etag = Len(held)] \in Job
      BY <1>1 DEF Job
    <3> QED
      BY <1>1, <2>2, <3>1
  <2> QED
    BY <1>3, <1>13, <2>1, <2>2 DEF Read
<1>14. CASE Put(t)
  <2>1. ASSUME job' = [job EXCEPT ![t].at = "written", ![t].ver = Len(held) + 1]
        PROVE  Typed
    <3>1. Len(held) + 1 \in Nat
      BY <1>1
    <3>2. [job[t] EXCEPT !.at = "written", !.ver = Len(held) + 1] \in Job
      BY <1>1, <3>1 DEF Job
    <3> QED
      BY <1>1, <2>1, <3>2
  <2>2. ASSUME job' = [job EXCEPT ![t].at = "read", ![t].tries = @ + 1] PROVE Typed
    <3>0. job[t].tries + 1 \in Nat
      BY <1>1 DEF Job
    <3>1. [job[t] EXCEPT !.at = "read", !.tries = @ + 1] \in Job
      BY <1>1, <3>0 DEF Job
    <3> QED
      BY <1>1, <2>2, <3>1
  <2> QED
    BY <1>3, <1>14, <2>1, <2>2 DEF Put
<1>15. CASE Written(t)
  <2> DEFINE r == [job[t] EXCEPT !.at = "in",
                !.seenB = IF job[t].renews THEN @ \cup {held[job[t].ver].bridge.of} ELSE @,
                !.seenS = IF job[t].space # 0 THEN @ \cup {held[job[t].ver].sibling.of}
                          ELSE @]
  <2>1. job[t].ver \in 1..Len(held)
    BY <1>1, <1>2, <1>15 DEF Written, At, JobOK
  <2>2. r \in Job
    BY <1>1, <2>1 DEF Job
  <2>3. job' = [job EXCEPT ![t] = r]
    BY <1>1, <1>15 DEF Written
  <2> QED
    BY <2>2, <2>3
<1> QED
  BY <1>5, <1>6, <1>7, <1>9, <1>10, <1>11, <1>12, <1>13, <1>14, <1>15 DEF Step

\* What stands under a tab's step: it is read, cached, or added to.
LEMMA RewrittenOK ==
  ASSUME RecordAssumption, Inv, NEW t \in Tabs, Put(t), Matches(t)
  PROVE  /\ Rewritten(t) \in Version /\ job[t].etag = Len(held)
         /\ Rewritten(t).since = now /\ Rewritten(t).seed \in 1..(Len(held) + 1)
         /\ Rewritten(t).bridge.of \in 1..(Len(held) + 1)
         /\ Rewritten(t).sibling.space \in 1..pointed
         /\ \/ Rewritten(t).sibling.of = Len(held) + 1
            \/ /\ Rewritten(t).sibling.of \in 1..Len(held)
               /\ held[Rewritten(t).sibling.of].sibling.space
                    = Rewritten(t).sibling.space
         /\ Rewritten(t).bridge.seed = Rewritten(t).seed
         /\ Rewritten(t).sibling.seed = Rewritten(t).seed
<1> DEFINE e == job[t].etag
           r == Rewritten(t)
           next == Len(held) + 1
<1>1. /\ e = Len(held) /\ e \in 1..Len(held) /\ job[t].at = "put" /\ next \in Nat
      /\ e \in 1..next /\ next \in 1..next /\ 1..e \subseteq 1..next
      /\ Len(held) \in Nat
  BY DEF Put, At, Matches, Inv, Stored
<1>2. /\ held[e] \in Version /\ VerOK(e) /\ now \in Nat /\ job[t] \in Job /\ JobOK(t)
  BY <1>1 DEF Inv, Stored, RecordAssumption
<1>3. held[job[t].base].seed = held[e].seed /\ held[e].seed \in Nat
  BY <1>1, <1>2 DEF JobOK, Version
<1>4. /\ r.did = (held[e].did \/ job[t].heals) /\ r.seed = held[e].seed /\ r.since = now
      /\ r.bridge = IF job[t].renews THEN [of |-> next, seed |-> held[e].seed]
                    ELSE held[e].bridge
      /\ r.sibling = IF job[t].space # 0
                     THEN [of |-> next, seed |-> held[e].seed, space |-> job[t].space]
                     ELSE held[e].sibling
      /\ r = [did |-> r.did, seed |-> r.seed, since |-> r.since, bridge |-> r.bridge,
              sibling |-> r.sibling]
  BY <1>3 DEF Rewritten, Carried
<1> HIDE DEF r, e, next
<1>5. r.did \in BOOLEAN
  BY <1>4
<1>6. r.bridge \in Delegation
  BY <1>1, <1>2, <1>3, <1>4 DEF Version, Delegation
<1>7. r.sibling \in [of : Nat, seed : Nat, space : Nat]
  BY <1>1, <1>2, <1>3, <1>4 DEF Version, Job
<1>8. r \in Version
  BY <1>2, <1>3, <1>4, <1>5, <1>6, <1>7 DEF Version
<1>9. r.seed \in 1..next /\ r.bridge.seed = r.seed /\ r.sibling.seed = r.seed
  BY <1>1, <1>2, <1>4 DEF VerOK, next
<1>10. r.bridge.of \in 1..next
  BY <1>1, <1>2, <1>4 DEF VerOK
<1>11. /\ r.sibling.space \in 1..pointed
       /\ \/ r.sibling.of = next
          \/ /\ r.sibling.of \in 1..Len(held)
             /\ held[r.sibling.of].sibling.space = r.sibling.space
  <2>1. CASE job[t].space # 0
    <3>1. job[t].space \in 1..pointed
      BY <1>1, <1>2, <2>1 DEF JobOK, Writing, Job, Inv, Stored, RecordAssumption
    <3> QED
      BY <1>4, <2>1, <3>1
  <2>2. CASE job[t].space = 0
    BY <1>1, <1>2, <1>4, <2>2 DEF VerOK
  <2> QED
    BY <2>1, <2>2
<1> QED
  BY <1>1, <1>4, <1>8, <1>9, <1>10, <1>11 DEF r, e, next

LEMMA Spent ==
  ASSUME RecordAssumption, Inv,
         failures' = failures \/ (failures < MaxFailures /\ failures' = failures + 1)
  PROVE  failures' \in 0..MaxFailures
  BY DEF Inv, Stored, RecordAssumption

LEMMA StepStands ==
  ASSUME RecordAssumption, Inv, NEW t \in Tabs,
         \/ Step(t) \/ Heal(t) \/ Refresh(t) \/ Fetch(t) \/ FetchOffline(t) \/ Leave(t)
  PROVE  Stored' /\ Later
<1> USE DEF counts
<1>1. /\ JobOK(t) /\ told \in BOOLEAN /\ acts \in 0..MaxActs /\ renewals \in 0..MaxRenewals
      /\ failures \in 0..MaxFailures /\ pointed \in pointed..MaxSpaces
      /\ Len(held) \in Nat
  BY DEF Inv, Stored, RecordAssumption
<1>2. Renewed => renewals' \in 0..MaxRenewals
  BY DEF Renewed, Inv, Stored, RecordAssumption
<1>3. CASE \/ Heal(t) \/ Fetch(t) \/ Leave(t) \/ Unpromoted(t)
  BY <1>1, <1>3, Unwritten DEF Heal, Fetch, Leave, Unpromoted
<1>4. CASE Refresh(t)
  BY <1>1, <1>2, <1>4, Unwritten DEF Refresh
<1>5. CASE FetchOffline(t)
  BY <1>1, <1>5, Unwritten, Spent DEF FetchOffline, Counted
<1>6. CASE Miss(t)
  BY <1>1, <1>6, Unwritten DEF Miss, Missed
<1>7. CASE SaveCache(t)
  <2>1. job[t].base \in 1..Len(held) /\ Until(job[t].base) = now
    BY <1>1, <1>7 DEF SaveCache, At, JobOK
  <2> QED
    BY <1>1, <1>7, <2>1, Unwritten DEF SaveCache
<1>8. CASE Ensure(t)
  <2>1. pointed' \in pointed..MaxSpaces
    <3>1. pointed' = pointed \/ (pointed < MaxSpaces /\ pointed' = pointed + 1)
      BY <1>8 DEF Ensure
    <3>2. pointed \in Nat /\ MaxSpaces \in Nat /\ pointed <= MaxSpaces
      BY DEF Inv, Stored, RecordAssumption
    <3> QED
      BY <3>1, <3>2
  <2>2. renewals' \in 0..MaxRenewals
    BY <1>1, <1>2, <1>8 DEF Ensure
  <2> QED
    BY <1>1, <1>8, <2>1, <2>2, Unwritten DEF Ensure
<1>9. CASE Read(t)
  BY <1>1, <1>9, Unwritten, Spent DEF Read, Counted, Fine
<1>10. CASE Put(t)
  <2>1. failures' \in 0..MaxFailures
    BY <1>10, Spent DEF Put, Counted, Fine
  <2>2. UNCHANGED <<pointed, cache, told, now, acts, renewals>>
    BY <1>10 DEF Put
  <2>3. CASE UNCHANGED <<held, retired>>
    BY <1>1, <2>1, <2>2, <2>3, Unwritten
  <2>4. CASE Matches(t) /\ held' = Append(held, Rewritten(t)) /\ retired' = 0
    <3>1. retired = 0
      BY <2>4 DEF Matches
    <3> QED
      BY <1>1, <1>10, <2>1, <2>2, <2>4, <3>1, RewrittenOK, Grows
  <2> QED
    BY <1>10, <2>3, <2>4 DEF Put
<1>11. CASE Written(t)
  <2>1. job[t].ver \in 1..Len(held) /\ Until(job[t].ver) = now
    BY <1>1, <1>11 DEF Written, At, JobOK
  <2> QED
    BY <1>1, <1>11, <2>1, Unwritten DEF Written
<1> QED
  BY <1>3, <1>4, <1>5, <1>6, <1>7, <1>8, <1>9, <1>10, <1>11 DEF Step

\* A step of another device, or of time.
LEMMA OthersKeep ==
  ASSUME RecordAssumption, Inv, Others
  PROVE  Inv'
<1>1. /\ Len(held) \in Nat /\ Len(held) \in 1..Len(held) /\ acts \in 0..MaxActs
      /\ renewals \in 0..MaxRenewals /\ failures \in 0..MaxFailures
      /\ MaxActs \in Nat /\ now \in 1..MaxNow /\ pointed \in pointed..MaxSpaces
      /\ told \in BOOLEAN
  BY DEF Inv, Stored, RecordAssumption
<1>2. VerOK(Len(held)) /\ Served \in Version /\ Served = held[Len(held)]
  BY <1>1 DEF Inv, Stored, Served
<1>3. ASSUME NEW act \in OtherActs, Acts(act) PROVE retired = 0 /\ acts' \in 0..MaxActs
  BY <1>1, <1>3 DEF Acts
<1>4. ASSUME NEW seed \in 1..(Len(held) + 1), Replaces(seed), retired = 0,
             acts' \in 0..MaxActs,
             UNCHANGED <<retired, pointed, cache, told, job, now, renewals, failures>>
      PROVE  Inv'
  <2> DEFINE next == Len(held) + 1
  <2> DEFINE new == [Served EXCEPT !.seed = seed, !.since = now,
                       !.bridge = [of |-> next, seed |-> seed],
                       !.sibling = [@ EXCEPT !.of = next, !.seed = seed]]
  <2>1. held' = Append(held, new)
    BY <1>4 DEF Replaces
  <2>2. /\ new.since = now /\ new.seed = seed /\ new.bridge = [of |-> next, seed |-> seed]
        /\ new.sibling = [Served.sibling EXCEPT !.of = next, !.seed = seed]
        /\ new.did = Served.did
    BY <1>2 DEF Version
  <2>3. /\ new.sibling.of = next /\ new.sibling.seed = seed
        /\ new.sibling.space = Served.sibling.space
    BY <1>2, <2>2 DEF Version
  <2>4. new \in Version
    <3>1. /\ next \in Nat /\ seed \in Nat /\ now \in Nat
      BY <1>1
    <3>2. [of |-> next, seed |-> seed] \in Delegation
      BY <3>1 DEF Delegation
    <3>3. [Served.sibling EXCEPT !.of = next, !.seed = seed]
            \in [of : Nat, seed : Nat, space : Nat]
      BY <1>2, <3>1 DEF Version
    <3> QED
      BY <1>2, <3>1, <3>2, <3>3 DEF Version
  <2>5. new.sibling.space \in 1..pointed /\ new.bridge.of \in 1..next
    <3>1. new.bridge.of = next /\ next \in 1..next
      BY <1>1, <2>2
    <3>2. Served.sibling.space \in 1..pointed
      BY <1>2 DEF VerOK
    <3> QED
      BY <2>3, <3>1, <3>2
  <2>6. Stored' /\ Later
    <3>1. /\ new.since = now /\ new.seed \in 1..(Len(held) + 1)
          /\ new.bridge.of \in 1..(Len(held) + 1) /\ new.sibling.of = Len(held) + 1
          /\ new.bridge.seed = new.seed /\ new.sibling.seed = new.seed
      BY <1>4, <2>2, <2>3, <2>5
    <3>2. /\ renewals' \in 0..MaxRenewals /\ failures' \in 0..MaxFailures
          /\ UNCHANGED <<retired, now, pointed, cache, told>>
      BY <1>1, <1>4
    <3> HIDE DEF new
    <3> QED
      BY <1>4, <2>1, <2>4, <2>5, <3>1, <3>2, Grows
  <2> QED
    BY <1>4, <2>6, NoTab
<1>5. CASE OtherRemints
  <2>1. Served.seed \in 1..(Len(held) + 1)
    BY <1>1, <1>2 DEF VerOK
  <2> QED
    BY <1>3, <1>4, <1>5, <2>1 DEF OtherRemints, Acts
<1>6. CASE OtherReseeds
  <2>1. Len(held) + 1 \in 1..(Len(held) + 1)
    BY <1>1
  <2> QED
    BY <1>3, <1>4, <1>6, <2>1 DEF OtherReseeds, Acts
<1>7. CASE OtherRetires
  <2>1. /\ retired = 0 /\ retired' = now /\ acts' \in 0..MaxActs
        /\ UNCHANGED <<held, pointed, cache, told, job, now, renewals, failures>>
    BY <1>3, <1>7 DEF OtherRetires, Acts
  <2>2. \A v : Until(v)' = Until(v)
    BY <2>1 DEF Until
  <2>3. Until(cache.ver)' = Until(cache.ver)
    BY <2>1, <2>2 DEF Until
  <2>4. \A v \in 1..Len(held) : VerOK(v)'
    BY <2>1 DEF Inv, Stored, VerOK
  <2>5. now \in 0..now
    BY <1>1
  <2>6. Stored'
    BY <2>1, <2>3, <2>4, <2>5 DEF Inv, Stored
  <2>7. Later
    BY <1>1, <2>1, <2>2, Untils DEF Inv, Stored, Later
  <2> QED
    BY <2>1, <2>6, <2>7, NoTab
<1> QED
  BY <1>5, <1>6, <1>7 DEF Others

LEMMA TickKeeps ==
  ASSUME RecordAssumption, Inv, Tick
  PROVE  Inv'
<1>1. /\ now' = now + 1 /\ now < MaxNow /\ now \in 1..MaxNow /\ MaxNow \in Nat
      /\ Len(held) \in Nat /\ pointed \in Nat /\ retired \in 0..now
      /\ UNCHANGED <<held, retired, pointed, cache, told, job, acts, renewals, failures>>
      /\ \A t \in Tabs : job[t].at \in Quiet
  <2>1. /\ now' = now + 1 /\ now < MaxNow
        /\ UNCHANGED <<held, retired, pointed, cache, told, job, acts, renewals, failures>>
        /\ \A t \in Tabs : job[t].at \in Quiet
    BY DEF Tick, counts, Quiet
  <2>2. /\ now \in 1..MaxNow /\ MaxNow \in Nat /\ Len(held) \in Nat /\ pointed \in Nat
        /\ retired \in 0..now
    BY DEF Inv, Stored, RecordAssumption
  <2> QED
    BY <2>1, <2>2
<1>2. \A v \in 1..Len(held) : Until(v) \in Nat /\ Until(v)' \in Nat /\ Until(v) <= Until(v)'
  <2> SUFFICES ASSUME NEW v \in 1..Len(held)
               PROVE  Until(v) \in Nat /\ Until(v)' \in Nat /\ Until(v) <= Until(v)'
    OBVIOUS
  <2>1. Until(v) \in Nat /\ Until(v) <= now
    BY Untils DEF Inv
  <2> QED
    BY <1>1, <2>1 DEF Until
<1>3. \A v \in 1..Len(held) : VerOK(v)'
  BY <1>1 DEF Inv, Stored, VerOK
<1>4. cache.at # 0 => cache.ver >= 1 /\ cache.at <= Until(cache.ver)'
  <2>1. cache.at # 0 => cache.ver \in 1..Len(held) /\ cache.at <= Until(cache.ver)
    BY <1>1 DEF Inv, Stored
  <2>2. \A v : v = cache.ver => Until(v)' = Until(cache.ver)'
    BY <1>1 DEF Until
  <2>3. cache.at \in Nat
    BY DEF Inv, Stored
  <2> QED
    BY <1>2, <2>1, <2>2, <2>3
<1>5. now' \in 1..MaxNow /\ retired \in 0..now' /\ cache.at \in 0..now'
  BY <1>1 DEF Inv, Stored
<1>6. \A v : v = cache.ver => Until(v)' = Until(cache.ver)'
  BY <1>1 DEF Until
<1>7. Stored'
  BY <1>1, <1>3, <1>4, <1>5 DEF Inv, Stored
<1>8. Later
  BY <1>1, <1>2 DEF Later
<1> QED
  BY <1>1, <1>7, <1>8, NoTab

LEMMA TabKeeps ==
  ASSUME RecordAssumption, Inv, NEW t \in Tabs,
         \/ Step(t) \/ Heal(t) \/ Refresh(t) \/ Fetch(t) \/ FetchOffline(t) \/ Leave(t)
  PROVE  Inv'
<1>1. Stored' /\ Later
  BY StepStands
<1>2. PICK r \in Job : job' = [job EXCEPT ![t] = r]
  BY JobTyped
<1>3. job \in [Tabs -> Job] /\ Len(held) \in Nat /\ Len(held) >= 1
  BY DEF Inv, Stored
<1>4. ASSUME Fetch(t) PROVE JobOK(t)'
  <2>1. UNCHANGED <<held, retired, now>>
    BY <1>4 DEF Fetch
  <2>2. CASE retired # 0
    <3>1. job'[t] = Idle \/ job'[t] = [Idle EXCEPT !.at = "missed"]
      <4>1. job'[t] = [Idle EXCEPT !.at = IF t \in Kept THEN "missed" ELSE "idle"]
        BY <1>3, <1>4, <2>2 DEF Fetch
      <4>2. [Idle EXCEPT !.at = "idle"] = Idle
        BY DEF Idle
      <4> QED
        BY <4>1, <4>2
    <3> QED
      BY <1>1, <2>1, <2>2, <3>1, IdleOK
  <2>3. CASE retired = 0
    <3>1. Len(held) \in 1..Len(held) /\ Until(Len(held)) = now
      BY <1>3, <2>3 DEF Until
    <3>2. job'[t] = Opened(Len(held), IF t \in Kept THEN "fetched" ELSE "ensure")
      BY <1>3, <1>4, <2>3 DEF Fetch
    <3> QED
      BY <1>1, <2>1, <3>1, <3>2, OpenedOK
  <2> QED
    BY <2>2, <2>3
<1>5. ASSUME FetchOffline(t) PROVE JobOK(t)'
  <2>1. UNCHANGED <<held, retired, now>> /\ job'[t] = Opened(cache.ver, "offline")
    BY <1>3, <1>5 DEF FetchOffline
  <2>2. cache.ver \in 1..Len(held)
    BY <1>3, <1>5 DEF FetchOffline, Usable, Inv, Stored
  <2> QED
    BY <1>1, <2>1, <2>2, OpenedOK
<1>6. ASSUME Miss(t) \/ Leave(t) PROVE JobOK(t)'
  BY <1>1, <1>3, <1>6, IdleOK DEF Miss, Leave
<1>7. CASE job[t].at \in {"idle", "missed"} /\ (Step(t) \/ Heal(t) \/ Refresh(t))
  BY <1>6, <1>7, OneTab, <1>1, <1>2
     DEF Step, Heal, Refresh, SaveCache, Ensure, Unpromoted, Read, Put, Written, At
<1>8. CASE job[t].at \notin {"idle", "missed"} /\ (Step(t) \/ Heal(t) \/ Refresh(t))
  BY <1>1, <1>2, <1>8, Moves, OneTab
<1>9. CASE Fetch(t) \/ FetchOffline(t) \/ Leave(t)
  BY <1>1, <1>2, <1>4, <1>5, <1>6, <1>9, OneTab
<1> QED
  BY <1>7, <1>8, <1>9

LEMMA InvInductive == RecordAssumption /\ Inv /\ [Next]_vars => Inv'
<1> SUFFICES ASSUME RecordAssumption, Inv, [Next]_vars PROVE Inv'
  OBVIOUS
<1>1. CASE UNCHANGED vars
  <2>1. /\ UNCHANGED <<held, retired, now>> /\ UNCHANGED cache /\ job' = job
        /\ pointed' = pointed /\ told' = told /\ acts' = acts
        /\ renewals' = renewals /\ failures' = failures
    BY <1>1 DEF vars, counts
  <2>2. /\ pointed \in pointed..MaxSpaces /\ told \in BOOLEAN /\ acts \in 0..MaxActs
        /\ renewals \in 0..MaxRenewals /\ failures \in 0..MaxFailures
    BY DEF Inv, Stored, RecordAssumption
  <2>3. Stored' /\ Later
    BY <2>1, <2>2, Unwritten
  <2> QED
    BY <2>1, <2>3, NoTab
<1>2. CASE \E t \in Tabs : \/ Fetch(t) \/ FetchOffline(t) \/ Step(t) \/ Heal(t)
                           \/ Refresh(t) \/ Leave(t)
  BY <1>2, TabKeeps
<1>3. CASE Others
  BY <1>3, OthersKeep
<1>4. CASE Tick
  BY <1>4, TickKeeps
<1> QED
  BY <1>1, <1>2, <1>3, <1>4 DEF Next

\* Inv is an invariant.
THEOREM RecordSafety == Spec => []Inv
<1>1. RecordAssumption
  BY RecordAssumption
<1> QED
  BY <1>1, InitInv, InvInductive, PTL DEF Spec

\* The put of a rewrite adds a version made of the one it writes over.
LEMMA PutAdds ==
  ASSUME RecordAssumption, Inv, NEW t \in Tabs, Put(t), held' # held
  PROVE  /\ retired = 0 /\ retired' = 0 /\ pointed' = pointed
         /\ Len(held') = Len(held) + 1
         /\ LET new == held'[Len(held')] IN
            /\ new.bridge.of \in {Served.bridge.of, Len(held')}
            /\ new.sibling.of \in {Served.sibling.of, Len(held')}
            /\ new.did \/ ~Served.did
            /\ Served.sibling.space = pointed => new.sibling.space = pointed
<1>1. /\ job[t].at = "put" /\ ~Repointed(t) /\ Matches(t) /\ pointed' = pointed
      /\ held' = Append(held, Rewritten(t)) /\ retired' = 0
  BY DEF Put, At
<1>2. /\ job[t].etag = Len(held) /\ retired = 0 /\ Carried(t) = Served
      /\ Served = held[job[t].etag]
  BY <1>1 DEF Matches, Carried, Served
<1>3. /\ Len(held) \in Nat /\ Len(held) \in 1..Len(held) /\ VerOK(Len(held)) /\ JobOK(t)
      /\ job[t] \in Job /\ held \in Seq(Version)
  BY DEF Inv, Stored
<1>4. Len(held') = Len(held) + 1 /\ held'[Len(held')] = Rewritten(t)
  BY <1>1, <1>3
<1> DEFINE new == Rewritten(t)
<1>5. /\ new.bridge.of \in {Served.bridge.of, Len(held) + 1}
      /\ new.sibling.of \in {Served.sibling.of, Len(held) + 1}
      /\ new.did = (Served.did \/ job[t].heals)
      /\ new.sibling.space = IF job[t].space # 0 THEN job[t].space
                             ELSE Served.sibling.space
  BY <1>2 DEF Rewritten
<1>6. Served.sibling.space = pointed => new.sibling.space = pointed
  <2> SUFFICES ASSUME Served.sibling.space = pointed, job[t].space # 0
               PROVE  job[t].space = pointed
    BY <1>5
  <2>1. \/ Served.sibling.of \in job[t].seenS
        \/ Served.sibling.space = job[t].space
    BY <1>1, <1>2 DEF Repointed
  <2>2. CASE Served.sibling.space = job[t].space
    BY <2>2
  <2>3. CASE Served.sibling.of \in job[t].seenS
    <3>1. held[Served.sibling.of].sibling.space = Served.sibling.space
      BY <1>2, <1>3 DEF VerOK
    <3>2. /\ job[t].space <= pointed
          /\ held[Served.sibling.of].sibling.space <= job[t].space
      BY <1>1, <1>3, <2>3 DEF JobOK, Writing
    <3>3. job[t].space \in Nat /\ pointed \in Nat
      BY <1>3 DEF Job, Inv, Stored, RecordAssumption
    <3> QED
      BY <3>1, <3>2, <3>3
  <2> QED
    BY <2>1, <2>2, <2>3
<1> HIDE DEF new
<1> QED
  BY <1>1, <1>2, <1>4, <1>5, <1>6 DEF new

LEMMA ReplacedKeeps ==
  ASSUME RecordAssumption, Inv, NEW seed, Replaces(seed)
  PROVE  /\ Len(held') = Len(held) + 1
         /\ LET new == held'[Len(held')] IN
            /\ new.bridge.of = Len(held') /\ new.sibling.of = Len(held')
            /\ new.did = Served.did /\ new.sibling.space = Served.sibling.space
<1>1. held \in Seq(Version) /\ Len(held) \in 1..Len(held) /\ Len(held) \in Nat
  BY DEF Inv, Stored
<1>2. Served \in Version
  BY <1>1 DEF Served
<1> DEFINE new == [Served EXCEPT !.seed = seed, !.since = now,
                     !.bridge = [of |-> Len(held) + 1, seed |-> seed],
                     !.sibling = [@ EXCEPT !.of = Len(held) + 1, !.seed = seed]]
<1>3. held' = Append(held, new)
  BY DEF Replaces
<1>4. Len(held') = Len(held) + 1 /\ held'[Len(held')] = new
  BY <1>1, <1>3
<1>5. /\ new.bridge = [of |-> Len(held) + 1, seed |-> seed] /\ new.did = Served.did
      /\ new.sibling = [Served.sibling EXCEPT !.of = Len(held) + 1, !.seed = seed]
  BY <1>2 DEF Version
<1>6. new.sibling.of = Len(held) + 1 /\ new.sibling.space = Served.sibling.space
  BY <1>2, <1>5 DEF Version
<1> HIDE DEF new
<1> QED
  BY <1>4, <1>5, <1>6

\* No step undoes what another writer did.
LEMMA NothingUndoneStep ==
  ASSUME RecordAssumption, Inv, [Next]_vars
  PROVE  NeverPutBack /\ StaysRetired /\ StaysAimed
<1>1. CASE UNCHANGED <<held, retired>>
  BY <1>1 DEF NeverPutBack, StaysRetired, StaysAimed
<1>2. ASSUME NEW t \in Tabs, Put(t) PROVE NeverPutBack /\ StaysRetired /\ StaysAimed
  <2>1. CASE held' = held
    <3>1. retired' = retired
      <4>1. held \in Seq(Version) /\ Len(held) \in Nat
        BY DEF Inv, Stored
      <4>2. Append(held, Rewritten(t)) # held
        BY <4>1
      <4> QED
        BY <1>2, <2>1, <4>2 DEF Put
    <3> QED
      BY <1>1, <2>1, <3>1
  <2>2. CASE held' # held
    BY <1>2, <2>2, PutAdds DEF NeverPutBack, StaysRetired, StaysAimed
  <2> QED
    BY <2>1, <2>2
<1>3. ASSUME NEW seed, Replaces(seed), retired = 0, UNCHANGED <<retired, pointed>>
      PROVE  NeverPutBack /\ StaysRetired /\ StaysAimed
  BY <1>3, ReplacedKeeps DEF NeverPutBack, StaysRetired, StaysAimed
<1>4. CASE OtherRemints
  BY <1>3, <1>4 DEF OtherRemints, Acts
<1>5. CASE OtherReseeds
  BY <1>3, <1>5 DEF OtherReseeds, Acts
<1>6. CASE OtherRetires
  BY <1>6 DEF OtherRetires, Acts, NeverPutBack, StaysRetired, StaysAimed
<1>7. ASSUME NEW t \in Tabs,
             \/ Fetch(t) \/ FetchOffline(t) \/ Miss(t) \/ SaveCache(t) \/ Ensure(t)
             \/ Unpromoted(t) \/ Read(t) \/ Written(t) \/ Heal(t) \/ Refresh(t) \/ Leave(t)
      PROVE  UNCHANGED <<held, retired>>
  BY <1>7 DEF Fetch, FetchOffline, Miss, SaveCache, Ensure, Unpromoted, Read, Written,
              Heal, Refresh, Leave
<1>8. CASE Tick
  BY <1>1, <1>8 DEF Tick
<1>9. CASE UNCHANGED vars
  BY <1>1, <1>9 DEF vars
<1> QED
  BY <1>1, <1>2, <1>4, <1>5, <1>6, <1>7, <1>8, <1>9 DEF Next, Step, Others

\* A rewrite never undoes what another writer did between its read and its put:
\* no replaced delegation comes back, no promoted pointer is taken away, no
\* retired record is written, and no aimed sibling is turned away.
THEOREM NothingUndoneSafety == Spec => NothingIsUndone
<1>1. RecordAssumption
  BY RecordAssumption
<1>2. Inv /\ [Next]_vars => NeverPutBack /\ StaysRetired /\ StaysAimed
  BY <1>1, NothingUndoneStep
<1>3. Inv /\ [Next]_vars => [NeverPutBack /\ StaysRetired /\ StaysAimed]_vars
  BY <1>2
<1> QED
  BY <1>1, <1>3, InitInv, InvInductive, PTL DEF Spec, NothingIsUndone

\* No version of a record carries a delegation minted for a seed its credential
\* no longer has.
THEOREM OneAuthoritySafety == Spec => []OneAuthority
<1>1. Inv => OneAuthority
  BY DEF Inv, Stored, VerOK, OneAuthority
<1> QED
  BY <1>1, RecordSafety, PTL

\* A browser told of the retirement holds no copy, and no session of its is past
\* the login that was told.
Forgotten ==
  /\ told => /\ retired # 0 /\ cache = NoCache
             /\ \A t \in Kept : job[t].at \in {"idle", "missed"}
  /\ \A t \in Tabs : job[t].at \in {"missed", "fetched"} => t \in Kept

\* What a step makes of its tab.
LEMMA Shifts ==
  ASSUME RecordAssumption, Inv, NEW t \in Tabs, NEW u \in Tabs,
         \/ Step(t) \/ Heal(t) \/ Refresh(t) \/ Fetch(t) \/ FetchOffline(t) \/ Leave(t)
  PROVE  /\ u # t => job'[u] = job[u]
         /\ job'[t].at \in {"missed", "fetched"} => Fetch(t)
         /\ job'[t].at = "offline" => FetchOffline(t)
<1>1. PICK r \in Job : job' = [job EXCEPT ![t] = r]
  BY JobTyped
<1>2. job \in [Tabs -> Job]
  BY DEF Inv
<1>3. u # t => job'[u] = job[u]
  BY <1>1, <1>2
<1>4. ASSUME Failed(t) PROVE job'[t].at \in {"in", "idle"}
  BY <1>2, <1>4 DEF Failed, Idle, Job
<1>5. CASE Miss(t) \/ Unpromoted(t) \/ Leave(t)
  BY <1>2, <1>3, <1>5 DEF Miss, Unpromoted, Leave, Idle
<1>6. CASE SaveCache(t) \/ Written(t)
  <2>1. job'[t].at = "in"
    BY <1>2, <1>6 DEF SaveCache, Written, Goes, Job
  <2> QED
    BY <1>3, <2>1
<1>7. ASSUME NEW h, NEW n, NEW s, Offers(t, h, n, s) PROVE job'[t].at = "read"
  BY <1>2, <1>7 DEF Offers, Job
<1>8. CASE Heal(t) \/ Refresh(t)
  BY <1>3, <1>7, <1>8 DEF Heal, Refresh
<1>9. CASE Ensure(t)
  <2>1. Goes(t, "in") => job'[t].at = "in"
    BY <1>2 DEF Goes, Job
  <2> QED
    BY <1>3, <1>7, <1>9, <2>1 DEF Ensure
<1>10. CASE Read(t)
  <2>1. ASSUME NEW p \in {"written", "put"},
               \/ job' = [job EXCEPT ![t].at = "written", ![t].ver = Len(held)]
               \/ job' = [job EXCEPT ![t].at = "put", ![t].etag = Len(held)]
        PROVE  job'[t].at \in {"written", "put"}
    BY <1>2, <2>1 DEF Job
  <2> QED
    BY <1>3, <1>4, <1>10, <2>1 DEF Read
<1>11. CASE Put(t)
  <2>1. ASSUME \/ job' = [job EXCEPT ![t].at = "written", ![t].ver = Len(held) + 1]
               \/ job' = [job EXCEPT ![t].at = "read", ![t].tries = @ + 1]
        PROVE  job'[t].at \in {"written", "read"}
    BY <1>2, <2>1 DEF Job
  <2> QED
    BY <1>3, <1>4, <1>11, <2>1 DEF Put
<1>12. CASE Fetch(t)
  <2>1. \A v, p : Opened(v, p).at = p /\ [Idle EXCEPT !.at = p].at = p
    BY DEF Opened, Idle
  <2>2. job'[t].at \in {"missed", "idle", "fetched", "ensure"}
    BY <1>2, <1>12, <2>1 DEF Fetch
  <2> QED
    BY <1>3, <1>12, <2>2
<1>13. CASE FetchOffline(t)
  <2>1. job'[t].at = "offline"
    BY <1>2, <1>13 DEF FetchOffline, Opened, Idle
  <2> QED
    BY <1>3, <1>13, <2>1
<1> QED
  BY <1>5, <1>6, <1>8, <1>9, <1>10, <1>11, <1>12, <1>13 DEF Step

LEMMA ForgottenStep ==
  ASSUME RecordAssumption, \A t, u \in Kept : t = u, Inv, Forgotten, [Next]_vars
  PROVE  Forgotten'
<1>1. job \in [Tabs -> Job]
  BY DEF Inv
<1>2. CASE UNCHANGED <<told, retired, cache, job>>
  BY <1>2 DEF Forgotten
<1>3. CASE UNCHANGED vars \/ Tick
  BY <1>2, <1>3 DEF vars, Tick
<1>4. CASE Others
  BY <1>4 DEF Others, OtherRemints, OtherReseeds, OtherRetires, Acts, Forgotten
<1>5. ASSUME NEW t \in Tabs,
             \/ Step(t) \/ Heal(t) \/ Refresh(t) \/ Fetch(t) \/ FetchOffline(t) \/ Leave(t)
      PROVE  Forgotten'
  <2>1. ASSUME NEW u \in Tabs, job'[u].at \in {"missed", "fetched"} PROVE u \in Kept
    <3>1. CASE u # t
      BY <1>5, <2>1, <3>1, Shifts DEF Forgotten
    <3>2. CASE u = t /\ t \notin Kept
      <4>1. Fetch(t)
        BY <1>5, <2>1, <3>2, Shifts
      <4>2. \A v, p : Opened(v, p).at = p /\ [Idle EXCEPT !.at = p].at = p
        BY DEF Opened, Idle
      <4>3. job'[t].at \in {"idle", "ensure"}
        BY <1>1, <3>2, <4>1, <4>2 DEF Fetch
      <4> QED
        BY <2>1, <3>2, <4>3
    <3> QED
      BY <3>1, <3>2
  <2>2. CASE Miss(t)
    <3>1. /\ t \in Kept /\ retired # 0 /\ retired' = retired /\ cache' = NoCache
          /\ job'[t] = Idle
      BY <1>1, <2>2 DEF Miss, Missed, At, Forgotten, Inv, JobOK
    <3>2. \A u \in Kept : job'[u].at = "idle"
      BY <3>1 DEF Idle
    <3> QED
      BY <2>1, <3>1, <3>2 DEF Forgotten
  <2>3. CASE told /\ t \notin Kept
    <3>1. /\ told' = told /\ retired' = retired /\ cache' = cache
      BY <1>5, <2>3 DEF Step, Miss, SaveCache, Ensure, Unpromoted, Read, Put, Matches,
            Written, Heal, Refresh, Fetch, FetchOffline, Leave, At, Forgotten
    <3>2. \A u \in Kept : job'[u] = job[u]
      BY <1>5, <2>3, Shifts DEF Tabs
    <3> QED
      BY <2>1, <3>1, <3>2 DEF Forgotten
  <2>4. CASE told /\ t \in Kept /\ ~Miss(t)
    <3>1. retired # 0 /\ cache = NoCache /\ job[t].at \in {"idle", "missed"}
      BY <2>4 DEF Forgotten
    <3>2. Fetch(t)
      BY <1>5, <2>4, <3>1 DEF Step, SaveCache, Ensure, Unpromoted, Read, Put, Written,
            Heal, Refresh, FetchOffline, Usable, Leave, At
    <3>3. /\ told' = told /\ retired' = retired /\ cache' = cache
          /\ job'[t] = [Idle EXCEPT !.at = "missed"]
      BY <1>1, <2>4, <3>1, <3>2 DEF Fetch
    <3>4. \A u \in Kept : job'[u].at = "missed"
      BY <2>4, <3>3 DEF Idle
    <3> QED
      BY <2>1, <3>1, <3>3, <3>4 DEF Forgotten
  <2>5. CASE ~told /\ ~Miss(t)
    <3>1. told' = told
      BY <1>5, <2>5 DEF Step, SaveCache, Ensure, Unpromoted, Read, Put, Written, Heal,
            Refresh, Fetch, FetchOffline, Leave
    <3> QED
      BY <2>1, <2>5, <3>1 DEF Forgotten
  <2> QED
    BY <2>2, <2>3, <2>4, <2>5
<1> QED
  BY <1>3, <1>4, <1>5 DEF Next

LEMMA OpensRecent ==
  ASSUME RecordAssumption, Inv, [Next]_vars, NEW t \in Tabs,
         job[t].at # "offline", job'[t].at = "offline"
  PROVE  now - Until(job'[t].base) <= TTL
<1>1. FetchOffline(t)
  <2>1. job' # job
    OBVIOUS
  <2>2. PICK u \in Tabs : \/ Step(u) \/ Heal(u) \/ Refresh(u) \/ Fetch(u)
                          \/ FetchOffline(u) \/ Leave(u)
    BY <2>1 DEF Next, Others, OtherRemints, OtherReseeds, OtherRetires, Tick, vars
  <2>3. u = t
    BY <2>2, Shifts
  <2> QED
    BY <2>2, <2>3, Shifts
<1>2. job'[t].base = cache.ver
  BY <1>1 DEF FetchOffline, Opened, Idle, Inv
<1>3. /\ cache.at # 0 /\ now - cache.at <= TTL
      /\ cache.ver \in 1..Len(held) /\ cache.at <= Until(cache.ver)
  <2>1. cache.at # 0 /\ now - cache.at <= TTL
    BY <1>1 DEF FetchOffline, Usable
  <2>2. /\ cache.ver >= 1 /\ cache.at <= Until(cache.ver)
        /\ cache.ver \in 0..Len(held) /\ Len(held) \in Nat
    BY <2>1 DEF Inv, Stored
  <2> QED
    BY <2>1, <2>2
<1>4. Until(cache.ver) \in Nat /\ cache.at \in Nat /\ now \in Nat /\ TTL \in Nat
  BY <1>3, Untils DEF Inv, Stored, RecordAssumption
<1> QED
  BY <1>2, <1>3, <1>4

LEMMA InvTypes == RecordAssumption /\ Inv => TypeOK
<1> SUFFICES ASSUME RecordAssumption, Inv PROVE TypeOK
  OBVIOUS
<1>1. ASSUME NEW v \in 1..Len(held)
      PROVE  /\ held[v].did \in BOOLEAN /\ held[v].seed \in 1..Len(held)
             /\ held[v].bridge.of \in 1..v /\ held[v].sibling.of \in 1..v
             /\ held[v].sibling.space \in 1..MaxSpaces /\ held[v].since \in 1..now
  <2>1. held[v] \in Version /\ VerOK(v)
    BY DEF Inv, Stored
  <2>2. pointed \in 1..MaxSpaces /\ MaxSpaces \in Nat
    BY DEF Inv, Stored, RecordAssumption
  <2>3. held[v].did \in BOOLEAN
    BY <2>1 DEF Version
  <2>4. held[v].sibling.space \in 1..MaxSpaces
    BY <2>1, <2>2 DEF VerOK
  <2> QED
    BY <2>1, <2>3, <2>4 DEF VerOK
<1>2. ASSUME NEW t \in Tabs
      PROVE  /\ job[t].at \in {"idle", "missed", "fetched", "offline", "ensure", "in",
                                "read", "put", "written"}
             /\ job[t].heals \in BOOLEAN /\ job[t].renews \in BOOLEAN
  BY DEF Inv, Job
<1>3. ASSUME NEW t \in Tabs
      PROVE  /\ job[t].base \in 0..Len(held) /\ job[t].ver \in 0..Len(held)
             /\ job[t].etag \in 0..Len(held) /\ job[t].tries \in 0..(Attempts - 1)
             /\ job[t].seenB \subseteq 1..Len(held) /\ job[t].seenS \subseteq 1..Len(held)
             /\ job[t].space \in 0..MaxSpaces
  BY DEF Inv, JobOK
<1> QED
  BY <1>1, <1>2, <1>3 DEF Inv, Stored, TypeOK

\* With one tab of the browser at the credential at a time, a browser that was
\* told keeps no copy, and an offline login opens what stood a TTL ago or later.
THEOREM OfflineForgetsSafety ==
  ASSUME \A t, u \in Kept : t = u PROVE Spec => OfflineForgets
<1>1. RecordAssumption
  BY RecordAssumption
<1>2. Init => Forgotten
  BY DEF Init, Forgotten, Idle
<1>3. Inv /\ Forgotten /\ [Next]_vars => Forgotten'
  BY <1>1, ForgottenStep
<1>4. Inv /\ Forgotten => TypeOK /\ (told => cache = NoCache)
  BY <1>1, InvTypes DEF Forgotten
<1>5. Inv /\ [Next]_vars =>
        [\A t \in Tabs : job[t].at # "offline" /\ job'[t].at = "offline" =>
           now - Until(job'[t].base) <= TTL]_vars
  BY <1>1, OpensRecent
<1> QED
  BY <1>1, <1>2, <1>3, <1>4, <1>5, InitInv, InvInductive, PTL DEF Spec, OfflineForgets
====
