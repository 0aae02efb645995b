---- MODULE ContentProofs ----
(***************************************************************************)
(* What a content migration guarantees for every bundle and archive, and   *)
(* every number of tabs, runs and failures: of the wallet's own content,   *)
(* which one tab migrates at a time, and of an app collection.             *)
(***************************************************************************)
EXTENDS AccountImport, TLAPS

-----------------------------------------------------------------------------
(***************************************************************************)
(* The account's own content.  The inductive invariant.                    *)
(***************************************************************************)
\* One tab migrates at a time.
Alone == \A t, u \in Tabs : ~At(t, "idle") /\ ~At(u, "idle") => t = u

\* A run that waits has read nothing yet.
Fresh(t) == At(t, "wait") => run[t].pos = 1 /\ ~run[t].snapped

\* What a run holds in memory is true of the account, and it knows what became
\* of the heads it has gone past, and of no other.
Passed(t, c) == \E n \in 1..Len(Bundle) : n < run[t].pos /\ Bundle[n] = c
HeadIsTrue(t, c) ==
  /\ run[t].head[c] \in {"accepted", "skipped"} => shown[c] > 0
  /\ run[t].head[c] = "conflicting" => stands[c] = "other"
  /\ run[t].head[c] = "seed-twin" => stands[c] = "twin"
  /\ run[t].head[c] = "failed" => failures > 0
  /\ run[t].head[c] # "none" <=> Passed(t, c)
MemoryIsTrue(t) ==
  /\ run[t].snapped => run[t].base \subseteq Shown /\ run[t].seen \subseteq Shown
  /\ \A c \in Contacts : HeadIsTrue(t, c)

\* Over a replica in sync the snapshot misses nothing still to come.
MissesNothing(t) ==
  At(t, "read") /\ ~lagged =>
    /\ arriving = {}
    /\ run[t].snapped =>
         \A n \in run[t].pos..Len(Bundle) :
           KindOf[Bundle[n]] # "credential" /\ shown[Bundle[n]] > 0
             => Bundle[n] \in run[t].seen

\* While nothing failed, everything gone past and let in has landed.
LandedSoFar(t) ==
  At(t, "read") /\ failures = 0 =>
    \A n \in 1..Len(Bundle) :
      n < run[t].pos /\ Importable(Bundle[n]) => Landed(Bundle[n])

\* The run under way is the last; its Import Resource stands from `find` on, and
\* from `clear` on it knows of every other one.
RecordsLast(t) ==
  /\ ~At(t, "idle") => run[t].id = runs /\ recorded < runs
  /\ run[t].at \in {"find", "clear"} => run[t].id \in imports
  /\ At(t, "clear") => imports \subseteq run[t].others \cup {run[t].id}

OwnInv ==
  /\ MergedOnce
  /\ Alone
  /\ arriving \subseteq Contacts
  /\ \A t \in Tabs :
       /\ Fresh(t) /\ MemoryIsTrue(t) /\ MissesNothing(t)
       /\ LandedSoFar(t) /\ RecordsLast(t)

(***************************************************************************)
(* An app collection.  The inductive invariant.                            *)
(***************************************************************************)
\* The settings the archive asks for.
Finished ==
  /\ archive.public => coll.public
  /\ archive.indexed => "archived" \in coll.schema

\* The migration made the collection for the app, which has not written to it.
OwnMake == coll.by = "run" /\ archive.gen /\ ~coll.theirs
MadeAsArchived ==
  coll.by = "run" => coll.gen = archive.gen /\ "own" \notin coll.schema

\* A run that has read the standing collection knows it, and what it goes on
\* with is finished, or its own to finish.
Writing == {"import", "put", "fill", "reap"}
Finishings == {"public", "epoch", "declare"}
Stood ==
  /\ A!Imported \/ app.at \in {"public", "epoch"} => A!Exists
  /\ ~A!Exists => coll = A!Absent
  /\ appRun.at \notin {"idle", "read", "ensure"} => A!Exists
  /\ appRun.at = "ensure" /\ appRun.verdict # "absent" => A!Exists
  /\ appRun.at \in {"check", "recheck"} =>
       /\ appRun.gen = coll.gen
       /\ ~archive.encrypted => appRun.enc = coll.enc
  /\ appRun.public => coll.public
  /\ appRun.at \in Finishings => appRun.created \/ appRun.verdict # "absent"
  /\ appRun.at \in {"read", "check"} => appRun.verdict = "absent"
OwnIsFinished ==
  OwnMake =>
    /\ A!Imported \/ appRun.at \in Writing => Finished
    /\ appRun.at \in Finishings \cup {"ensure"} /\ appRun.verdict = "stands"
         => Finished

\* The kind: an encrypted archive goes into a governed collection; a plain one
\* into a plain collection, or its own torn one before its first epoch.
TakesPlain == coll.kind = "plain" \/ (coll.enc = "none" /\ coll.gen)
KindIsRight ==
  /\ archive.encrypted => ~archive.public
  /\ ~archive.encrypted => ~archive.indexed
  /\ archive.encrypted /\ (A!Imported \/ appRun.at \in Writing \cup {"declare"})
       => coll.enc = "governed"
  /\ ~archive.encrypted =>
       /\ A!Imported \/ appRun.at \in Writing \/ appRun.at = "public" => TakesPlain
       /\ appRun.at = "ensure" /\ appRun.verdict # "absent" => TakesPlain
       /\ coll.public => TakesPlain
       /\ coll.kind = "encrypted" /\ coll.enc = "none" => ~coll.theirs
       /\ appRun.at \notin {"epoch", "declare", "put", "fill", "reap"}
       /\ appRun.epoch = 0 /\ app.at # "epoch"
  /\ archive.encrypted => appRun.at # "public" /\ app.at # "public"
  /\ app.at = "public" => coll.kind = "plain"

\* A Resource being written is one of the archive's, and those a clean run has
\* gone past are whole.
Whole(n) == held[Archived[n]] = "whole"
WritesOn ==
  /\ appRun.at \in {"put", "fill", "reap"} =>
       /\ appRun.pos <= Len(Archived)
       /\ appRun.epoch > 0 /\ appRun.epoch >= appRun.from
       /\ ~Whole(appRun.pos)
  /\ appRun.at \in {"fill", "reap"} => held[Archived[appRun.pos]] = "stub"
PassedWhole ==
  appRun.clean => \A n \in 1..Len(Archived) : n < appRun.pos => Whole(n)

AppInv ==
  /\ A!TypeOK /\ A!FilledIsFinished /\ A!MatchesItsKind
  /\ MadeAsArchived /\ Stood /\ OwnIsFinished /\ KindIsRight /\ WritesOn
  /\ PassedWhole

\* Both halves, of which one is taken and the other rests.
AppsInv == half = "apps" => AppInv
OtherRests ==
  /\ half \in {"own", "apps"}
  /\ half = "apps" => recorded = 0 /\ \A t \in Tabs : run[t] = Idle
  /\ half = "own" => appRun = A!Idle
Inv == OwnInv /\ AppsInv /\ OtherRests

-----------------------------------------------------------------------------
(***************************************************************************)
(* Every step of the account's own half keeps the invariant.               *)
(***************************************************************************)
RunType ==
  [at : {"idle", "wait", "read", "record", "find", "clear"},
   pos : 1..(Len(Bundle) + 1), snapped : BOOLEAN,
   base : SUBSET Items, seen : SUBSET Items,
   head : [Contacts -> Outcomes], id : 0..runs, others : SUBSET (1..runs)]

LEMMA BundleItems ==
  ASSUME MigrationAssumption
  PROVE  Len(Bundle) \in Nat /\ \A n \in 1..Len(Bundle) : Bundle[n] \in Items
  BY DEF MigrationAssumption

LEMMA IdleType ==
  ASSUME MigrationAssumption, TypeOK
  PROVE  Idle \in RunType
<1>1. [c \in Contacts |-> "none"] \in [Contacts -> Outcomes]
  BY DEF Outcomes
<1>2. Len(Bundle) \in Nat
  BY BundleItems
<1> QED
  BY <1>1, <1>2 DEF Idle, RunType, TypeOK

\* The initial states.
LEMMA OwnInit ==
  ASSUME MigrationAssumption, Init
  PROVE  OwnInv
<1>1. TypeOK
  <2>1. run \in [Tabs -> RunType]
    <3>1. [c \in Contacts |-> "none"] \in [Contacts -> Outcomes]
      BY DEF Outcomes
    <3>2. Len(Bundle) \in Nat
      BY BundleItems
    <3> QED
      BY <3>1, <3>2 DEF Init, Idle, RunType
  <2>2. \A u \in Tabs : run[u] = Idle
    BY DEF Init
  <2>3. Idle.id \notin Idle.others
    BY DEF Idle
  <2>4. shown \in [Items -> Nat] /\ arriving \subseteq Items
    BY DEF Init
  <2>5. /\ imports \subseteq 1..runs /\ recorded \in 0..runs
        /\ runs \in 0..MaxRuns /\ failures \in 0..MaxFailures
    BY DEF Init, MigrationAssumption
  <2>6. lagged \in BOOLEAN /\ stands \in [Items -> {"nothing", "other", "twin", "created"}]
    BY DEF Init
  <2> QED
    BY <2>1, <2>2, <2>3, <2>4, <2>5, <2>6 DEF TypeOK, RunType
<1>2. MergedOnce
  <2>1. \A i \in Items : shown[i] = 0
    BY DEF Init
  <2>2. NoSecondCopy
    BY <2>1 DEF NoSecondCopy
  <2>3. RevisionHasHead /\ OneCreate
    BY <2>1 DEF RevisionHasHead, OneCreate
  <2>4. LastImportStands
    BY DEF Init, LastImportStands
  <2> QED
    BY <1>1, <2>2, <2>3, <2>4 DEF MergedOnce
<1>3. ASSUME NEW t \in Tabs
      PROVE  Fresh(t) /\ MemoryIsTrue(t) /\ MissesNothing(t) /\ LandedSoFar(t)
             /\ RecordsLast(t)
  <2>1. run[t] = Idle
    BY DEF Init
  <2>2. MemoryIsTrue(t)
    BY <2>1 DEF MemoryIsTrue, HeadIsTrue, Passed, Idle
  <2> QED
    BY <2>1, <2>2 DEF Fresh, MissesNothing, LandedSoFar, RecordsLast, At, Idle
<1>4. Alone
  BY DEF Init, Alone, At, Idle
<1>5. arriving \subseteq Contacts
  BY DEF Init, Contacts
<1> QED
  BY <1>2, <1>3, <1>4, <1>5 DEF OwnInv

\* Whatever becomes of the account, a contact once shown stays, and what an id
\* holds is as it was.
Grows ==
  /\ \A i \in Items : shown[i] > 0 => shown'[i] > 0
  /\ UNCHANGED stands
  /\ failures <= failures'

\* What a tab's run remembers stays true while it remembers the same.
LEMMA MemoryKept ==
  ASSUME MigrationAssumption, TypeOK, TypeOK', Grows, NEW t \in Tabs, MemoryIsTrue(t),
         run'[t].snapped = run[t].snapped, run'[t].base = run[t].base,
         run'[t].seen = run[t].seen, run'[t].head = run[t].head,
         run'[t].pos = run[t].pos
  PROVE  MemoryIsTrue(t)'
<1>1. Shown \subseteq Shown' /\ Contacts \subseteq Items
  BY DEF Shown, Grows, Contacts
<1>4. failures \in Nat /\ failures' \in Nat
  BY DEF TypeOK, MigrationAssumption
<1>2. run[t].snapped => run'[t].base \subseteq Shown' /\ run'[t].seen \subseteq Shown'
  BY <1>1 DEF MemoryIsTrue
<1>3. ASSUME NEW c \in Contacts PROVE HeadIsTrue(t, c)'
  <2>1. Passed(t, c)' <=> Passed(t, c)
    BY DEF Passed
  <2> QED
    BY <1>1, <1>4, <2>1 DEF MemoryIsTrue, HeadIsTrue, Grows
<1> QED
  BY <1>2, <1>3 DEF MemoryIsTrue

\* What is said of one tab's run.
RunIsTrue(t) ==
  Fresh(t) /\ MemoryIsTrue(t) /\ MissesNothing(t) /\ LandedSoFar(t) /\ RecordsLast(t)

\* A run that ends, or never began, remembers nothing.
LEMMA IdleIsTrue ==
  ASSUME MigrationAssumption, NEW t \in Tabs, run'[t] = Idle
  PROVE  RunIsTrue(t)'
<1>1. MemoryIsTrue(t)'
  BY DEF MemoryIsTrue, HeadIsTrue, Passed, Idle
<1> QED
  BY <1>1 DEF RunIsTrue, Fresh, Idle, MissesNothing, LandedSoFar, RecordsLast, At

\* A step of one tab: no other is under way, and the invariant is about it.
Mine(t) ==
  /\ ~At(t, "idle") \/ \A u \in Tabs : At(u, "idle")
  /\ \A u \in Tabs \ {t} : run'[u] = run[u]

LEMMA TabStep ==
  ASSUME MigrationAssumption, OwnInv, NEW t \in Tabs, Mine(t),
         arriving' \subseteq arriving, MergedOnce', RunIsTrue(t)'
  PROVE  OwnInv'
<1>1. \A u \in Tabs \ {t} : run'[u] = Idle
  BY DEF OwnInv, MergedOnce, TypeOK, Alone, Mine, At
<1>2. Alone'
  BY <1>1 DEF Alone, At, Idle
<1>3. ASSUME NEW u \in Tabs PROVE RunIsTrue(u)'
  BY <1>1, IdleIsTrue
<1>4. (arriving \subseteq Contacts)'
  BY DEF OwnInv, Contacts
<1> QED
  BY <1>2, <1>3, <1>4 DEF OwnInv, RunIsTrue

LEMMA RunTyped ==
  ASSUME TypeOK, NEW t \in Tabs, NEW r \in RunType, UNCHANGED runs,
         run' = [run EXCEPT ![t] = r],
         r.at = "idle" => r = Idle, r.id \notin r.others
  PROVE  /\ (run \in [Tabs -> RunType])'
         /\ \A u \in Tabs : /\ run'[u].at = "idle" => run'[u] = Idle
                            /\ run'[u].id \notin run'[u].others
<1>1. run \in [Tabs -> RunType] /\ run' \in [Tabs -> RunType]
  BY DEF TypeOK, RunType
<1>2. RunType' = RunType
  BY DEF RunType
<1> QED
  BY <1>1, <1>2 DEF TypeOK

\* What the account holds stays as it is.
LEMMA SameContent ==
  ASSUME OwnInv, UNCHANGED <<shown, arriving, stands>>, lagged => lagged'
  PROVE  NoSecondCopy' /\ RevisionHasHead' /\ OneCreate'
  BY DEF OwnInv, MergedOnce, NoSecondCopy, RevisionHasHead, OneCreate, InBundle

\* The types, of a step of one run.
LEMMA TypeKept ==
  ASSUME TypeOK, NEW t \in Tabs, NEW r \in RunType, UNCHANGED runs,
         run' = [run EXCEPT ![t] = r],
         r.at = "idle" => r = Idle, r.id \notin r.others,
         shown' \in [Items -> Nat], arriving' \subseteq Items, UNCHANGED stands,
         imports' \subseteq 1..runs, recorded' \in 0..runs,
         lagged' \in BOOLEAN, failures' \in 0..MaxFailures
  PROVE  TypeOK'
<1>1. /\ (run \in [Tabs -> RunType])'
      /\ \A u \in Tabs : /\ run'[u].at = "idle" => run'[u] = Idle
                         /\ run'[u].id \notin run'[u].others
  BY RunTyped
<1>2. stands' \in [Items -> {"nothing", "other", "twin", "created"}] /\ runs' \in 0..MaxRuns
      /\ imports' \subseteq 1..runs' /\ recorded' \in 0..runs'
  BY DEF TypeOK
<1> QED
  BY <1>1, <1>2 DEF TypeOK, RunType

\* The replica pulls.
LEMMA PullKeeps ==
  ASSUME MigrationAssumption, OwnInv, Pull
  PROVE  OwnInv'
<1>t. TypeOK
  BY DEF OwnInv, MergedOnce
<1>1. /\ shown' \in [Items -> Nat]
      /\ \A i \in Items : shown[i] \in Nat
      /\ \A i \in Items : shown'[i] = shown[i] + (IF i \in arriving THEN 1 ELSE 0)
  BY <1>t DEF Pull, TypeOK
<1>2. TypeOK'
  BY <1>t, <1>1 DEF Pull, TypeOK
<1>3. Grows
  BY <1>t, <1>1 DEF Pull, Grows, TypeOK
<1>4. MergedOnce'
  <2>1. NoSecondCopy'
    BY <1>1 DEF Pull, OwnInv, MergedOnce, NoSecondCopy
  <2>2. OneCreate' /\ RevisionHasHead'
    <3>1. ASSUME NEW i \in Items, KindOf[i] \in {"revision", "created"}, shown'[i] > 0
          PROVE  shown[i] > 0
      <4>1. i \notin arriving
        BY <3>1 DEF OwnInv, Contacts
      <4> QED
        BY <1>1, <3>1, <4>1
    <3> QED
      BY <1>1, <1>3, <3>1
      DEF Pull, OwnInv, MergedOnce, OneCreate, RevisionHasHead, InBundle, Grows, MigrationAssumption
  <2>3. LastImportStands'
    BY DEF Pull, OwnInv, MergedOnce, LastImportStands, At
  <2> QED
    BY <1>2, <2>1, <2>2, <2>3 DEF MergedOnce
<1>5. ASSUME NEW t \in Tabs PROVE RunIsTrue(t)'
  <2>1. RunIsTrue(t) /\ run'[t] = run[t]
    BY DEF Pull, OwnInv, RunIsTrue
  <2>2. MemoryIsTrue(t)'
    BY <1>t, <1>2, <1>3, <2>1, MemoryKept DEF RunIsTrue
  <2>3. Fresh(t)' /\ RecordsLast(t)'
    BY <2>1 DEF Pull, RunIsTrue, Fresh, RecordsLast, At
  <2>4. MissesNothing(t)'
    BY <2>1 DEF Pull, RunIsTrue, MissesNothing, At
  <2>5. LandedSoFar(t)'
    <3>1. ASSUME NEW i \in Items, Landed(i) PROVE Landed(i)'
      BY <1>3, <3>1 DEF Landed, Grows
    <3>2. ASSUME NEW i \in Items PROVE Importable(i)' <=> Importable(i)
      BY DEF Pull, Importable, InBundle
    <3> QED
      BY <2>1, <3>1, <3>2, BundleItems DEF Pull, RunIsTrue, LandedSoFar, At
  <2> QED
    BY <2>2, <2>3, <2>4, <2>5 DEF RunIsTrue
<1> QED
  BY <1>4, <1>5 DEF Pull, OwnInv, RunIsTrue, Alone, At, Contacts

\* What a step of one tab that writes no content has to show.
LEMMA QuietStep ==
  ASSUME MigrationAssumption, OwnInv, NEW t \in Tabs, Mine(t), TypeOK',
         UNCHANGED <<shown, arriving, stands>>, lagged => lagged',
         failures <= failures', LastImportStands', RunIsTrue(t)'
  PROVE  OwnInv'
<1>1. MergedOnce'
  BY SameContent DEF MergedOnce
<1> QED
  BY <1>1, TabStep

\* A run that goes on to another place remembers what it did.
LEMMA Onwards ==
  ASSUME MigrationAssumption, TypeOK, NEW t \in Tabs, NEW at \in {"read", "record", "find"},
         Goes(t, at), UNCHANGED <<shown, arriving, stands, runs>>,
         imports' \subseteq 1..runs, recorded' = recorded,
         lagged' \in BOOLEAN, failures' \in 0..MaxFailures, failures <= failures',
         MemoryIsTrue(t)
  PROVE  /\ TypeOK' /\ MemoryIsTrue(t)'
         /\ run'[t] = [run[t] EXCEPT !.at = at]
         /\ \A u \in Tabs \ {t} : run'[u] = run[u]
<1> DEFINE r == [run[t] EXCEPT !.at = at]
<1>1. run' = [run EXCEPT ![t] = r] /\ run \in [Tabs -> RunType]
  BY DEF Goes, TypeOK, RunType
<1>0. run[t] \in RunType
  BY <1>1
<1>2. r \in RunType /\ r.at = at /\ r.id \notin r.others
  <2>1. r \in RunType
    BY <1>0 DEF RunType
  <2>2. r.at = at /\ r.id = run[t].id /\ r.others = run[t].others
    BY <1>0 DEF RunType
  <2> QED
    BY <2>1, <2>2 DEF TypeOK
<1>3. /\ r.pos = run[t].pos /\ r.snapped = run[t].snapped /\ r.base = run[t].base
      /\ r.seen = run[t].seen /\ r.head = run[t].head
  BY <1>1 DEF RunType
<1>4. run'[t] = r /\ \A u \in Tabs \ {t} : run'[u] = run[u]
  BY <1>1
<1> HIDE DEF r
<1>5. /\ shown' \in [Items -> Nat] /\ arriving' \subseteq Items
      /\ recorded' \in 0..runs
  BY DEF TypeOK
<1>6. TypeOK'
  BY <1>1, <1>2, <1>5, TypeKept
<1>7. Grows
  BY DEF Grows
<1>8. MemoryIsTrue(t)'
  BY <1>3, <1>4, <1>6, <1>7, MemoryKept
<1> QED
  BY <1>4, <1>6, <1>8 DEF r

\* A run begins, when no other tab's is under way.
LEMMA StartKeeps ==
  ASSUME MigrationAssumption, ~Overlap, OwnInv, NEW t \in Tabs, Start(t)
  PROVE  OwnInv'
<1> DEFINE r == [run[t] EXCEPT !.at = "wait", !.id = runs + 1]
<1>t. TypeOK /\ runs \in Nat /\ recorded \in Nat /\ recorded <= runs
  BY DEF OwnInv, MergedOnce, TypeOK, MigrationAssumption
<1>1. run' = [run EXCEPT ![t] = r] /\ run \in [Tabs -> RunType]
  BY <1>t DEF Start, TypeOK, RunType
<1>2. run[t] = Idle /\ \A u \in Tabs : At(u, "idle")
  BY <1>t DEF Start, TypeOK, At
<1>3. /\ r.at = "wait" /\ r.id = runs + 1 /\ r.pos = 1 /\ r.snapped = FALSE
      /\ r.base = run[t].base /\ r.seen = run[t].seen /\ r.head = run[t].head
      /\ r.pos = run[t].pos /\ r.snapped = run[t].snapped /\ r.others = {}
  BY <1>2 DEF Idle
<1>4. run'[t] = r /\ \A u \in Tabs \ {t} : run'[u] = run[u]
  BY <1>1
<1>5. RunType \subseteq RunType'
  BY <1>t DEF Start, RunType
<1>6. r \in RunType'
  BY <1>1, <1>2, <1>t DEF Start, RunType, Idle
<1> HIDE DEF r
<1>7. TypeOK'
  <2>1. run' \in [Tabs -> RunType']
    BY <1>1, <1>5, <1>6
  <2>2. \A u \in Tabs : /\ run'[u].at = "idle" => run'[u] = Idle
                        /\ run'[u].id \notin run'[u].others
    BY <1>3, <1>4, <1>t DEF TypeOK
  <2>3. /\ runs' \in 0..MaxRuns /\ imports' \subseteq 1..runs' /\ recorded' \in 0..runs'
    BY <1>t DEF Start, TypeOK, MigrationAssumption
  <2> QED
    BY <2>1, <2>2, <2>3, <1>t DEF Start, TypeOK, RunType
<1>8. MemoryIsTrue(t)'
  <2>1. Grows
    BY <1>t DEF Start, Grows, TypeOK, MigrationAssumption
  <2> QED
    BY <1>3, <1>4, <1>7, <1>t, <2>1, MemoryKept DEF OwnInv
<1>9. RunIsTrue(t)'
  <2>1. runs' = runs + 1 /\ recorded' = recorded /\ recorded < runs + 1
    BY <1>t DEF Start
  <2>2. RecordsLast(t)'
    BY <1>3, <1>4, <2>1 DEF RecordsLast, At
  <2> QED
    BY <1>3, <1>4, <1>8, <2>2
    DEF RunIsTrue, Fresh, MissesNothing, LandedSoFar, At
<1>10. LastImportStands'
  BY <1>3, <1>4 DEF LastImportStands, At
<1>11. Mine(t)
  BY <1>2, <1>4 DEF Mine
<1>12. failures <= failures'
  BY <1>t DEF Start, TypeOK, MigrationAssumption
<1> QED
  BY <1>7, <1>9, <1>10, <1>11, <1>12, QuietStep DEF Start

\* The wait for the replication ends.
LEMMA SettleKeeps ==
  ASSUME MigrationAssumption, OwnInv, NEW t \in Tabs, Settle(t)
  PROVE  OwnInv'
<1>t. TypeOK /\ RunIsTrue(t) /\ imports \subseteq 1..runs
  BY DEF OwnInv, MergedOnce, TypeOK, RunIsTrue
<1>f. lagged' \in BOOLEAN /\ failures' \in 0..MaxFailures /\ failures <= failures'
      /\ (lagged => lagged')
  <2>1. lagged \in BOOLEAN /\ failures \in 0..MaxFailures /\ MaxFailures \in Nat
    BY <1>t DEF TypeOK, MigrationAssumption
  <2>2. \/ lagged' = lagged /\ failures' = failures
        \/ Spend /\ lagged' = TRUE
    BY DEF Settle
  <2>3. failures' \in 0..MaxFailures /\ failures <= failures'
    BY <2>1, <2>2 DEF Spend
  <2> QED
    BY <2>1, <2>2, <2>3
<1>1. /\ TypeOK' /\ MemoryIsTrue(t)'
      /\ run'[t] = [run[t] EXCEPT !.at = "read"]
      /\ \A u \in Tabs \ {t} : run'[u] = run[u]
  BY <1>t, <1>f, Onwards DEF Settle, RunIsTrue
<1>2. /\ run'[t].at = "read" /\ run'[t].pos = 1 /\ ~run'[t].snapped
      /\ run'[t].id = run[t].id
  BY <1>1, <1>t DEF Settle, RunIsTrue, Fresh, TypeOK
<1>3. MissesNothing(t)'
  BY <1>2 DEF Settle, MissesNothing, At
<1>4. LandedSoFar(t)'
  <2>1. \A n \in 1..Len(Bundle) : ~(n < 1)
    BY BundleItems
  <2> QED
    BY <1>2, <2>1 DEF LandedSoFar
<1>5. RunIsTrue(t)'
  BY <1>1, <1>2, <1>3, <1>4, <1>t DEF Settle, RunIsTrue, Fresh, RecordsLast, At
<1>6. Mine(t) /\ LastImportStands'
  BY <1>1, <1>2 DEF Settle, Mine, LastImportStands, At
<1> QED
  BY <1>1, <1>f, <1>5, <1>6, QuietStep DEF Settle

\* The reading ends, at the bundle's end or a full Space.
LEMMA EndsKeeps ==
  ASSUME MigrationAssumption, OwnInv, NEW t \in Tabs, Ends(t)
  PROVE  OwnInv'
<1>t. TypeOK /\ RunIsTrue(t) /\ imports \subseteq 1..runs
  BY DEF OwnInv, MergedOnce, TypeOK, RunIsTrue
<1>f. lagged' \in BOOLEAN /\ failures' \in 0..MaxFailures /\ failures <= failures'
  BY <1>t DEF Ends, Spend, TypeOK, MigrationAssumption
<1>1. /\ TypeOK' /\ MemoryIsTrue(t)'
      /\ run'[t] = [run[t] EXCEPT !.at = "record"]
      /\ \A u \in Tabs \ {t} : run'[u] = run[u]
  BY <1>t, <1>f, Onwards DEF Ends, RunIsTrue
<1>2. run'[t].at = "record" /\ run'[t].id = run[t].id
  BY <1>1, <1>t DEF TypeOK
<1>3. RunIsTrue(t)'
  BY <1>1, <1>2, <1>t
  DEF Ends, RunIsTrue, Fresh, MissesNothing, LandedSoFar, RecordsLast, At
<1>4. Mine(t) /\ LastImportStands'
  BY <1>1, <1>2 DEF Ends, Mine, LastImportStands, At
<1> QED
  BY <1>1, <1>f, <1>3, <1>4, QuietStep DEF Ends

\* The Import activity is written under the run's own Resource.
LEMMA RecordKeeps ==
  ASSUME MigrationAssumption, OwnInv, NEW t \in Tabs, Record(t)
  PROVE  OwnInv'
<1>t. TypeOK /\ RunIsTrue(t)
  BY DEF OwnInv, MergedOnce, RunIsTrue
<1>0. run[t].id = runs /\ runs > 0
  BY <1>t DEF Record, RunIsTrue, RecordsLast, At, TypeOK, MigrationAssumption
<1>f. imports' \subseteq 1..runs /\ failures <= failures'
      /\ lagged' \in BOOLEAN /\ failures' \in 0..MaxFailures
  BY <1>t, <1>0 DEF Record, Recorded, TypeOK, MigrationAssumption
<1>1. /\ TypeOK' /\ MemoryIsTrue(t)'
      /\ run'[t] = [run[t] EXCEPT !.at = "find"]
      /\ \A u \in Tabs \ {t} : run'[u] = run[u]
  BY <1>t, <1>f, Onwards DEF Record, RunIsTrue
<1>2. run'[t].at = "find" /\ run'[t].id = run[t].id
  BY <1>1, <1>t DEF TypeOK
<1>3. RecordsLast(t)'
  BY <1>1, <1>2, <1>t DEF Record, Recorded, RunIsTrue, RecordsLast, At
<1>4. RunIsTrue(t)'
  BY <1>1, <1>2, <1>3 DEF RunIsTrue, Fresh, MissesNothing, LandedSoFar, At
<1>5. Mine(t) /\ LastImportStands'
  BY <1>1, <1>2 DEF Record, Mine, LastImportStands, At
<1> QED
  BY <1>1, <1>f, <1>4, <1>5, QuietStep DEF Record

\* The other Resources of the activity are found.
LEMMA FindKeeps ==
  ASSUME MigrationAssumption, OwnInv, NEW t \in Tabs, Find(t)
  PROVE  OwnInv'
<1> DEFINE r == [run[t] EXCEPT !.at = "clear", !.others = Others(t)]
<1>t. TypeOK /\ RunIsTrue(t)
  BY DEF OwnInv, MergedOnce, RunIsTrue
<1>1. run \in [Tabs -> RunType] /\ run[t] \in RunType /\ run' = [run EXCEPT ![t] = r]
  BY <1>t DEF Find, TypeOK, RunType
<1>2. r \in RunType
  BY <1>1, <1>t DEF RunType, Others, TypeOK
<1>3. /\ r.at = "clear" /\ r.id = run[t].id /\ r.others = imports \ {run[t].id}
      /\ r.pos = run[t].pos /\ r.snapped = run[t].snapped /\ r.base = run[t].base
      /\ r.seen = run[t].seen /\ r.head = run[t].head
  BY <1>1 DEF RunType, Others
<1>4. run'[t] = r /\ \A u \in Tabs \ {t} : run'[u] = run[u]
  BY <1>1
<1> HIDE DEF r
<1>5. /\ shown' \in [Items -> Nat] /\ arriving' \subseteq Items
      /\ imports' \subseteq 1..runs /\ recorded' \in 0..runs
      /\ lagged' \in BOOLEAN /\ failures' \in 0..MaxFailures
  BY <1>t DEF Find, TypeOK
<1>6. TypeOK'
  <2>1. r.id \notin r.others /\ r.at # "idle" /\ UNCHANGED <<runs, stands>>
    BY <1>3 DEF Find
  <2> QED
    BY <1>1, <1>2, <1>5, <1>t, <2>1, TypeKept
<1>7. Grows /\ failures <= failures'
  BY <1>t DEF Find, Grows, TypeOK, MigrationAssumption
<1>8. MemoryIsTrue(t)'
  BY <1>t, <1>3, <1>4, <1>6, <1>7, MemoryKept DEF RunIsTrue
<1>9. RecordsLast(t)'
  <2>1. UNCHANGED <<imports, runs, recorded>> /\ run[t].at = "find"
    BY DEF Find, At
  <2>2. run[t].id = runs /\ recorded < runs /\ run[t].id \in imports
    BY <1>t, <2>1 DEF RunIsTrue, RecordsLast, At
  <2>3. /\ run'[t].at = "clear" /\ run'[t].id = run[t].id
        /\ run'[t].others = imports \ {run[t].id}
    BY <1>3, <1>4
  <2> QED
    BY <2>1, <2>2, <2>3 DEF RecordsLast, At
<1>10. RunIsTrue(t)'
  BY <1>3, <1>4, <1>8, <1>9 DEF RunIsTrue, Fresh, MissesNothing, LandedSoFar, At
<1>11. Mine(t) /\ LastImportStands'
  BY <1>3, <1>4 DEF Find, Mine, LastImportStands, At
<1> QED
  BY <1>6, <1>7, <1>10, <1>11, QuietStep DEF Find

\* A run that ends, by the user or by itself.
LEMMA EndKeeps ==
  ASSUME MigrationAssumption, OwnInv, NEW t \in Tabs, ~At(t, "idle"),
         run' = [run EXCEPT ![t] = Idle],
         UNCHANGED <<shown, arriving, stands, imports, runs, lagged, failures>>,
         recorded' \in 0..runs, LastImportStands'
  PROVE  OwnInv'
<1>t. TypeOK
  BY DEF OwnInv, MergedOnce
<1>1. run \in [Tabs -> RunType] /\ Idle \in RunType
  BY <1>t, IdleType DEF TypeOK, RunType
<1>2. run'[t] = Idle /\ \A u \in Tabs \ {t} : run'[u] = run[u]
  BY <1>1
<1>3. Idle.at = "idle" /\ Idle.id \notin Idle.others
  BY DEF Idle
<1>4. /\ shown' \in [Items -> Nat] /\ arriving' \subseteq Items
      /\ imports' \subseteq 1..runs
      /\ lagged' \in BOOLEAN /\ failures' \in 0..MaxFailures
  BY <1>t DEF TypeOK
<1>5. TypeOK'
  BY <1>t, <1>1, <1>3, <1>4, TypeKept
<1>6. RunIsTrue(t)'
  BY <1>2, IdleIsTrue
<1>7. Mine(t) /\ failures <= failures'
  BY <1>2, <1>t DEF Mine, TypeOK, MigrationAssumption
<1> QED
  BY <1>5, <1>6, <1>7, QuietStep

LEMMA AbortKeeps ==
  ASSUME MigrationAssumption, OwnInv, NEW t \in Tabs, Abort(t)
  PROVE  OwnInv'
<1>1. recorded < runs /\ recorded \in 0..runs /\ runs \in Nat
  BY DEF Abort, OwnInv, RecordsLast, MergedOnce, TypeOK, MigrationAssumption
<1>2. LastImportStands'
  BY <1>1 DEF Abort, LastImportStands
<1> QED
  BY <1>1, <1>2, EndKeeps DEF Abort

\* The other Resources of the activity are removed, one by one.
LEMMA ClearKeeps ==
  ASSUME MigrationAssumption, OwnInv, NEW t \in Tabs, Clear(t)
  PROVE  OwnInv'
<1>t. TypeOK /\ RunIsTrue(t)
  BY DEF OwnInv, MergedOnce, RunIsTrue
<1>0. /\ run[t].id = runs /\ run[t].id \in imports
      /\ imports \subseteq run[t].others \cup {run[t].id}
  BY <1>t DEF Clear, RunIsTrue, RecordsLast, At
<1>1. CASE run[t].others = {}
  <2>1. recorded' = runs /\ imports' = {runs} /\ runs' = runs /\ run' = [run EXCEPT ![t] = Idle]
    BY <1>0, <1>1 DEF Clear
  <2>2. recorded' \in 0..runs /\ ~At(t, "idle")
    BY <2>1, <1>t DEF Clear, At, TypeOK, MigrationAssumption
  <2>3. LastImportStands'
    BY <2>1 DEF LastImportStands
  <2> QED
    BY <1>1, <2>1, <2>2, <2>3, EndKeeps DEF Clear
<1>2. CASE run[t].others # {}
  <2>1. PICK o \in run[t].others :
          /\ imports' = imports \ {o}
          /\ run' = [run EXCEPT ![t] = [run[t] EXCEPT !.others = @ \ {o}]]
          /\ UNCHANGED recorded
    BY <1>2, <1>t DEF Clear, TypeOK
  <2> DEFINE r == [run[t] EXCEPT !.others = @ \ {o}]
  <2>2. run \in [Tabs -> RunType] /\ run[t] \in RunType /\ run' = [run EXCEPT ![t] = r]
    BY <2>1, <1>t DEF TypeOK, RunType
  <2>3. r \in RunType
    BY <2>2 DEF RunType
  <2>4. /\ r.at = "clear" /\ r.id = run[t].id /\ r.others = run[t].others \ {o}
        /\ r.pos = run[t].pos /\ r.snapped = run[t].snapped /\ r.base = run[t].base
        /\ r.seen = run[t].seen /\ r.head = run[t].head
    BY <2>2 DEF RunType, Clear, At
  <2>5. run'[t] = r /\ \A u \in Tabs \ {t} : run'[u] = run[u]
    BY <2>2
  <2> HIDE DEF r
  <2>6. /\ shown' \in [Items -> Nat] /\ arriving' \subseteq Items
        /\ imports' \subseteq 1..runs /\ recorded' \in 0..runs
        /\ lagged' \in BOOLEAN /\ failures' \in 0..MaxFailures
        /\ run[t].id \notin run[t].others
    BY <2>1, <1>t DEF Clear, TypeOK
  <2>7. TypeOK'
    BY <2>2, <2>3, <2>4, <2>6, <1>t, TypeKept DEF Clear
  <2>8. Grows /\ failures <= failures'
    BY <1>t DEF Clear, Grows, TypeOK, MigrationAssumption
  <2>9. MemoryIsTrue(t)'
    BY <1>t, <2>4, <2>5, <2>7, <2>8, MemoryKept DEF RunIsTrue
  <2>10. RecordsLast(t)'
    BY <1>0, <1>t, <2>1, <2>4, <2>5, <2>6 DEF Clear, RunIsTrue, RecordsLast, At
  <2>11. RunIsTrue(t)'
    BY <2>4, <2>5, <2>9, <2>10 DEF RunIsTrue, Fresh, MissesNothing, LandedSoFar, At
  <2>12. Mine(t) /\ LastImportStands'
    BY <2>4, <2>5 DEF Clear, Mine, LastImportStands, At
  <2> QED
    BY <2>7, <2>8, <2>11, <2>12, QuietStep DEF Clear
<1> QED
  BY <1>1, <1>2

-----------------------------------------------------------------------------
(***************************************************************************)
(* The import of one Resource.                                             *)
(***************************************************************************)
\* What the run takes the account to hold it does hold, and over a replica in
\* sync it overlooks nothing that is still to come.
LEMMA SnapshotIsTrue ==
  ASSUME MigrationAssumption, OwnInv, NEW t \in Tabs, At(t, "read")
  PROVE  /\ Base(t) \subseteq Shown /\ Seen(t) \subseteq Shown
         /\ ~lagged =>
              /\ arriving = {}
              /\ \A n \in run[t].pos..Len(Bundle) :
                   KindOf[Bundle[n]] # "credential" /\ shown[Bundle[n]] > 0
                     => Bundle[n] \in Seen(t)
<1>1. MemoryIsTrue(t) /\ MissesNothing(t)
  BY DEF OwnInv
<1>2. Base(t) \subseteq Shown /\ Seen(t) \subseteq Shown
  BY <1>1 DEF MemoryIsTrue, Base, Seen
<1>3. ASSUME ~lagged
      PROVE  /\ arriving = {}
             /\ \A n \in run[t].pos..Len(Bundle) :
                   KindOf[Bundle[n]] # "credential" /\ shown[Bundle[n]] > 0
                     => Bundle[n] \in Seen(t)
  <2>1. run[t].pos \in 1..(Len(Bundle) + 1)
    BY DEF OwnInv, MergedOnce, TypeOK
  <2>2. \A n \in run[t].pos..Len(Bundle) : Bundle[n] \in Items
    BY <2>1, BundleItems
  <2> QED
    BY <1>1, <1>3, <2>2 DEF MissesNothing, Seen, Shown
<1> QED
  BY <1>2, <1>3

\* The Resource the run is at.
Reading(t, i) ==
  At(t, "read") /\ run[t].pos \in 1..Len(Bundle) /\ i = Bundle[run[t].pos]

\* A head in the bundle has been gone past when a revision of it is read.
LEMMA HeadComesFirst ==
  ASSUME MigrationAssumption, OwnInv, NEW t \in Tabs, NEW i \in Items, Reading(t, i),
         KindOf[i] = "revision"
  PROVE  /\ Subject[i] \in Contacts /\ HeadIsTrue(t, Subject[i])
         /\ run[t].head[Subject[i]] \in Outcomes
         /\ run[t].head[Subject[i]] # "none" <=> InBundle(Subject[i])
<1>1. Subject[i] \in Contacts
  BY DEF MigrationAssumption, Contacts
<1>2. HeadIsTrue(t, Subject[i])
  BY <1>1 DEF OwnInv, MemoryIsTrue
<1>3. InBundle(Subject[i]) <=> Passed(t, Subject[i])
  BY BundleItems DEF Reading, InBundle, Passed, MigrationAssumption
<1>4. run[t].head[Subject[i]] \in Outcomes
  BY <1>1 DEF OwnInv, MergedOnce, TypeOK
<1> QED
  BY <1>1, <1>2, <1>3, <1>4 DEF HeadIsTrue

\* What is let in is new to the account, and is let in under its head.
LEMMA AcceptedIsNew ==
  ASSUME MigrationAssumption, OwnInv, NEW t \in Tabs, NEW i \in Items, Reading(t, i),
         OutcomeOf(t, i) = "accepted"
  PROVE  /\ ~lagged => shown[i] = 0 /\ i \notin arriving
         /\ KindOf[i] = "revision" =>
              \/ shown[Subject[i]] > 0
              \/ stands[Subject[i]] = "other" /\ ~InBundle(Subject[i])
         /\ KindOf[i] = "created" => stands[Subject[i]] # "created"
<1>0. /\ shown[i] \in Nat
      /\ KindOf[i] \in {"credential", "contact", "revision", "created"}
      /\ arriving \subseteq Contacts
  BY DEF OwnInv, MergedOnce, TypeOK, MigrationAssumption
<1>1. CASE KindOf[i] = "credential"
  BY <1>0, <1>1 DEF OutcomeOf, CredentialOutcome, Contacts
<1>2. CASE KindOf[i] # "credential"
  <2>1. i \notin Seen(t)
    BY <1>0, <1>2 DEF OutcomeOf, ContactOutcome, RevisionOutcome, CreatedOutcome
  <2>2. ~lagged => shown[i] = 0 /\ i \notin arriving
    <3>1. run[t].pos \in run[t].pos..Len(Bundle)
      BY BundleItems DEF Reading
    <3> QED
      BY <1>0, <1>2, <2>1, <3>1, SnapshotIsTrue DEF Reading
  <2>3. ASSUME KindOf[i] = "revision"
        PROVE  \/ shown[Subject[i]] > 0
               \/ stands[Subject[i]] = "other" /\ ~InBundle(Subject[i])
    <3>1. HeadLets(t, Subject[i])
      BY <2>3 DEF OutcomeOf, RevisionOutcome
    <3>2. Seen(t) \subseteq Shown
      BY SnapshotIsTrue DEF Reading
    <3> QED
      BY <2>3, <3>1, <3>2, HeadComesFirst DEF HeadLets, HeadIsTrue, Outcomes, Shown
  <2>4. KindOf[i] = "created" => stands[Subject[i]] # "created"
    BY DEF OutcomeOf, CreatedOutcome, HasCreate
  <2> QED
    BY <2>2, <2>3, <2>4
<1> QED
  BY <1>1, <1>2

\* What is not let in, while nothing failed, either stands or should not.
LEMMA LeftForAReason ==
  ASSUME MigrationAssumption, OwnInv, NEW t \in Tabs, NEW i \in Items, Reading(t, i),
         OutcomeOf(t, i) # "accepted", failures = 0, Importable(i)
  PROVE  Landed(i)
<1>0. /\ KindOf[i] \in {"credential", "contact", "revision", "created"}
      /\ Base(t) \subseteq Shown /\ Seen(t) \subseteq Shown
  BY SnapshotIsTrue DEF MigrationAssumption, Reading
<1>1. CASE KindOf[i] = "credential"
  BY <1>1 DEF OutcomeOf, CredentialOutcome, Landed
<1>2. CASE KindOf[i] = "contact"
  BY <1>0, <1>2 DEF OutcomeOf, ContactOutcome, Landed, Importable, Shown
<1>3. CASE KindOf[i] = "revision"
  <2>1. CASE i \in Seen(t)
    BY <1>0, <2>1 DEF Shown, Landed
  <2>2. CASE ~HeadLets(t, Subject[i])
    <3>1. stands[Subject[i]] \in {"nothing", "other"}
      BY <1>3 DEF Importable
    <3>2. InBundle(Subject[i]) => stands[Subject[i]] = "nothing"
      BY <1>3 DEF Importable
    <3>3. ~InBundle(Subject[i]) => stands[Subject[i]] = "other"
      BY <1>3 DEF Importable
    <3> QED
      BY <1>3, <2>2, <3>1, <3>2, <3>3, HeadComesFirst DEF HeadLets, HeadIsTrue
  <2> QED
    BY <1>3, <2>1, <2>2 DEF OutcomeOf, RevisionOutcome
<1>4. CASE KindOf[i] = "created"
  <2>1. HasCreate(t, Subject[i]) \/ i \in Seen(t)
    BY <1>4 DEF OutcomeOf, CreatedOutcome
  <2>2. stands[Subject[i]] # "created"
    BY <1>4 DEF Importable
  <2> QED
    BY <1>0, <1>4, <2>1, <2>2 DEF HasCreate, Landed, Shown
<1> QED
  BY <1>0, <1>1, <1>2, <1>3, <1>4

\* The two ways a Resource is gone past: with the outcome of the merge rules,
\* or with a write that failed, behind which it may have landed.
Answered(t, i, o) ==
  /\ o = OutcomeOf(t, i) /\ Passes(t, i, o, o = "accepted") /\ UNCHANGED failures
  /\ IF o = "accepted" THEN Writes(i) ELSE UNCHANGED shown
Failed(t, i, o) ==
  /\ o = "failed" /\ OutcomeOf(t, i) = "accepted" /\ Passes(t, i, o, FALSE) /\ Spend
  /\ Writes(i) \/ UNCHANGED shown

LEMMA ImportIs ==
  ASSUME MigrationAssumption, OwnInv, NEW t \in Tabs, Import(t)
  PROVE  \E i \in Items, o \in Outcomes \ {"none"} :
           Reading(t, i) /\ (Answered(t, i, o) \/ Failed(t, i, o))
<1> DEFINE i == Bundle[run[t].pos]
<1>1. run[t].pos \in 1..Len(Bundle) /\ i \in Items
  <2>1. run[t].pos \in 1..(Len(Bundle) + 1)
    BY DEF OwnInv, MergedOnce, TypeOK
  <2> QED
    BY <2>1, BundleItems DEF Import
<1>2. Reading(t, i)
  BY <1>1 DEF Import, Reading
<1>3. OutcomeOf(t, i) \in Outcomes \ {"none"}
  BY DEF OutcomeOf, CredentialOutcome, ContactOutcome, RevisionOutcome, CreatedOutcome,
         Outcomes
<1>4. "failed" \in Outcomes \ {"none"}
  BY DEF Outcomes
<1>5. Answered(t, i, OutcomeOf(t, i)) \/ Failed(t, i, "failed")
  BY DEF Import, Answered, Failed
<1> QED
  BY <1>1, <1>2, <1>3, <1>4, <1>5

\* What the run's memory becomes.
IsPast(t, i, o, landed, r) ==
  /\ r.at = "read" /\ r.pos = run[t].pos + 1
  /\ r.snapped = (run[t].snapped \/ KindOf[i] # "credential")
  /\ r.base = IF KindOf[i] = "credential" THEN run[t].base ELSE Base(t)
  /\ r.seen = IF KindOf[i] = "credential" THEN run[t].seen
              ELSE Seen(t) \cup (IF landed THEN {i} ELSE {})
  /\ r.head = IF KindOf[i] = "contact"
              THEN [run[t].head EXCEPT ![i] = o] ELSE run[t].head
  /\ r.id = run[t].id /\ r.others = run[t].others

LEMMA PassesOn ==
  ASSUME MigrationAssumption, TypeOK, NEW t \in Tabs, NEW i \in Items, Reading(t, i),
         NEW o \in Outcomes, NEW landed \in BOOLEAN, Passes(t, i, o, landed)
  PROVE  \E r \in RunType :
           run' = [run EXCEPT ![t] = r] /\ IsPast(t, i, o, landed, r)
<1> DEFINE snaps == run[t].snapped \/ KindOf[i] # "credential"
           bases == IF KindOf[i] = "credential" THEN run[t].base ELSE Base(t)
           sees == IF KindOf[i] = "credential" THEN run[t].seen
                   ELSE Seen(t) \cup (IF landed THEN {i} ELSE {})
           heads == IF KindOf[i] = "contact"
                    THEN [run[t].head EXCEPT ![i] = o] ELSE run[t].head
           r == [run[t] EXCEPT !.pos = @ + 1, !.snapped = snaps, !.base = bases,
                               !.seen = sees, !.head = heads]
<1>1. run \in [Tabs -> RunType] /\ run[t] \in RunType
  BY DEF TypeOK, RunType
<1>2. run' = [run EXCEPT ![t] = r]
  BY <1>1 DEF Passes
<1>3. run[t].pos + 1 \in 1..(Len(Bundle) + 1)
  BY BundleItems DEF Reading
<1>4. snaps \in BOOLEAN
  OBVIOUS
<1>5. bases \subseteq Items /\ sees \subseteq Items
  BY <1>1 DEF Base, Seen, Shown, RunType
<1>6. heads \in [Contacts -> Outcomes]
  <2>1. run[t].head \in [Contacts -> Outcomes]
    BY <1>1 DEF RunType
  <2> QED
    BY <2>1 DEF Contacts
<1>7. run[t].at = "read"
  BY DEF Reading, At
<1> HIDE DEF snaps, bases, sees, heads
<1>8. r \in RunType
  BY <1>1, <1>3, <1>4, <1>5, <1>6 DEF RunType
<1>9. /\ r.at = "read" /\ r.pos = run[t].pos + 1 /\ r.snapped = snaps /\ r.base = bases
      /\ r.seen = sees /\ r.head = heads
      /\ r.id = run[t].id /\ r.others = run[t].others
  BY <1>1, <1>7 DEF RunType
<1> HIDE DEF r
<1> QED
  BY <1>2, <1>8, <1>9 DEF IsPast, snaps, bases, sees, heads

\* What the account holds, once the write is let in.
LEMMA WriteMergesOnce ==
  ASSUME MigrationAssumption, OwnInv, NEW t \in Tabs, NEW i \in Items, Reading(t, i),
         OutcomeOf(t, i) = "accepted", Writes(i),
         UNCHANGED <<arriving, stands, lagged>>
  PROVE  NoSecondCopy' /\ RevisionHasHead' /\ OneCreate'
<1>1. /\ \A j \in Items : shown[j] \in Nat
      /\ \A j \in Items : shown'[j] = IF j = i THEN shown[i] + 1 ELSE shown[j]
  BY DEF Writes, OwnInv, MergedOnce, TypeOK
<1>2. NoSecondCopy /\ RevisionHasHead /\ OneCreate
  BY DEF OwnInv, MergedOnce
<1>3. NoSecondCopy'
  <2>1. ASSUME ~lagged, NEW j \in Items
        PROVE  shown'[j] + (IF j \in arriving THEN 1 ELSE 0) <= 1
    <3>1. shown[j] + (IF j \in arriving THEN 1 ELSE 0) <= 1
      BY <1>2, <2>1 DEF NoSecondCopy
    <3>2. shown[i] = 0 /\ i \notin arriving
      BY <2>1, AcceptedIsNew
    <3> QED
      BY <1>1, <3>1, <3>2
  <2> QED
    BY <2>1 DEF NoSecondCopy
<1>4. RevisionHasHead'
  <2>1. ASSUME NEW j \in Items, KindOf[j] = "revision", shown'[j] > 0
        PROVE  (\/ shown[Subject[j]] > 0
                \/ stands[Subject[j]] = "other" /\ ~InBundle(Subject[j]))'
    <3>1. \/ shown[Subject[j]] > 0
          \/ stands[Subject[j]] = "other" /\ ~InBundle(Subject[j])
      BY <1>1, <1>2, <2>1, AcceptedIsNew DEF RevisionHasHead
    <3>2. Subject[j] \in Items
      BY <2>1 DEF MigrationAssumption
    <3> QED
      BY <1>1, <3>1, <3>2 DEF InBundle
  <2> QED
    BY <2>1 DEF RevisionHasHead
<1>5. OneCreate'
  BY <1>1, <1>2, AcceptedIsNew DEF OneCreate
<1> QED
  BY <1>3, <1>4, <1>5

\* The run goes past a Resource: its memory stays true.
Sorted(t, i, o) ==
  /\ o \in Outcomes \ {"none"}
  /\ o = "accepted" => shown'[i] > 0
  /\ KindOf[i] = "contact" =>
       /\ o = "skipped" => shown[i] > 0
       /\ o = "conflicting" => stands[i] = "other"
       /\ o = "seed-twin" => stands[i] = "twin"
       /\ o = "failed" => failures' > 0

\* The run's next state.
Past(t, i, o, landed) == IsPast(t, i, o, landed, run'[t])

LEMMA PastIsTrue ==
  ASSUME MigrationAssumption, OwnInv, NEW t \in Tabs, NEW i \in Items, Reading(t, i),
         NEW o, NEW landed \in BOOLEAN, Past(t, i, o, landed), Sorted(t, i, o),
         landed => o = "accepted", Grows, failures' \in Nat
  PROVE  MemoryIsTrue(t)'
<1>1. /\ Shown \subseteq Shown' /\ Contacts \subseteq Items
      /\ Base(t) \subseteq Shown /\ Seen(t) \subseteq Shown
      /\ failures \in Nat /\ failures <= failures'
  <2>1. At(t, "read") /\ TypeOK
    BY DEF Reading, OwnInv, MergedOnce
  <2> QED
    BY <2>1, SnapshotIsTrue DEF Shown, Grows, Contacts, TypeOK, MigrationAssumption
<1>2. MemoryIsTrue(t) /\ run[t].pos \in Nat /\ Len(Bundle) \in Nat
  BY BundleItems DEF OwnInv, Reading
<1>3. run'[t].snapped => run'[t].base \subseteq Shown' /\ run'[t].seen \subseteq Shown'
  <2>1. landed => i \in Shown'
    BY DEF Sorted, Shown
  <2>2. CASE KindOf[i] = "credential"
    <3>1. run'[t].base = run[t].base /\ run'[t].seen = run[t].seen
          /\ (run'[t].snapped => run[t].snapped)
      BY <2>2 DEF Past, IsPast
    <3> QED
      BY <1>1, <1>2, <3>1 DEF MemoryIsTrue
  <2>3. CASE KindOf[i] # "credential"
    BY <1>1, <2>1, <2>3 DEF Past, IsPast
  <2> QED
    BY <2>2, <2>3
<1>4. ASSUME NEW c \in Contacts PROVE HeadIsTrue(t, c)'
  <2>1. HeadIsTrue(t, c) /\ run[t].head \in [Contacts -> Outcomes]
    BY <1>2 DEF MemoryIsTrue, OwnInv, MergedOnce, TypeOK
  <2>2. Passed(t, c)' <=> Passed(t, c) \/ c = i
    BY <1>2 DEF Passed, Past, IsPast, Reading
  <2>3. CASE c = i
    <3>1. run'[t].head[c] = o /\ KindOf[i] = "contact"
      BY <2>1, <2>3 DEF Past, IsPast, Contacts
    <3>2. Passed(t, c)' /\ o # "none"
      BY <2>2, <2>3 DEF Sorted
    <3>3. o \in {"accepted", "skipped"} => shown'[c] > 0
      BY <2>3, <3>1 DEF Sorted, Grows
    <3>4. /\ o = "conflicting" => stands'[c] = "other"
          /\ o = "seed-twin" => stands'[c] = "twin"
          /\ o = "failed" => failures' > 0
      BY <2>3, <3>1 DEF Sorted, Grows
    <3> QED
      BY <3>1, <3>2, <3>3, <3>4 DEF HeadIsTrue
  <2>4. CASE c # i
    <3>1. run'[t].head[c] = run[t].head[c]
      BY <2>1, <2>4 DEF Past, IsPast
    <3>2. shown[c] > 0 => shown'[c] > 0
      BY <1>1 DEF Grows
    <3>3. stands' = stands
      BY DEF Grows
    <3>4. failures > 0 => failures' > 0
      BY <1>1
    <3> QED
      BY <2>1, <2>2, <2>4, <3>1, <3>2, <3>3, <3>4 DEF HeadIsTrue
  <2> QED
    BY <2>3, <2>4
<1> QED
  BY <1>3, <1>4 DEF MemoryIsTrue

\* Over a replica in sync the run still overlooks nothing.
LEMMA PastMissesNothing ==
  ASSUME MigrationAssumption, OwnInv, NEW t \in Tabs, NEW i \in Items, Reading(t, i),
         NEW o, NEW landed, Past(t, i, o, landed), UNCHANGED <<arriving, lagged>>,
         \A j \in Items : j # i => shown'[j] = shown[j]
  PROVE  MissesNothing(t)'
<1>0. At(t, "read") /\ run[t].pos \in 1..Len(Bundle) /\ i = Bundle[run[t].pos]
      /\ Len(Bundle) \in Nat
  BY BundleItems DEF Reading
<1>1. ASSUME ~lagged, run'[t].snapped, NEW n \in (run[t].pos + 1)..Len(Bundle),
             KindOf[Bundle[n]] # "credential", shown'[Bundle[n]] > 0
      PROVE  Bundle[n] \in run'[t].seen
  <2>1. n \in 1..Len(Bundle) /\ n # run[t].pos /\ n \in run[t].pos..Len(Bundle)
        /\ Bundle[n] \in Items
    BY <1>0, BundleItems
  <2>2. Bundle[n] # i
    BY <1>0, <1>1, <2>1 DEF MigrationAssumption
  <2>3. shown[Bundle[n]] > 0
    BY <1>1, <2>1, <2>2
  <2>4. Bundle[n] \in Seen(t)
    BY <1>0, <1>1, <2>1, <2>3, SnapshotIsTrue
  <2>5. CASE KindOf[i] = "credential"
    <3>1. run[t].snapped /\ run'[t].seen = run[t].seen
      BY <1>1, <2>5 DEF Past, IsPast
    <3> QED
      BY <2>4, <3>1 DEF Seen
  <2>6. CASE KindOf[i] # "credential"
    BY <2>4, <2>6 DEF Past, IsPast
  <2> QED
    BY <2>5, <2>6
<1>2. ~lagged => arriving = {}
  BY <1>0, SnapshotIsTrue
<1> QED
  BY <1>1, <1>2 DEF MissesNothing, Past, IsPast

\* While nothing failed, what has been gone past and let in has landed.
LEMMA PastLanded ==
  ASSUME MigrationAssumption, OwnInv, NEW t \in Tabs, NEW i \in Items, Reading(t, i),
         NEW o, NEW landed, Past(t, i, o, landed), Grows, UNCHANGED failures,
         OutcomeOf(t, i) = "accepted" => shown'[i] > 0
  PROVE  LandedSoFar(t)'
<1>0. At(t, "read") /\ run[t].pos \in 1..Len(Bundle) /\ i = Bundle[run[t].pos]
      /\ Len(Bundle) \in Nat /\ \A n \in 1..Len(Bundle) : Bundle[n] \in Items
  BY BundleItems DEF Reading
<1>1. ASSUME NEW j \in Items PROVE (Landed(j) => Landed(j)') /\ (Importable(j)' <=> Importable(j))
  BY DEF Landed, Importable, InBundle, Grows
<1>2. ASSUME failures = 0, NEW n \in 1..Len(Bundle), n < run[t].pos + 1, Importable(Bundle[n])
      PROVE  Landed(Bundle[n])'
  <2>1. CASE n < run[t].pos
    <3>1. Landed(Bundle[n])
      BY <1>0, <1>2, <2>1 DEF OwnInv, LandedSoFar
    <3> QED
      BY <1>0, <1>1, <3>1
  <2>2. CASE n = run[t].pos
    <3>1. CASE OutcomeOf(t, i) = "accepted"
      BY <1>0, <2>2, <3>1 DEF Landed
    <3>2. CASE OutcomeOf(t, i) # "accepted"
      <4>1. Landed(i)
        BY <1>0, <1>2, <2>2, <3>2, LeftForAReason
      <4> QED
        BY <1>0, <1>1, <2>2, <4>1
    <3> QED
      BY <3>1, <3>2
  <2> QED
    BY <1>0, <1>2, <2>1, <2>2
<1> QED
  BY <1>0, <1>1, <1>2 DEF LandedSoFar, Past, IsPast

\* An outcome is what it says of the account.
LEMMA OutcomeIsTrue ==
  ASSUME MigrationAssumption, OwnInv, NEW t \in Tabs, NEW i \in Items, Reading(t, i),
         NEW o \in Outcomes \ {"none"}, Answered(t, i, o) \/ Failed(t, i, o),
         UNCHANGED stands
  PROVE  /\ Sorted(t, i, o) /\ Grows /\ failures' \in 0..MaxFailures
         /\ shown' \in [Items -> Nat] /\ \A j \in Items : j # i => shown'[j] = shown[j]
<1>0. shown \in [Items -> Nat] /\ failures \in 0..MaxFailures /\ MaxFailures \in Nat
  BY DEF OwnInv, MergedOnce, TypeOK, MigrationAssumption
<1>1. shown' = shown \/ Writes(i)
  BY DEF Answered, Failed
<1>2. /\ shown' \in [Items -> Nat]
      /\ \A j \in Items : j # i => shown'[j] = shown[j]
      /\ \A j \in Items : shown[j] > 0 => shown'[j] > 0
      /\ Writes(i) => shown'[i] > 0
  BY <1>0, <1>1 DEF Writes
<1>3. /\ failures' \in 0..MaxFailures /\ failures <= failures'
      /\ Failed(t, i, o) => failures' > 0
  <2>1. CASE Answered(t, i, o)
    <3>1. failures' = failures /\ ~Failed(t, i, o)
      BY <2>1 DEF Answered, Failed
    <3> QED
      BY <1>0, <3>1
  <2>2. CASE Failed(t, i, o)
    <3>1. failures < MaxFailures /\ failures' = failures + 1
      BY <2>2 DEF Failed, Spend
    <3> QED
      BY <1>0, <3>1
  <2> QED
    BY <2>1, <2>2
<1>4. o = "accepted" => shown'[i] > 0
  BY <1>2 DEF Answered, Failed
<1>5. ASSUME KindOf[i] = "contact", Answered(t, i, o)
      PROVE  /\ o = "skipped" => shown[i] > 0
             /\ o = "conflicting" => stands[i] = "other"
             /\ o = "seed-twin" => stands[i] = "twin"
             /\ o # "failed"
  <2>1. o = ContactOutcome(t, i)
    BY <1>5 DEF Answered, OutcomeOf
  <2>2. Seen(t) \subseteq Shown
    BY SnapshotIsTrue DEF Reading
  <2> QED
    BY <2>1, <2>2 DEF ContactOutcome, Shown
<1>6. Failed(t, i, o) => o = "failed"
  BY DEF Failed
<1>7. Sorted(t, i, o)
  BY <1>3, <1>4, <1>5, <1>6 DEF Sorted
<1>8. Grows
  BY <1>2, <1>3 DEF Grows
<1> QED
  BY <1>2, <1>3, <1>7, <1>8

\* The import of a Resource.
LEMMA ImportKeeps ==
  ASSUME MigrationAssumption, OwnInv, NEW t \in Tabs, Import(t)
  PROVE  OwnInv'
<1>t. TypeOK /\ RunIsTrue(t)
  BY DEF OwnInv, MergedOnce, RunIsTrue
<1>u. UNCHANGED <<arriving, stands, imports, runs, lagged, recorded>>
  BY DEF Import
<1>1. PICK i \in Items, o \in Outcomes \ {"none"} :
        Reading(t, i) /\ (Answered(t, i, o) \/ Failed(t, i, o))
  BY ImportIs
<1>2. PICK landed \in BOOLEAN : Passes(t, i, o, landed) /\ (landed => o = "accepted")
  BY <1>1 DEF Answered, Failed
<1>3. PICK r \in RunType :
        run' = [run EXCEPT ![t] = r] /\ IsPast(t, i, o, landed, r)
  <2>1. o \in Outcomes /\ Reading(t, i)
    BY <1>1
  <2> QED
    BY <1>t, <1>2, <2>1, PassesOn
<1>4. /\ run'[t] = r /\ \A u \in Tabs \ {t} : run'[u] = run[u]
  BY <1>3, <1>t DEF TypeOK
<1>5. Past(t, i, o, landed)
  BY <1>3, <1>4 DEF Past
<1>6. /\ Sorted(t, i, o) /\ Grows /\ failures' \in 0..MaxFailures
      /\ shown' \in [Items -> Nat] /\ \A j \in Items : j # i => shown'[j] = shown[j]
  BY <1>1, <1>u, OutcomeIsTrue
<1>7. TypeOK'
  <2>1. /\ arriving' \subseteq Items /\ imports' \subseteq 1..runs /\ recorded' \in 0..runs
        /\ lagged' \in BOOLEAN /\ r.id \notin r.others /\ r.at # "idle"
    BY <1>t, <1>u, <1>3 DEF TypeOK, IsPast
  <2> QED
    BY <1>t, <1>u, <1>3, <1>6, <2>1, TypeKept
<1>8. NoSecondCopy' /\ RevisionHasHead' /\ OneCreate'
  <2>1. CASE Writes(i)
    <3>1. OutcomeOf(t, i) = "accepted"
      <4>1. CASE Answered(t, i, o) /\ o # "accepted"
        <5>1. shown'[i] = shown[i] /\ shown[i] \in Nat /\ shown'[i] = shown[i] + 1
          BY <2>1, <4>1, <1>t DEF Answered, Writes, TypeOK
        <5> QED
          BY <5>1
      <4> QED
        BY <1>1, <4>1 DEF Answered, Failed
    <3> QED
      BY <1>1, <1>u, <2>1, <3>1, WriteMergesOnce
  <2>2. CASE UNCHANGED shown
    BY <1>u, <2>2, SameContent
  <2> QED
    BY <1>1, <2>1, <2>2 DEF Answered, Failed
<1>9. MemoryIsTrue(t)'
  <2>1. failures' \in Nat
    BY <1>6 DEF MigrationAssumption
  <2> QED
    BY <1>1, <1>2, <1>5, <1>6, <2>1, PastIsTrue
<1>10. MissesNothing(t)'
  BY <1>1, <1>5, <1>6, <1>u, PastMissesNothing
<1>11. LandedSoFar(t)'
  <2>1. CASE Answered(t, i, o)
    <3>1. UNCHANGED failures /\ (OutcomeOf(t, i) = "accepted" => shown'[i] > 0)
      BY <2>1, <1>6 DEF Answered, Sorted
    <3> QED
      BY <1>1, <1>5, <1>6, <3>1, PastLanded
  <2>2. CASE Failed(t, i, o)
    <3>1. failures' # 0
      BY <1>t, <2>2 DEF Failed, Spend, TypeOK, MigrationAssumption
    <3> QED
      BY <3>1 DEF LandedSoFar
  <2> QED
    BY <1>1, <2>1, <2>2
<1>12. RunIsTrue(t)'
  <2>1. RecordsLast(t)'
    BY <1>t, <1>u, <1>5 DEF Import, Past, IsPast, RunIsTrue, RecordsLast, At
  <2>2. Fresh(t)'
    BY <1>5 DEF Fresh, Past, IsPast, At
  <2> QED
    BY <1>9, <1>10, <1>11, <2>1, <2>2 DEF RunIsTrue
<1>13. LastImportStands' /\ Mine(t)
  BY <1>4, <1>5 DEF Import, Past, IsPast, LastImportStands, Mine, At
<1>14. MergedOnce'
  BY <1>7, <1>8, <1>13 DEF MergedOnce
<1> QED
  BY <1>u, <1>12, <1>13, <1>14, TabStep

\* Every step of the account's own half.
LEMMA OwnStep ==
  ASSUME MigrationAssumption, ~Overlap, OwnInv, Next
  PROVE  OwnInv'
<1>1. ASSUME NEW t \in Tabs, Start(t) \/ Step(t) \/ Abort(t)
      PROVE  OwnInv'
  BY <1>1, StartKeeps, SettleKeeps, ImportKeeps, EndsKeeps, RecordKeeps, FindKeeps,
     ClearKeeps, AbortKeeps DEF Step
<1> QED
  BY <1>1, PullKeeps DEF Next

-----------------------------------------------------------------------------
(***************************************************************************)
(* Every step of an app collection's import keeps the invariant.           *)
(***************************************************************************)
CollType ==
  [by : {"nobody", "run", "app"}, kind : {"plain", "encrypted"},
   gen : BOOLEAN, enc : {"none", "governed", "client"}, public : BOOLEAN,
   schema : SUBSET {"archived", "own"}, epoch : 0..MaxEpoch, theirs : BOOLEAN]
AppRunType ==
  [at : {"idle", "read", "check", "ensure", "reread", "recheck", "public",
         "epoch", "declare", "import", "put", "fill", "reap"},
   verdict : {"absent", "stands", "resumes"}, created : BOOLEAN,
   enc : {"none", "governed", "client"}, gen : BOOLEAN, public : BOOLEAN,
   epoch : 0..MaxEpoch, pos : 1..(Len(Archived) + 1), from : 0..MaxEpoch,
   clean : BOOLEAN]

\* The types in two parts: the run's, and the rest.
AccountTyped ==
  /\ archive \in [encrypted : BOOLEAN, public : BOOLEAN, gen : BOOLEAN, indexed : BOOLEAN]
  /\ coll \in CollType
  /\ coll.enc = "governed" <=> coll.epoch > 0
  /\ coll.enc # "none" => coll.kind = "encrypted"
  /\ held \in [Resources -> {"none", "stub", "whole"}]
  /\ sealed \in [Resources -> 0..MaxEpoch]
  /\ \A r \in Resources :
       /\ sealed[r] > 0 <=> held[r] # "none" /\ archive.encrypted
       /\ held[r] = "stub" => r \in Chunked
  /\ app \in [at : {"idle", "ensure", "public", "epoch"}, gen : BOOLEAN, public : BOOLEAN]
  /\ runs \in 0..MaxRuns /\ failures \in 0..MaxFailures

LEMMA AppTypes == A!TypeOK <=> AccountTyped /\ appRun \in AppRunType
  BY DEF A!TypeOK, AccountTyped, CollType, AppRunType

\* The archive stays as it is.
LEMMA SameArchive == ASSUME A!Next PROVE archive' = archive
  BY DEF A!Next, A!Migration, A!Others, A!Start, A!ReadStanding, A!CheckStanding, A!Ensure,
     A!SetPublic, A!InstallFirstEpoch, A!Declare, A!Skip, A!CipherForWrite, A!PutPlain,
     A!Put, A!Fill, A!PutRefused, A!Reap, A!End, A!Fails, A!Abort, A!ProvisionStart,
     A!ProvisionEnsure, A!ProvisionPublic, A!ProvisionEpoch, A!AppWrites, A!Rotate

\* The initial states.
LEMMA AppInit ==
  ASSUME A!Init
  PROVE  AppInv
<1>0. MaxRuns \in Nat /\ MaxEpoch \in Nat \ {0} /\ MaxFailures \in Nat /\ Len(Archived) \in Nat
  BY AppsAssumption DEF A!ImportAssumption
<1>1. archive \in [encrypted : BOOLEAN, public : BOOLEAN, gen : BOOLEAN, indexed : BOOLEAN]
      /\ (archive.encrypted => ~archive.public) /\ (~archive.encrypted => ~archive.indexed)
  BY DEF A!Init
<1>2. /\ coll \in CollType /\ coll.by # "run"
      /\ coll.enc = "governed" <=> coll.epoch > 0
      /\ coll.enc # "none" => coll.kind = "encrypted"
      /\ coll.enc = "none" /\ coll.kind = "encrypted" => ~coll.theirs
      /\ coll.kind = "encrypted" => ~coll.public
  <2>1. CASE coll = A!Absent
    BY <1>0, <2>1 DEF A!Absent, CollType
  <2>2. CASE coll \in A!Shapes
    BY <1>0, <2>2 DEF A!Shapes, CollType
  <2> QED
    BY <2>1, <2>2 DEF A!Init
<1>3. appRun \in AppRunType /\ appRun.at = "idle" /\ appRun.epoch = 0 /\ ~appRun.public
      /\ appRun.clean
  BY <1>0 DEF A!Init, A!Idle, AppRunType
<1>4. /\ app \in [at : {"idle", "ensure", "public", "epoch"}, gen : BOOLEAN, public : BOOLEAN]
      /\ app.at = "idle"
  BY DEF A!Init, A!NoApp
<1>5. \A r \in Resources : held[r] = "none" /\ sealed[r] = 0
  BY DEF A!Init
<1>6. held \in [Resources -> {"none", "stub", "whole"}] /\ sealed \in [Resources -> 0..MaxEpoch]
      /\ runs \in 0..MaxRuns /\ failures \in 0..MaxFailures
  BY <1>0 DEF A!Init
<1>7. A!TypeOK
  BY <1>1, <1>2, <1>3, <1>4, <1>5, <1>6, AppTypes DEF AccountTyped
<1>8. ~A!Imported
  BY <1>5 DEF A!Imported
<1>9. A!FilledIsFinished /\ A!MatchesItsKind /\ MadeAsArchived
  BY <1>2, <1>8 DEF A!FilledIsFinished, A!MatchesItsKind, MadeAsArchived
<1>10. Stood /\ OwnIsFinished
  <2>1. A!Exists \/ coll = A!Absent
    BY DEF A!Init, A!Shapes, A!Exists
  <2> QED
  BY <1>2, <1>3, <1>4, <1>8, <2>1 DEF Stood, OwnIsFinished, OwnMake, Finishings, Writing
<1>11. KindIsRight
  BY <1>1, <1>2, <1>3, <1>4, <1>8 DEF KindIsRight, Writing, TakesPlain, CollType
<1>12. WritesOn /\ PassedWhole
  <2>1. appRun.pos = 1 /\ \A n \in 1..Len(Archived) : ~(n < 1)
    BY <1>0 DEF A!Init, A!Idle
  <2> QED
    BY <1>3, <2>1 DEF WritesOn, PassedWhole
<1> QED
  BY <1>7, <1>9, <1>10, <1>11, <1>12 DEF AppInv

\* A step of the run that changes nothing else.
RunMoves ==
  /\ UNCHANGED <<archive, coll, held, sealed, app>>
  /\ runs' \in 0..MaxRuns /\ failures' \in 0..MaxFailures
  /\ appRun' \in AppRunType

\* It goes past no Resource.
Steady ==
  appRun'.pos = 1 \/ (appRun'.pos = appRun.pos /\ (appRun'.clean => appRun.clean))

LEMMA SteadyKeeps ==
  ASSUME AppInv, UNCHANGED held, Steady
  PROVE  PassedWhole'
<1>1. \A n \in 1..Len(Archived) : ~(n < 1)
  BY AppsAssumption DEF A!ImportAssumption
<1> QED
  BY <1>1 DEF AppInv, Steady, PassedWhole, Whole

LEMMA RunMovesKeeps ==
  ASSUME AppInv, RunMoves, Steady, Stood', OwnIsFinished', KindIsRight', WritesOn'
  PROVE  AppInv'
<1>1. A!TypeOK'
  <2>1. AccountTyped
    BY AppTypes DEF AppInv
  <2>2. AccountTyped' /\ (appRun \in AppRunType)'
    BY <2>1 DEF RunMoves, AccountTyped, CollType, AppRunType
  <2>3. A!TypeOK' <=> AccountTyped' /\ (appRun \in AppRunType)'
    BY DEF A!TypeOK, AccountTyped, CollType, AppRunType
  <2> QED
    BY <2>2, <2>3
<1>2. A!FilledIsFinished' /\ A!MatchesItsKind' /\ MadeAsArchived'
  BY DEF AppInv, RunMoves, A!FilledIsFinished, A!MatchesItsKind, MadeAsArchived, A!Imported
<1>3. PassedWhole'
  BY SteadyKeeps DEF RunMoves
<1> QED
  BY <1>1, <1>2, <1>3 DEF AppInv

\* A run that ends, or never began.
LEMMA AppIdle ==
  AppInv => A!Idle \in AppRunType /\ \A r \in AppRunType : r = A!Idle => r.at = "idle"
<1>1. Len(Archived) \in Nat /\ MaxEpoch \in Nat
  BY AppsAssumption DEF A!ImportAssumption
<1> QED
  BY <1>1 DEF A!Idle, AppRunType

LEMMA AppEnds ==
  ASSUME AppInv, appRun' = A!Idle, UNCHANGED <<archive, coll, held, sealed, app>>,
         runs' \in 0..MaxRuns, failures' \in 0..MaxFailures
  PROVE  AppInv'
<1>1. RunMoves /\ Steady
  BY AppIdle DEF RunMoves, Steady, A!Idle
<1>2. /\ appRun'.at = "idle" /\ ~appRun'.public /\ appRun'.verdict = "absent"
      /\ appRun'.epoch = 0
  BY DEF A!Idle
<1>3. Stood' /\ OwnIsFinished' /\ WritesOn'
  BY <1>2 DEF AppInv, Stood, OwnIsFinished, WritesOn, OwnMake, Finished, A!Imported,
              A!Exists, Writing, Finishings
<1>4. KindIsRight'
  BY <1>2 DEF AppInv, KindIsRight, A!Imported, Writing, TakesPlain
<1> QED
  BY <1>1, <1>3, <1>4, RunMovesKeeps

LEMMA AppStartKeeps ==
  ASSUME AppInv, A!Start
  PROVE  AppInv'
<1> DEFINE r == [A!Idle EXCEPT !.at = "read"]
<1>0. A!Idle \in AppRunType
  BY AppIdle
<1>1. /\ r \in AppRunType /\ r.at = "read" /\ ~r.public /\ r.verdict = "absent"
      /\ r.epoch = 0 /\ r.pos = 1
  BY <1>0 DEF AppRunType, A!Idle
<1>2. appRun' = r /\ UNCHANGED <<archive, coll, held, sealed, app, failures>>
  BY DEF A!Start
<1> HIDE DEF r
<1>3. runs' \in 0..MaxRuns /\ failures' \in 0..MaxFailures
  BY <1>2, AppsAssumption DEF A!Start, AppInv, A!TypeOK, A!ImportAssumption
<1>4. RunMoves /\ Steady
  BY <1>1, <1>2, <1>3 DEF RunMoves, Steady
<1>5. Stood' /\ OwnIsFinished' /\ WritesOn'
  BY <1>1, <1>2 DEF AppInv, Stood, OwnIsFinished, WritesOn, OwnMake, Finished, A!Imported,
                    A!Exists, Writing, Finishings
<1>6. KindIsRight'
  BY <1>1, <1>2 DEF AppInv, KindIsRight, A!Imported, Writing, TakesPlain
<1> QED
  BY <1>4, <1>5, <1>6, RunMovesKeeps

\* The standing collection is read.
LEMMA ReadStandingKeeps ==
  ASSUME AppInv, A!ReadStanding
  PROVE  AppInv'
<1>0. /\ appRun \in AppRunType /\ appRun.at \in {"read", "reread"} /\ coll \in CollType
      /\ UNCHANGED <<archive, coll, held, sealed, app, runs, failures>>
  BY AppTypes DEF A!ReadStanding, AppInv, AccountTyped
<1>1. CASE A!Exists
  <2> DEFINE r == [appRun EXCEPT !.at = IF appRun.at = "read" THEN "check" ELSE "recheck",
                                 !.enc = coll.enc, !.gen = coll.gen]
  <2>1. appRun' = r
    BY <1>1 DEF A!ReadStanding
  <2>2. /\ r \in AppRunType /\ r.at = (IF appRun.at = "read" THEN "check" ELSE "recheck")
        /\ r.verdict = appRun.verdict /\ r.public = appRun.public
        /\ r.epoch = appRun.epoch /\ r.enc = coll.enc /\ r.gen = coll.gen
        /\ r.pos = appRun.pos /\ r.clean = appRun.clean
    BY <1>0 DEF AppRunType, CollType
  <2> HIDE DEF r
  <2>3. RunMoves /\ Steady
    BY <1>0, <2>1, <2>2 DEF RunMoves, Steady, AppInv, A!TypeOK
  <2>4. Stood' /\ OwnIsFinished' /\ WritesOn'
    BY <1>0, <1>1, <2>1, <2>2
    DEF AppInv, Stood, OwnIsFinished, WritesOn, OwnMake, Finished, A!Imported, A!Exists,
        Writing, Finishings
  <2>5. KindIsRight'
    BY <1>0, <2>1, <2>2 DEF AppInv, KindIsRight, A!Imported, Writing, TakesPlain
  <2> QED
    BY <2>3, <2>4, <2>5, RunMovesKeeps
<1>2. CASE ~A!Exists
  <2> DEFINE r == [appRun EXCEPT !.at = "ensure"]
  <2>1. appRun' = r
    BY <1>2 DEF A!ReadStanding
  <2>2. /\ r \in AppRunType /\ r.at = "ensure"
        /\ r.verdict = appRun.verdict /\ r.public = appRun.public
        /\ r.epoch = appRun.epoch
        /\ r.pos = appRun.pos /\ r.clean = appRun.clean
    BY <1>0 DEF AppRunType
  <2> HIDE DEF r
  <2>3. RunMoves /\ Steady
    BY <1>0, <2>1, <2>2 DEF RunMoves, Steady, AppInv, A!TypeOK
  <2>r. appRun.at = "read" /\ appRun.verdict = "absent"
    BY <1>0, <1>2 DEF AppInv, Stood
  <2>4. Stood' /\ OwnIsFinished' /\ WritesOn'
    BY <1>0, <1>2, <2>1, <2>2, <2>r
    DEF AppInv, Stood, OwnIsFinished, WritesOn, OwnMake, Finished, A!Imported, A!Exists,
        Writing, Finishings
  <2>5. KindIsRight'
    BY <1>0, <2>1, <2>2, <2>r DEF AppInv, KindIsRight, A!Imported, Writing, TakesPlain
  <2> QED
    BY <2>3, <2>4, <2>5, RunMovesKeeps
<1> QED
  BY <1>1, <1>2

\* What stands is judged.
LEMMA CheckStandingKeeps ==
  ASSUME AppInv, A!CheckStanding
  PROVE  AppInv'
<1>0. /\ appRun \in AppRunType /\ appRun.at \in {"check", "recheck"} /\ coll \in CollType
      /\ UNCHANGED <<archive, coll, held, sealed, app, runs, failures>>
      /\ runs \in 0..MaxRuns /\ failures \in 0..MaxFailures
  BY AppTypes DEF A!CheckStanding, AppInv, AccountTyped
<1>1. CASE A!Refuses
  BY <1>0, <1>1, AppEnds DEF A!CheckStanding
<1>2. CASE ~A!Refuses
  <2> DEFINE r == [appRun EXCEPT
                    !.at = IF appRun.at = "check" THEN "ensure" ELSE A!Finishing,
                    !.verdict = IF A!ResumesOwnCreate THEN "resumes" ELSE "stands",
                    !.public = coll.public]
  <2>1. appRun' = r
    BY <1>2 DEF A!CheckStanding
  <2>2. /\ r \in AppRunType /\ r.at = (IF appRun.at = "check" THEN "ensure" ELSE A!Finishing)
        /\ r.verdict = (IF A!ResumesOwnCreate THEN "resumes" ELSE "stands")
        /\ r.public = coll.public
        /\ r.epoch = appRun.epoch
        /\ r.pos = appRun.pos /\ r.clean = appRun.clean
    BY <1>0 DEF AppRunType, CollType, A!Finishing
  <2> HIDE DEF r
  <2>3. RunMoves /\ Steady
    BY <1>0, <2>1, <2>2 DEF RunMoves, Steady
  <2>4. Stood'
    BY <1>0, <2>1, <2>2
    DEF AppInv, Stood, A!Imported, A!Exists, Finishings, A!Finishing
  <2>5. WritesOn'
    BY <1>0, <2>1, <2>2 DEF WritesOn, Writing, A!Finishing
  <2>6. OwnIsFinished'
    <3>1. ASSUME OwnMake, r.verdict = "stands" PROVE Finished
      <4>1. appRun.gen = archive.gen /\ archive.gen
        BY <1>0, <3>1 DEF AppInv, Stood, MadeAsArchived, OwnMake
      <4>2. A!Imported
        BY <2>2, <3>1, <4>1 DEF A!ResumesOwnCreate, A!Holds, A!Imported, OwnMake
      <4> QED
        BY <3>1, <4>2 DEF AppInv, OwnIsFinished
    <3> QED
      BY <1>0, <2>1, <2>2, <3>1
      DEF AppInv, OwnIsFinished, OwnMake, Finished, A!Imported, Writing, Finishings, A!Finishing
  <2>7. KindIsRight'
    <3>1. ASSUME ~archive.encrypted PROVE TakesPlain
      <4>1. coll.enc = "none" /\ appRun.gen = coll.gen
        BY <1>0, <1>2, <3>1 DEF A!Refuses, AppInv, Stood
      <4>2. CASE A!ResumesOwnCreate
        BY <4>1, <4>2 DEF A!ResumesOwnCreate, TakesPlain
      <4>3. CASE ~A!ResumesOwnCreate
        <5>1. A!Holds \/ coll.public
          BY <1>2, <3>1, <4>3 DEF A!Refuses
        <5> QED
          BY <1>0, <3>1, <4>1, <5>1
          DEF AppInv, KindIsRight, A!Holds, A!Imported, TakesPlain, CollType
      <4> QED
        BY <4>2, <4>3
    <3> QED
      BY <1>0, <2>1, <2>2, <3>1
      DEF AppInv, KindIsRight, A!Imported, Writing, TakesPlain, A!Finishing
  <2> QED
    BY <2>3, <2>4, <2>5, <2>6, <2>7, RunMovesKeeps
<1> QED
  BY <1>1, <1>2

\* A step that changes the collection, and the run or the app.
LEMMA CollMoves ==
  ASSUME AppInv, coll' \in CollType, appRun' \in AppRunType,
         app' \in [at : {"idle", "ensure", "public", "epoch"}, gen : BOOLEAN, public : BOOLEAN],
         UNCHANGED <<archive, held, sealed>>,
         runs' \in 0..MaxRuns, failures' \in 0..MaxFailures,
         coll'.enc = "governed" <=> coll'.epoch > 0,
         coll'.enc # "none" => coll'.kind = "encrypted", Steady,
         Stood', OwnIsFinished', KindIsRight', WritesOn', MadeAsArchived'
  PROVE  AppInv'
<1>1. A!TypeOK'
  <2>1. AccountTyped
    BY AppTypes DEF AppInv
  <2>2. AccountTyped' /\ (appRun \in AppRunType)'
    BY <2>1 DEF AccountTyped, CollType, AppRunType
  <2>3. A!TypeOK' <=> AccountTyped' /\ (appRun \in AppRunType)'
    BY DEF A!TypeOK, AccountTyped, CollType, AppRunType
  <2> QED
    BY <2>2, <2>3
<1>2. A!FilledIsFinished'
  BY DEF OwnIsFinished, OwnMake, Finished, A!FilledIsFinished
<1>3. A!MatchesItsKind'
  BY DEF KindIsRight, TakesPlain, A!MatchesItsKind
<1> QED
  BY <1>1, <1>2, <1>3, SteadyKeeps DEF AppInv

\* A collection just created, by the run or by the app.
IsCreated(by, gen) ==
  /\ coll' \in CollType /\ coll'.by = by /\ coll'.gen = gen
  /\ coll'.enc = "none" /\ coll'.epoch = 0 /\ ~coll'.public /\ coll'.schema = {}
  /\ ~coll'.theirs /\ coll'.kind = (IF archive.encrypted THEN "encrypted" ELSE "plain")

LEMMA CreatedIs ==
  ASSUME NEW by \in {"run", "app"}, NEW gen \in BOOLEAN, coll' = A!Created(by, gen)
  PROVE  IsCreated(by, gen)
<1>1. coll' = [by |-> by, kind |-> A!Kind, gen |-> gen, enc |-> "none", public |-> FALSE,
               schema |-> {}, epoch |-> 0, theirs |-> FALSE]
  BY DEF A!Created, A!Absent
<1>2. A!Kind = (IF archive.encrypted THEN "encrypted" ELSE "plain")
      /\ A!Kind \in {"plain", "encrypted"}
  BY DEF A!Kind
<1>3. 0 \in 0..MaxEpoch
  BY AppsAssumption DEF A!ImportAssumption
<1> QED
  BY <1>1, <1>2, <1>3 DEF IsCreated, CollType

\* The guarded create.
LEMMA EnsureKeeps ==
  ASSUME AppInv, A!Ensure
  PROVE  AppInv'
<1>0. /\ appRun \in AppRunType /\ appRun.at = "ensure" /\ coll \in CollType
      /\ UNCHANGED <<archive, held, sealed, app, runs>>
      /\ runs \in 0..MaxRuns /\ failures \in 0..MaxFailures
      /\ app \in [at : {"idle", "ensure", "public", "epoch"}, gen : BOOLEAN, public : BOOLEAN]
      /\ archive.gen \in BOOLEAN
  BY AppTypes DEF A!Ensure, AppInv, AccountTyped
<1>1. CASE A!Exists
  <2>0. UNCHANGED <<coll, failures>>
    BY <1>1 DEF A!Ensure
  <2>1. CASE appRun' = A!Idle
    BY <1>0, <2>0, <2>1, AppEnds
  <2>2. CASE appRun' # A!Idle
    <3> DEFINE to == IF appRun.verdict = "absent" THEN "reread" ELSE A!Finishing
               r == [appRun EXCEPT !.at = to]
    <3>1. appRun' = r
      BY <1>1, <2>2 DEF A!Ensure
    <3>2. /\ r \in AppRunType /\ r.at = to
          /\ r.verdict = appRun.verdict
          /\ r.public = appRun.public /\ r.epoch = appRun.epoch
        /\ r.pos = appRun.pos /\ r.clean = appRun.clean
      BY <1>0 DEF AppRunType, A!Finishing
    <3> HIDE DEF r
    <3>3. RunMoves /\ Steady
      BY <1>0, <2>0, <3>1, <3>2 DEF RunMoves, Steady
    <3>4. Stood'
      BY <1>0, <1>1, <2>0, <3>1, <3>2
      DEF AppInv, Stood, A!Imported, A!Exists, Finishings, A!Finishing
    <3>5. WritesOn'
      BY <1>0, <2>0, <3>1, <3>2 DEF WritesOn, Writing, A!Finishing
    <3>6. OwnIsFinished'
      BY <1>0, <2>0, <3>1, <3>2
      DEF AppInv, OwnIsFinished, OwnMake, Finished, A!Imported, Writing, Finishings, A!Finishing
    <3>7. KindIsRight'
      BY <1>0, <2>0, <3>1, <3>2
      DEF AppInv, KindIsRight, A!Imported, Writing, TakesPlain, A!Finishing
    <3> QED
      BY <3>3, <3>4, <3>5, <3>6, <3>7, RunMovesKeeps
  <2> QED
    BY <2>1, <2>2
<1>2. CASE ~A!Exists
  <2>1. coll' = A!Created("run", archive.gen)
    BY <1>2 DEF A!Ensure
  <2>2. IsCreated("run", archive.gen)
    BY <1>0, <2>1, CreatedIs
  <2>3. appRun.verdict = "absent" /\ ~A!Imported /\ ~appRun.public
    BY <1>0, <1>2 DEF AppInv, Stood, A!Absent
  <2>4. app.at \notin {"public", "epoch"} /\ (~archive.encrypted => appRun.epoch = 0)
    BY <1>0, <1>2 DEF AppInv, Stood, KindIsRight
  <2>5. /\ appRun' \in AppRunType /\ ~appRun'.public /\ Steady
        /\ ~archive.encrypted => appRun'.epoch = 0
        /\ \/ appRun'.at = A!Finishing /\ appRun'.created
           \/ appRun'.at = "idle"
        /\ appRun'.verdict = "absent"
        /\ failures' \in 0..MaxFailures
    <3>1. CASE appRun' = A!Idle /\ A!Spend
      <4>1. failures' \in 0..MaxFailures
        BY <1>0, <3>1, AppsAssumption DEF A!Spend, A!ImportAssumption
      <4> QED
        BY <3>1, <4>1, AppIdle DEF A!Idle, Steady
    <3>2. CASE ~(appRun' = A!Idle /\ A!Spend)
      <4>1. appRun' = [appRun EXCEPT !.at = A!Finishing, !.created = TRUE]
            /\ failures' = failures
        BY <1>2, <3>2 DEF A!Ensure
      <4> QED
        BY <1>0, <2>3, <2>4, <4>1 DEF AppRunType, A!Finishing, Steady
    <3> QED
      BY <3>1, <3>2
  <2>6. Stood' /\ MadeAsArchived'
    BY <1>0, <2>2, <2>3, <2>4, <2>5
    DEF Stood, MadeAsArchived, IsCreated, A!Imported, A!Exists, A!Finishing, Finishings
  <2>7. OwnIsFinished'
    BY <1>0, <2>3, <2>5
    DEF OwnIsFinished, OwnMake, Finished, A!Imported, A!Finishing, Writing, Finishings
  <2>8. KindIsRight'
    BY <1>0, <2>2, <2>3, <2>4, <2>5
    DEF AppInv, KindIsRight, IsCreated, A!Imported, TakesPlain, A!Finishing, Writing
  <2>9. WritesOn'
    BY <2>5 DEF WritesOn, Writing, A!Finishing
  <2> QED
    BY <1>0, <2>2, <2>5, <2>6, <2>7, <2>8, <2>9, CollMoves DEF IsCreated
<1> QED
  BY <1>1, <1>2

\* The collection's settings.
LEMMA SetPublicKeeps ==
  ASSUME AppInv, A!SetPublic
  PROVE  AppInv'
<1> DEFINE r == [appRun EXCEPT !.at = "import"]
<1>0. /\ appRun \in AppRunType /\ appRun.at = "public" /\ coll \in CollType
      /\ UNCHANGED <<archive, held, sealed, app, runs, failures>>
      /\ runs \in 0..MaxRuns /\ failures \in 0..MaxFailures
      /\ app \in [at : {"idle", "ensure", "public", "epoch"}, gen : BOOLEAN, public : BOOLEAN]
      /\ coll.enc = "governed" <=> coll.epoch > 0
      /\ coll.enc # "none" => coll.kind = "encrypted"
  BY AppTypes DEF A!SetPublic, AppInv, AccountTyped
<1>1. appRun' = r
  BY DEF A!SetPublic, A!Goes
<1>2. /\ r \in AppRunType /\ r.at = "import" /\ r.verdict = appRun.verdict
      /\ r.public = appRun.public /\ r.epoch = appRun.epoch /\ r.clean = appRun.clean
      /\ r.pos = appRun.pos
  BY <1>0 DEF AppRunType
<1> HIDE DEF r
<1>3. /\ coll' \in CollType /\ coll'.by = coll.by /\ coll'.kind = coll.kind
      /\ coll'.gen = coll.gen /\ coll'.enc = coll.enc /\ coll'.schema = coll.schema
      /\ coll'.epoch = coll.epoch /\ coll'.theirs = coll.theirs
      /\ coll.public => coll'.public
      /\ A!Finishes /\ archive.public /\ ~appRun.public => coll'.public
  BY <1>0 DEF A!SetPublic, CollType
<1>4. Stood' /\ MadeAsArchived'
  BY <1>0, <1>1, <1>2, <1>3
  DEF AppInv, Stood, MadeAsArchived, A!Imported, A!Exists, Finishings, CollType
<1>5. ~archive.encrypted /\ ~archive.indexed
  BY <1>0 DEF AppInv, KindIsRight
<1>6. OwnMake => Finished'
  <2>1. CASE appRun.verdict = "stands"
    BY <1>0, <1>3, <2>1 DEF AppInv, OwnIsFinished, Finished, Finishings
  <2>2. CASE appRun.verdict # "stands"
    <3>1. A!Finishes
      BY <1>0, <2>2 DEF AppInv, Stood, A!Finishes, Finishings, AppRunType
    <3> QED
      BY <1>0, <1>3, <1>5, <3>1 DEF AppInv, Stood, Finished
  <2> QED
    BY <2>1, <2>2
<1>7. OwnIsFinished'
  BY <1>0, <1>1, <1>2, <1>3, <1>6
  DEF OwnIsFinished, OwnMake, A!Imported, Writing, Finishings
<1>8. KindIsRight'
  BY <1>0, <1>1, <1>2, <1>3, <1>5 DEF AppInv, KindIsRight, A!Imported, TakesPlain, Writing
<1>9. WritesOn'
  BY <1>1, <1>2 DEF WritesOn
<1>10. Steady
  BY <1>1, <1>2 DEF Steady
<1> QED
  BY <1>0, <1>10, <1>1, <1>2, <1>3, <1>4, <1>7, <1>8, <1>9, CollMoves

\* A collection brought under its log, or left there.
GovernedNow ==
  /\ coll' \in CollType /\ coll'.by = coll.by /\ coll'.gen = coll.gen
  /\ coll'.public = coll.public /\ coll'.schema = coll.schema /\ coll'.theirs = coll.theirs
  /\ coll'.enc = "governed" /\ coll'.epoch > 0 /\ coll'.kind = "encrypted"

LEMMA GovernedIs ==
  ASSUME AppInv, coll' = A!Governed(coll)
  PROVE  GovernedNow
<1>1. AccountTyped /\ 1 \in 0..MaxEpoch
  BY AppTypes, AppsAssumption DEF AppInv, A!ImportAssumption
<1>2. CASE coll.epoch > 0
  BY <1>1, <1>2 DEF A!Governed, AccountTyped, GovernedNow
<1>3. CASE ~(coll.epoch > 0)
  <2> DEFINE c == [coll EXCEPT !.kind = "encrypted", !.enc = "governed", !.epoch = 1]
  <2>1. coll' = c
    BY <1>3 DEF A!Governed
  <2>2. coll \in CollType
    BY <1>1 DEF AccountTyped
  <2>3. /\ c \in CollType /\ c.by = coll.by /\ c.gen = coll.gen
        /\ c.public = coll.public /\ c.schema = coll.schema /\ c.theirs = coll.theirs
        /\ c.enc = "governed" /\ c.epoch = 1 /\ c.kind = "encrypted"
    BY <1>1, <2>2 DEF CollType
  <2> HIDE DEF c
  <2> QED
    BY <2>1, <2>3 DEF GovernedNow
<1> QED
  BY <1>2, <1>3

LEMMA InstallFirstEpochKeeps ==
  ASSUME AppInv, A!InstallFirstEpoch
  PROVE  AppInv'
<1> DEFINE r == [appRun EXCEPT !.at = "declare", !.epoch = coll'.epoch]
<1>0. /\ appRun \in AppRunType /\ appRun.at = "epoch"
      /\ UNCHANGED <<archive, held, sealed, app, runs, failures>>
      /\ runs \in 0..MaxRuns /\ failures \in 0..MaxFailures
      /\ app \in [at : {"idle", "ensure", "public", "epoch"}, gen : BOOLEAN, public : BOOLEAN]
  BY AppTypes DEF A!InstallFirstEpoch, AppInv, AccountTyped
<1>1. GovernedNow /\ appRun' = r
  BY GovernedIs DEF A!InstallFirstEpoch
<1>2. /\ r \in AppRunType /\ r.at = "declare" /\ r.verdict = appRun.verdict
      /\ r.public = appRun.public /\ r.created = appRun.created
      /\ r.pos = appRun.pos /\ r.clean = appRun.clean
  BY <1>0, <1>1 DEF AppRunType, GovernedNow, CollType
<1> HIDE DEF r
<1>3. archive.encrypted
  BY <1>0 DEF AppInv, KindIsRight
<1>4. Stood' /\ MadeAsArchived'
  BY <1>0, <1>1, <1>2
  DEF GovernedNow, AppInv, Stood, MadeAsArchived, A!Imported, A!Exists, Finishings
<1>5. OwnIsFinished'
  BY <1>0, <1>1, <1>2
  DEF GovernedNow, AppInv, OwnIsFinished, OwnMake, Finished, A!Imported, Writing, Finishings
<1>6. KindIsRight'
  BY <1>0, <1>1, <1>2, <1>3 DEF GovernedNow, AppInv, KindIsRight
<1>7. WritesOn' /\ Steady
  BY <1>1, <1>2 DEF WritesOn, Steady
<1> QED
  BY <1>0, <1>1, <1>2, <1>4, <1>5, <1>6, <1>7, CollMoves DEF GovernedNow

LEMMA DeclareKeeps ==
  ASSUME AppInv, A!Declare
  PROVE  AppInv'
<1> DEFINE r == [appRun EXCEPT !.at = "import"]
<1>0. /\ appRun \in AppRunType /\ appRun.at = "declare" /\ coll \in CollType
      /\ UNCHANGED <<archive, held, sealed, app, runs, failures>>
      /\ runs \in 0..MaxRuns /\ failures \in 0..MaxFailures
      /\ app \in [at : {"idle", "ensure", "public", "epoch"}, gen : BOOLEAN, public : BOOLEAN]
      /\ coll.enc = "governed" <=> coll.epoch > 0
      /\ coll.enc # "none" => coll.kind = "encrypted"
  BY AppTypes DEF A!Declare, AppInv, AccountTyped
<1>1. appRun' = r
  BY DEF A!Declare, A!Goes
<1>2. /\ r \in AppRunType /\ r.at = "import" /\ r.verdict = appRun.verdict
      /\ r.public = appRun.public /\ r.epoch = appRun.epoch /\ r.clean = appRun.clean
      /\ r.pos = appRun.pos
  BY <1>0 DEF AppRunType
<1> HIDE DEF r
<1>3. /\ coll' \in CollType /\ coll'.by = coll.by /\ coll'.kind = coll.kind
      /\ coll'.gen = coll.gen /\ coll'.enc = coll.enc /\ coll'.public = coll.public
      /\ coll'.epoch = coll.epoch /\ coll'.theirs = coll.theirs
      /\ coll.schema \subseteq coll'.schema
      /\ coll'.schema \subseteq coll.schema \cup {"archived"}
      /\ A!Declares /\ archive.indexed => "archived" \in coll'.schema
  BY <1>0 DEF A!Declare, CollType
<1>4. Stood' /\ MadeAsArchived'
  BY <1>0, <1>1, <1>2, <1>3
  DEF AppInv, Stood, MadeAsArchived, A!Imported, A!Exists, Finishings, CollType
<1>5. archive.encrypted /\ ~archive.public
  BY <1>0 DEF AppInv, KindIsRight
<1>6. OwnMake => Finished'
  <2>1. CASE appRun.verdict = "stands"
    BY <1>0, <1>3, <2>1 DEF AppInv, OwnIsFinished, Finished, Finishings
  <2>2. CASE appRun.verdict # "stands"
    <3>1. A!Finishes
      BY <1>0, <2>2 DEF AppInv, Stood, A!Finishes, Finishings, AppRunType
    <3>2. OwnMake => coll.schema \subseteq {"archived"}
      BY <1>0 DEF AppInv, MadeAsArchived, OwnMake, CollType
    <3>3. CASE coll.schema = {}
      BY <1>0, <1>3, <1>5, <3>1, <3>3 DEF A!Declares, Finished
    <3>4. CASE coll.schema # {}
      BY <1>0, <1>3, <1>5, <3>2, <3>4 DEF Finished
    <3> QED
      BY <3>3, <3>4
  <2> QED
    BY <2>1, <2>2
<1>7. OwnIsFinished'
  BY <1>0, <1>1, <1>2, <1>3, <1>6
  DEF OwnIsFinished, OwnMake, A!Imported, Writing, Finishings
<1>8. KindIsRight'
  BY <1>0, <1>1, <1>2, <1>3, <1>5 DEF AppInv, KindIsRight, A!Imported, Writing
<1>9. WritesOn' /\ Steady
  BY <1>1, <1>2 DEF WritesOn, Steady
<1> QED
  BY <1>0, <1>1, <1>2, <1>3, <1>4, <1>7, <1>8, <1>9, CollMoves

\* The app's own provisioning and its writes, and an epoch rotated elsewhere.
LEMMA ProvisionStartKeeps ==
  ASSUME AppInv, A!ProvisionStart
  PROVE  AppInv'
<1>0. AccountTyped /\ UNCHANGED <<archive, coll, held, sealed, appRun, runs, failures>>
      /\ appRun \in AppRunType
  BY AppTypes DEF A!ProvisionStart, AppInv
<1>1. app' \in [at : {"idle", "ensure", "public", "epoch"}, gen : BOOLEAN, public : BOOLEAN]
      /\ app'.at = "ensure"
  BY DEF A!ProvisionStart
<1>2. Stood' /\ MadeAsArchived' /\ OwnIsFinished'
  BY <1>0, <1>1 DEF AppInv, Stood, MadeAsArchived, OwnIsFinished, OwnMake, Finished,
                    A!Imported, A!Exists
<1>3. KindIsRight' /\ WritesOn' /\ Steady
  BY <1>0, <1>1 DEF AppInv, KindIsRight, A!Imported, TakesPlain, WritesOn, Whole, Steady
<1> QED
  BY <1>0, <1>1, <1>2, <1>3, CollMoves DEF AccountTyped

LEMMA ProvisionEnsureKeeps ==
  ASSUME AppInv, A!ProvisionEnsure
  PROVE  AppInv'
<1>0. AccountTyped /\ UNCHANGED <<archive, held, sealed, appRun, runs, failures>>
      /\ appRun \in AppRunType /\ app.gen \in BOOLEAN
  BY AppTypes DEF A!ProvisionEnsure, AppInv, AccountTyped
<1>1. CASE ~A!Exists
  <2>1. IsCreated("app", app.gen)
    BY <1>0, <1>1, CreatedIs DEF A!ProvisionEnsure
  <2>2. /\ app' \in [at : {"idle", "ensure", "public", "epoch"}, gen : BOOLEAN, public : BOOLEAN]
        /\ app'.at = IF archive.encrypted THEN "epoch" ELSE "public"
    BY <1>0, <1>1 DEF A!ProvisionEnsure, AccountTyped
  <2>3. /\ ~A!Imported /\ ~appRun.public
        /\ appRun.at \in {"idle", "read", "ensure"}
        /\ appRun.at = "ensure" => appRun.verdict = "absent"
    BY <1>1 DEF AppInv, Stood, A!Absent
  <2>4. Stood' /\ MadeAsArchived' /\ OwnIsFinished'
    <3>1. coll'.by = "app" /\ A!Exists'
      BY <2>1 DEF IsCreated, A!Exists
    <3>2. MadeAsArchived' /\ OwnIsFinished'
      BY <3>1 DEF MadeAsArchived, OwnIsFinished, OwnMake
    <3>3. Stood'
      BY <1>0, <2>3, <3>1 DEF AppInv, Stood, Finishings
    <3> QED
      BY <3>2, <3>3
  <2>5. KindIsRight' /\ WritesOn' /\ Steady
    BY <1>0, <2>1, <2>2, <2>3
    DEF AppInv, KindIsRight, A!Imported, TakesPlain, WritesOn, Steady, IsCreated, Writing
  <2> QED
    BY <1>0, <2>1, <2>2, <2>4, <2>5, CollMoves DEF AccountTyped, IsCreated
<1>2. CASE A!Exists
  <2>1. /\ app' \in [at : {"idle", "ensure", "public", "epoch"}, gen : BOOLEAN, public : BOOLEAN]
        /\ app'.at = "idle" \/ (app'.at = "epoch" /\ archive.encrypted)
        /\ UNCHANGED coll
    <3>1. app \in [at : {"idle", "ensure", "public", "epoch"}, gen : BOOLEAN, public : BOOLEAN]
      BY <1>0 DEF AccountTyped
    <3>2. /\ UNCHANGED coll
          /\ app' = A!NoApp \/ (archive.encrypted /\ app' = [app EXCEPT !.at = "epoch"])
      <4>1. CASE archive.encrypted /\ coll.enc # "client"
        BY <1>2, <4>1 DEF A!ProvisionEnsure
      <4>2. CASE ~(archive.encrypted /\ coll.enc # "client")
        BY <1>2, <4>2 DEF A!ProvisionEnsure
      <4> QED
        BY <4>1, <4>2
    <3>3. A!NoApp \in [at : {"idle", "ensure", "public", "epoch"}, gen : BOOLEAN, public : BOOLEAN]
          /\ A!NoApp.at = "idle"
      BY DEF A!NoApp
    <3>4. [app EXCEPT !.at = "epoch"]
            \in [at : {"idle", "ensure", "public", "epoch"}, gen : BOOLEAN, public : BOOLEAN]
          /\ [app EXCEPT !.at = "epoch"].at = "epoch"
      BY <3>1
    <3> QED
      BY <3>2, <3>3, <3>4
  <2>2. Stood' /\ MadeAsArchived' /\ OwnIsFinished'
    BY <1>0, <1>2, <2>1 DEF AppInv, Stood, MadeAsArchived, OwnIsFinished, OwnMake, Finished,
                            A!Imported, A!Exists
  <2>3. KindIsRight' /\ WritesOn' /\ Steady
    BY <1>0, <2>1 DEF AppInv, KindIsRight, A!Imported, TakesPlain, WritesOn, Whole, Steady
  <2> QED
    BY <1>0, <2>1, <2>2, <2>3, CollMoves DEF AccountTyped
<1> QED
  BY <1>1, <1>2

LEMMA ProvisionPublicKeeps ==
  ASSUME AppInv, A!ProvisionPublic
  PROVE  AppInv'
<1>0. AccountTyped /\ UNCHANGED <<archive, held, sealed, appRun, runs, failures>>
      /\ appRun \in AppRunType /\ app.at = "public" /\ app.public \in BOOLEAN
      /\ coll \in CollType
  BY AppTypes DEF A!ProvisionPublic, AppInv, AccountTyped
<1>1. /\ app' \in [at : {"idle", "ensure", "public", "epoch"}, gen : BOOLEAN, public : BOOLEAN]
      /\ app'.at = "idle"
  BY DEF A!ProvisionPublic, A!NoApp
<1>2. /\ coll' \in CollType /\ coll'.by = coll.by /\ coll'.kind = coll.kind
      /\ coll'.gen = coll.gen /\ coll'.enc = coll.enc /\ coll'.schema = coll.schema
      /\ coll'.epoch = coll.epoch /\ coll'.theirs = coll.theirs
      /\ coll.public => coll'.public
  BY <1>0 DEF A!ProvisionPublic, CollType
<1>3. Stood'
  BY <1>0, <1>1, <1>2 DEF AppInv, Stood, A!Imported, A!Exists
<1>4. MadeAsArchived' /\ OwnIsFinished'
  BY <1>0, <1>2 DEF AppInv, MadeAsArchived, OwnIsFinished, OwnMake, Finished, A!Imported
<1>5. KindIsRight' /\ WritesOn' /\ Steady
  BY <1>0, <1>1, <1>2 DEF AppInv, KindIsRight, A!Imported, TakesPlain, WritesOn, Whole, Steady
<1> QED
  BY <1>0, <1>1, <1>2, <1>3, <1>4, <1>5, CollMoves DEF AccountTyped

LEMMA ProvisionEpochKeeps ==
  ASSUME AppInv, A!ProvisionEpoch
  PROVE  AppInv'
<1>0. AccountTyped /\ UNCHANGED <<archive, held, sealed, appRun, runs, failures>>
      /\ appRun \in AppRunType /\ app.at = "epoch"
  BY AppTypes DEF A!ProvisionEpoch, AppInv
<1>1. /\ app' \in [at : {"idle", "ensure", "public", "epoch"}, gen : BOOLEAN, public : BOOLEAN]
      /\ app'.at = "idle"
  BY DEF A!ProvisionEpoch, A!NoApp
<1>2. GovernedNow
  BY GovernedIs DEF A!ProvisionEpoch
<1>3. archive.encrypted
  BY <1>0 DEF AppInv, KindIsRight
<1>4. Stood'
  BY <1>0, <1>1, <1>2, <1>3 DEF AppInv, Stood, A!Imported, A!Exists, GovernedNow
<1>5. MadeAsArchived' /\ OwnIsFinished'
  BY <1>0, <1>2
  DEF AppInv, MadeAsArchived, OwnIsFinished, OwnMake, Finished, A!Imported, GovernedNow
<1>6. KindIsRight' /\ WritesOn' /\ Steady
  BY <1>0, <1>1, <1>2, <1>3
  DEF AppInv, KindIsRight, A!Imported, WritesOn, Whole, Steady, GovernedNow
<1> QED
  BY <1>0, <1>1, <1>2, <1>4, <1>5, <1>6, CollMoves DEF AccountTyped, GovernedNow

LEMMA AppWritesKeeps ==
  ASSUME AppInv, A!AppWrites
  PROVE  AppInv'
<1>0. AccountTyped /\ UNCHANGED <<archive, held, sealed, appRun, app, runs, failures>>
      /\ appRun \in AppRunType /\ A!Exists /\ coll.kind = A!Kind /\ coll \in CollType
  BY AppTypes DEF A!AppWrites, AppInv, AccountTyped
<1>2. /\ coll' \in CollType /\ coll'.by = coll.by /\ coll'.kind = coll.kind
      /\ coll'.gen = coll.gen /\ coll'.enc = coll.enc /\ coll'.schema = coll.schema
      /\ coll'.epoch = coll.epoch /\ coll'.public = coll.public /\ coll'.theirs
  BY <1>0 DEF A!AppWrites, CollType
<1>3. Stood'
  BY <1>0, <1>2 DEF AppInv, Stood, A!Imported, A!Exists
<1>4. MadeAsArchived' /\ OwnIsFinished'
  BY <1>0, <1>2 DEF AppInv, MadeAsArchived, OwnIsFinished, OwnMake
<1>5. KindIsRight' /\ WritesOn' /\ Steady
  BY <1>0, <1>2
  DEF AppInv, KindIsRight, A!Imported, TakesPlain, WritesOn, Whole, Steady, A!Kind
<1> QED
  BY <1>0, <1>2, <1>3, <1>4, <1>5, CollMoves DEF AccountTyped

LEMMA RotateKeeps ==
  ASSUME AppInv, A!Rotate
  PROVE  AppInv'
<1>0. AccountTyped /\ UNCHANGED <<archive, held, sealed, appRun, app, runs, failures>>
      /\ appRun \in AppRunType /\ coll.enc = "governed" /\ coll \in CollType
  BY AppTypes DEF A!Rotate, AppInv, AccountTyped
<1>1. coll.epoch + 1 \in 0..MaxEpoch /\ coll.epoch \in Nat
  BY <1>0, AppsAssumption DEF A!Rotate, CollType, A!ImportAssumption
<1>2. GovernedNow
  BY <1>0, <1>1 DEF A!Rotate, CollType, GovernedNow, AccountTyped
<1>3. A!Exists
  BY <1>0 DEF AppInv, Stood, A!Absent
<1>4. Stood'
  BY <1>0, <1>2, <1>3 DEF AppInv, Stood, A!Imported, A!Exists, GovernedNow
<1>5. MadeAsArchived' /\ OwnIsFinished'
  BY <1>0, <1>2
  DEF AppInv, MadeAsArchived, OwnIsFinished, OwnMake, Finished, A!Imported, GovernedNow
<1>6. KindIsRight' /\ WritesOn' /\ Steady
  <2>1. coll' \in CollType /\ coll'.kind = coll.kind /\ coll'.enc = coll.enc
        /\ coll'.gen = coll.gen /\ coll'.public = coll.public /\ coll'.theirs = coll.theirs
    BY <1>0, <1>2 DEF GovernedNow, AccountTyped
  <2> QED
    BY <1>0, <2>1 DEF AppInv, KindIsRight, A!Imported, TakesPlain, WritesOn, Whole, Steady
<1> QED
  BY <1>0, <1>2, <1>4, <1>5, <1>6, CollMoves DEF AccountTyped, GovernedNow

-----------------------------------------------------------------------------
(***************************************************************************)
(* The Resources of an app collection.                                     *)
(***************************************************************************)
\* A step at the Resources leaves the collection's settings alone.
HeldTyped ==
  /\ held \in [Resources -> {"none", "stub", "whole"}]
  /\ sealed \in [Resources -> 0..MaxEpoch]
  /\ \A r \in Resources :
       /\ sealed[r] > 0 <=> held[r] # "none" /\ archive.encrypted
       /\ held[r] = "stub" => r \in Chunked

WriteMoves ==
  /\ appRun.at \in Writing /\ appRun'.at \in Writing /\ appRun' \in AppRunType
  /\ appRun'.public = appRun.public
  /\ ~archive.encrypted => appRun'.at = "import" /\ appRun'.epoch = 0
  /\ UNCHANGED <<archive, coll, app, runs>> /\ failures' \in 0..MaxFailures

LEMMA WriteMovesKeeps ==
  ASSUME AppInv, WriteMoves, HeldTyped', WritesOn', PassedWhole'
  PROVE  AppInv'
<1>1. AccountTyped
  BY AppTypes DEF AppInv
<1>2. A!TypeOK'
  <2>1. AccountTyped' /\ (appRun \in AppRunType)'
    BY <1>1 DEF AccountTyped, WriteMoves, HeldTyped, CollType, AppRunType
  <2>2. A!TypeOK' <=> AccountTyped' /\ (appRun \in AppRunType)'
    BY DEF A!TypeOK, AccountTyped, CollType, AppRunType
  <2> QED
    BY <2>1, <2>2
<1>3. A!Exists /\ A!Exists'
  BY DEF AppInv, Stood, WriteMoves, Writing, A!Exists
<1>4. Stood'
  BY <1>3 DEF AppInv, Stood, WriteMoves, Writing, Finishings
<1>5. MadeAsArchived'
  BY DEF AppInv, MadeAsArchived, WriteMoves
<1>6. OwnIsFinished'
  BY DEF AppInv, OwnIsFinished, OwnMake, Finished, WriteMoves, Writing, Finishings
<1>7. KindIsRight'
  BY DEF AppInv, KindIsRight, TakesPlain, WriteMoves, Writing
<1>8. A!FilledIsFinished' /\ A!MatchesItsKind'
  BY <1>6, <1>7 DEF OwnIsFinished, OwnMake, Finished, A!FilledIsFinished, KindIsRight,
                    TakesPlain, A!MatchesItsKind
<1> QED
  BY <1>2, <1>4, <1>5, <1>6, <1>7, <1>8 DEF AppInv

\* Where a run at the Resources is.
AtResource ==
  /\ appRun \in AppRunType /\ HeldTyped /\ Len(Archived) \in Nat
  /\ appRun.pos \in 1..Len(Archived) /\ A!Resource = Archived[appRun.pos]
  /\ A!Resource \in Resources
  /\ runs \in 0..MaxRuns /\ failures \in 0..MaxFailures /\ MaxFailures \in Nat

LEMMA ResourceIs ==
  ASSUME AppInv, A!More
  PROVE  AtResource
<1>1. AccountTyped /\ appRun \in AppRunType
  BY AppTypes DEF AppInv
<1>2. Archived \in Seq(Resources) /\ MaxFailures \in Nat
  BY AppsAssumption DEF A!ImportAssumption
<1>3. Len(Archived) \in Nat /\ \A n \in 1..Len(Archived) : Archived[n] \in Resources
  BY <1>2
<1>4. appRun.pos \in 1..Len(Archived)
  BY <1>1, <1>3 DEF A!More, AppRunType
<1> QED
  BY <1>1, <1>2, <1>3, <1>4 DEF AtResource, A!Resource, HeldTyped, AccountTyped

\* The run goes to another place at the same Resource, or past it.
GoesOnTo(at) ==
  /\ appRun' \in AppRunType /\ appRun'.at = at /\ appRun'.pos = appRun.pos
  /\ appRun'.clean = appRun.clean /\ appRun'.public = appRun.public
  /\ appRun'.epoch = appRun.epoch /\ appRun'.from = appRun.from
GoesPast(clean) ==
  /\ appRun' \in AppRunType /\ appRun'.at = "import" /\ appRun'.pos = appRun.pos + 1
  /\ appRun'.clean = (appRun.clean /\ clean) /\ appRun'.public = appRun.public
  /\ appRun'.epoch = appRun.epoch

LEMMA GoesIs ==
  ASSUME AtResource, NEW at \in {"put", "fill", "reap"}, A!Goes(at)
  PROVE  GoesOnTo(at)
  BY DEF AtResource, A!Goes, GoesOnTo, AppRunType

LEMMA NextResourceIs ==
  ASSUME AtResource, NEW clean \in BOOLEAN, A!NextResource(clean)
  PROVE  GoesPast(clean)
<1> DEFINE r == [appRun EXCEPT !.at = "import", !.pos = @ + 1, !.clean = @ /\ clean]
<1>1. appRun' = r
  BY DEF A!NextResource
<1>2. appRun.pos + 1 \in 1..(Len(Archived) + 1) /\ (appRun.clean /\ clean) \in BOOLEAN
  BY DEF AtResource
<1>3. r \in AppRunType /\ r.at = "import" /\ r.pos = appRun.pos + 1
      /\ r.clean = (appRun.clean /\ clean) /\ r.public = appRun.public
      /\ r.epoch = appRun.epoch
  BY <1>2 DEF AtResource, AppRunType
<1> HIDE DEF r
<1> QED
  BY <1>1, <1>3 DEF GoesPast

\* What a write makes of the Resources.
LEMMA LandsIs ==
  ASSUME AtResource, NEW state \in {"stub", "whole"}, A!Lands(state), UNCHANGED archive,
         appRun.epoch > 0 <=> archive.encrypted, state = "stub" => A!Resource \in Chunked
  PROVE  /\ HeldTyped' /\ held'[A!Resource] = state
         /\ \A r \in Resources : r # A!Resource => held'[r] = held[r]
  BY DEF AtResource, HeldTyped, A!Lands, AppRunType

LEMMA WholeStays ==
  ASSUME AppInv, AtResource, ~Whole(appRun.pos),
         \A r \in Resources : r # A!Resource => held'[r] = held[r]
  PROVE  appRun.clean => \A n \in 1..Len(Archived) : n < appRun.pos => Whole(n)'
<1>1. \A n \in 1..Len(Archived) : Archived[n] \in Resources
  BY AppsAssumption DEF A!ImportAssumption
<1> QED
  BY <1>1 DEF AppInv, PassedWhole, Whole, AtResource

\* The run goes past the Resource with a clean record only if it is whole.
LEMMA PastResource ==
  ASSUME AppInv, AtResource, NEW clean \in BOOLEAN, A!NextResource(clean),
         appRun.at \in Writing, HeldTyped',
         UNCHANGED <<archive, coll, app, runs>>, failures' \in 0..MaxFailures,
         clean => held'[A!Resource] = "whole",
         \A n \in 1..Len(Archived) : Whole(n) => Whole(n)'
  PROVE  AppInv'
<1>1. GoesPast(clean)
  BY NextResourceIs
<1>2. PassedWhole'
  <2>1. ASSUME appRun'.clean, NEW n \in 1..Len(Archived), n < appRun'.pos
        PROVE  Whole(n)'
    <3>1. clean /\ appRun.clean
      BY <1>1, <2>1 DEF GoesPast
    <3>2. n < appRun.pos \/ n = appRun.pos
      BY <1>1, <2>1 DEF GoesPast, AtResource
    <3>3. CASE n < appRun.pos
      BY <3>1, <3>3 DEF AppInv, PassedWhole
    <3>4. CASE n = appRun.pos
      BY <3>1, <3>4 DEF AtResource, Whole
    <3> QED
      BY <3>2, <3>3, <3>4
  <2> QED
    BY <2>1 DEF PassedWhole
<1>3. WriteMoves
  BY <1>1 DEF AppInv, KindIsRight, WriteMoves, GoesPast, Writing
<1>4. WritesOn'
  BY <1>1 DEF GoesPast, WritesOn
<1> QED
  BY <1>2, <1>3, <1>4, WriteMovesKeeps

LEMMA SkipKeeps ==
  ASSUME AppInv, A!Skip
  PROVE  AppInv'
<1>1. AtResource /\ appRun.at \in Writing /\ TRUE \in BOOLEAN
  BY ResourceIs DEF A!Skip, Writing
<1>2. HeldTyped' /\ \A n \in 1..Len(Archived) : Whole(n) => Whole(n)'
  BY <1>1 DEF A!Skip, AtResource, HeldTyped, Whole
<1>3. held'[A!Resource] = "whole"
  BY DEF A!Skip
<1> QED
  BY <1>1, <1>2, <1>3, PastResource DEF A!Skip, AtResource

LEMMA CipherForWriteKeeps ==
  ASSUME AppInv, A!CipherForWrite
  PROVE  AppInv'
<1> DEFINE r == [appRun EXCEPT !.at = "put", !.epoch = coll.epoch, !.from = coll.epoch]
<1>1. AtResource /\ appRun.at = "import"
  BY ResourceIs DEF A!CipherForWrite
<1>2. appRun' = r /\ coll \in CollType
  BY AppTypes DEF A!CipherForWrite, A!WriteEpoch, AppInv, AccountTyped
<1>3. /\ r \in AppRunType /\ r.at = "put" /\ r.epoch = coll.epoch /\ r.from = coll.epoch
      /\ r.pos = appRun.pos /\ r.clean = appRun.clean /\ r.public = appRun.public
  BY <1>1, <1>2 DEF AtResource, AppRunType, CollType
<1> HIDE DEF r
<1>4. archive.encrypted /\ coll.epoch > 0 /\ coll.epoch \in Nat
  <2>1. AccountTyped
    BY AppTypes DEF AppInv
  <2> QED
    BY <1>1, <2>1 DEF A!CipherForWrite, AppInv, KindIsRight, Writing, AccountTyped, CollType
<1>5. WriteMoves
  BY <1>1, <1>2, <1>3, <1>4 DEF A!CipherForWrite, AtResource, WriteMoves, Writing
<1>6. HeldTyped' /\ PassedWhole'
  BY <1>1, <1>2, <1>3
  DEF A!CipherForWrite, AtResource, HeldTyped, AppInv, PassedWhole, Whole
<1>7. WritesOn'
  <2>1. held' = held /\ held[Archived[appRun.pos]] # "whole" /\ appRun.pos <= Len(Archived)
    BY <1>1 DEF A!CipherForWrite, AtResource
  <2>2. /\ appRun'.at = "put" /\ appRun'.pos = appRun.pos
        /\ appRun'.epoch = coll.epoch /\ appRun'.from = coll.epoch
    BY <1>2, <1>3
  <2> QED
    BY <1>4, <2>1, <2>2 DEF WritesOn, Whole
<1> QED
  BY <1>5, <1>6, <1>7, WriteMovesKeeps

\* A write that lands whole, its answer lost or not.
LEMMA LandedKeeps ==
  ASSUME AppInv, AtResource, appRun.at \in Writing, ~Whole(appRun.pos),
         appRun.epoch > 0 <=> archive.encrypted,
         A!Lands("whole"), NEW clean \in BOOLEAN, A!NextResource(clean),
         UNCHANGED <<archive, coll, app, runs>>, failures' \in 0..MaxFailures
  PROVE  AppInv'
<1>1. /\ HeldTyped' /\ held'[A!Resource] = "whole"
      /\ \A r \in Resources : r # A!Resource => held'[r] = held[r]
  BY LandsIs
<1>2. \A n \in 1..Len(Archived) : Archived[n] \in Resources
  BY AppsAssumption DEF A!ImportAssumption
<1>3. \A n \in 1..Len(Archived) : Whole(n) => Whole(n)'
  BY <1>1, <1>2 DEF Whole
<1> QED
  BY <1>1, <1>3, PastResource

LEMMA SpentIs ==
  ASSUME AtResource, UNCHANGED failures \/ A!Spend
  PROVE  failures' \in 0..MaxFailures
<1>1. CASE UNCHANGED failures
  BY <1>1 DEF AtResource
<1>2. CASE A!Spend
  BY <1>2 DEF A!Spend, AtResource
<1> QED
  BY <1>1, <1>2

LEMMA PutPlainKeeps ==
  ASSUME AppInv, A!PutPlain
  PROVE  AppInv'
<1>1. AtResource /\ appRun.at \in Writing
  BY ResourceIs DEF A!PutPlain, Writing
<1>2. /\ ~archive.encrypted /\ appRun.epoch = 0 /\ ~Whole(appRun.pos)
      /\ A!Lands("whole") /\ UNCHANGED <<archive, coll, app, runs>>
  BY <1>1 DEF A!PutPlain, AppInv, KindIsRight, AtResource, Whole
<1>3. \E clean \in BOOLEAN : A!NextResource(clean)
  BY DEF A!PutPlain
<1>4. UNCHANGED failures \/ A!Spend
  BY DEF A!PutPlain
<1>5. failures' \in 0..MaxFailures
  BY <1>1, <1>4, SpentIs
<1> QED
  BY <1>1, <1>2, <1>3, <1>5, LandedKeeps

\* What a Resource being written is.
LEMMA BeingWritten ==
  ASSUME AppInv, appRun.at \in {"put", "fill", "reap"}
  PROVE  /\ AtResource /\ appRun.at \in Writing
         /\ archive.encrypted /\ appRun.epoch > 0 /\ ~Whole(appRun.pos)
         /\ appRun.epoch >= appRun.from
         /\ appRun.at \in {"fill", "reap"} => held[A!Resource] = "stub"
<1>1. A!More
  BY DEF AppInv, WritesOn, A!More
<1>2. AtResource
  BY <1>1, ResourceIs
<1> QED
  BY <1>2 DEF AppInv, KindIsRight, WritesOn, AtResource, Writing

LEMMA FillKeeps ==
  ASSUME AppInv, A!Fill
  PROVE  AppInv'
<1>1. /\ AtResource /\ appRun.at \in Writing /\ ~Whole(appRun.pos)
      /\ archive.encrypted /\ appRun.epoch > 0
  BY BeingWritten DEF A!Fill
<1>2. /\ A!Lands("whole") /\ A!NextResource(TRUE) /\ TRUE \in BOOLEAN
      /\ UNCHANGED <<archive, coll, app, runs>> /\ failures' = failures
  BY DEF A!Fill
<1>3. failures' \in 0..MaxFailures
  BY <1>1, <1>2 DEF AtResource
<1> QED
  BY <1>1, <1>2, <1>3, LandedKeeps

\* A write at the same Resource.
LEMMA SameResource ==
  ASSUME AppInv, AtResource, appRun.at \in {"put", "fill", "reap"},
         NEW at \in {"put", "fill", "reap"}, A!Goes(at), ~Whole(appRun.pos),
         HeldTyped', \A r \in Resources : r # A!Resource => held'[r] = held[r],
         held'[A!Resource] # "whole", at \in {"fill", "reap"} => held'[A!Resource] = "stub",
         UNCHANGED <<archive, coll, app, runs, failures>>
  PROVE  AppInv'
<1>1. GoesOnTo(at)
  BY GoesIs
<1>2. archive.encrypted /\ appRun.epoch > 0 /\ appRun.epoch >= appRun.from
  BY BeingWritten
<1>3. PassedWhole'
  BY <1>1, WholeStays DEF PassedWhole, GoesOnTo
<1>4. WriteMoves
  BY <1>1, <1>2 DEF WriteMoves, GoesOnTo, Writing, AtResource
<1>5. WritesOn'
  <2>1. /\ appRun'.pos = appRun.pos /\ appRun.pos <= Len(Archived)
        /\ A!Resource = Archived[appRun.pos] /\ appRun'.at = at
        /\ appRun'.epoch = appRun.epoch /\ appRun'.from = appRun.from
    BY <1>1 DEF GoesOnTo, AtResource
  <2> QED
    BY <1>2, <2>1 DEF WritesOn, Whole
<1> QED
  BY <1>3, <1>4, <1>5, WriteMovesKeeps

LEMMA PutKeeps ==
  ASSUME AppInv, A!Put
  PROVE  AppInv'
<1>1. /\ AtResource /\ appRun.at \in Writing /\ ~Whole(appRun.pos)
      /\ archive.encrypted /\ appRun.epoch > 0 /\ appRun.at = "put"
      /\ UNCHANGED <<archive, coll, app, runs>>
  BY BeingWritten DEF A!Put
<1>2. CASE A!Resource \in Chunked
  <2>1. A!Lands("stub") /\ A!Goes("fill") /\ UNCHANGED failures
    BY <1>2 DEF A!Put
  <2>2. /\ HeldTyped' /\ held'[A!Resource] = "stub"
        /\ \A r \in Resources : r # A!Resource => held'[r] = held[r]
    BY <1>1, <1>2, <2>1, LandsIs
  <2> QED
    BY <1>1, <2>1, <2>2, SameResource
<1>3. CASE A!Resource \notin Chunked
  <2>1. A!Lands("whole") /\ \E clean \in BOOLEAN : A!NextResource(clean)
    BY <1>3 DEF A!Put
  <2>2. UNCHANGED failures \/ A!Spend
    BY <1>3 DEF A!Put
  <2>3. failures' \in 0..MaxFailures
    BY <1>1, <2>2, SpentIs
  <2> QED
    BY <1>1, <2>1, <2>3, LandedKeeps
<1> QED
  BY <1>2, <1>3

LEMMA PutRefusedKeeps ==
  ASSUME AppInv, A!PutRefused
  PROVE  AppInv'
<1>1. /\ AtResource /\ appRun.at \in Writing /\ ~Whole(appRun.pos) /\ appRun.at = "put"
      /\ UNCHANGED <<archive, coll, held, sealed, app, runs, failures>>
      /\ held[A!Resource] # "none"
  BY BeingWritten DEF A!PutRefused
<1>2. HeldTyped' /\ failures' \in 0..MaxFailures
  BY <1>1 DEF AtResource, HeldTyped
<1>3. held'[A!Resource] = "stub"
  BY <1>1 DEF AtResource, HeldTyped, Whole
<1>4. A!Goes("reap")
  BY <1>1, <1>3 DEF A!PutRefused, A!IsPendingStub
<1> QED
  BY <1>1, <1>2, <1>3, <1>4, SameResource

LEMMA ReapKeeps ==
  ASSUME AppInv, A!Reap
  PROVE  AppInv'
<1>1. /\ AtResource /\ appRun.at = "reap" /\ ~Whole(appRun.pos)
      /\ UNCHANGED <<archive, coll, app, runs, failures>> /\ A!Goes("put")
  BY BeingWritten DEF A!Reap
<1>2. /\ HeldTyped' /\ held'[A!Resource] = "none"
      /\ \A r \in Resources : r # A!Resource => held'[r] = held[r]
  BY <1>1, AppsAssumption DEF A!Reap, AtResource, HeldTyped, A!ImportAssumption
<1> QED
  BY <1>1, <1>2, SameResource

LEMMA FailsKeeps ==
  ASSUME AppInv, A!Fails
  PROVE  AppInv'
<1>1. /\ UNCHANGED <<archive, coll, held, sealed, app, runs>>
      /\ runs' \in 0..MaxRuns /\ failures' \in 0..MaxFailures
  BY AppsAssumption DEF A!Fails, A!Spend, AppInv, A!TypeOK, A!ImportAssumption
<1>2. CASE appRun.at \in Writing
  <2>1. AtResource /\ A!NextResource(FALSE) /\ FALSE \in BOOLEAN
    BY <1>2, ResourceIs DEF A!Fails, Writing
  <2>2. HeldTyped' /\ \A n \in 1..Len(Archived) : Whole(n) => Whole(n)'
    BY <1>1, <2>1 DEF AtResource, HeldTyped, Whole
  <2> QED
    BY <1>1, <1>2, <2>1, <2>2, PastResource
<1>3. CASE appRun.at \notin Writing
  <2>1. appRun' = A!Idle
    BY <1>3 DEF A!Fails, Writing
  <2> QED
    BY <1>1, <2>1, AppEnds
<1> QED
  BY <1>2, <1>3

\* Every step of an app collection's half.
LEMMA AppStep ==
  ASSUME AppInv, A!Next
  PROVE  AppInv'
<1>1. CASE A!End \/ A!Abort
  BY <1>1, AppEnds DEF A!End, A!Abort, AppInv, A!TypeOK
<1>2. CASE A!Migration
  BY <1>1, <1>2, AppStartKeeps, ReadStandingKeeps, CheckStandingKeeps, EnsureKeeps,
     SetPublicKeeps, InstallFirstEpochKeeps, DeclareKeeps, SkipKeeps, CipherForWriteKeeps,
     PutPlainKeeps, PutKeeps, FillKeeps, PutRefusedKeeps, ReapKeeps, FailsKeeps
  DEF A!Migration
<1>3. CASE A!Others
  BY <1>3, ProvisionStartKeeps, ProvisionEnsureKeeps, ProvisionPublicKeeps,
     ProvisionEpochKeeps, AppWritesKeeps, RotateKeeps DEF A!Others
<1> QED
  BY <1>2, <1>3 DEF A!Next

-----------------------------------------------------------------------------
(***************************************************************************)
(* The two halves side by side.                                            *)
(***************************************************************************)
ContentVars == <<vars, apps, half>>

LEMMA OwnStutters ==
  ASSUME OwnInv, UNCHANGED vars
  PROVE  OwnInv'
  BY DEF OwnInv, vars, MergedOnce, TypeOK, NoSecondCopy, RevisionHasHead, OneCreate,
         LastImportStands, Alone, Fresh, MemoryIsTrue, HeadIsTrue, Passed, MissesNothing,
         LandedSoFar, Landed, Importable, RecordsLast, At, InBundle, Shown

LEMMA AppStutters ==
  ASSUME AppInv, UNCHANGED <<archive, coll, held, sealed, appRun, app, runs, failures>>
  PROVE  AppInv'
<1>1. A!TypeOK'
  BY DEF AppInv, A!TypeOK
<1>2. A!FilledIsFinished' /\ A!MatchesItsKind' /\ MadeAsArchived' /\ OwnIsFinished'
  BY DEF AppInv, A!FilledIsFinished, A!MatchesItsKind, A!Imported, MadeAsArchived,
         OwnIsFinished, OwnMake, Finished
<1>3. Stood' /\ KindIsRight'
  BY DEF AppInv, Stood, KindIsRight, TakesPlain, A!Imported, A!Exists
<1>4. WritesOn' /\ PassedWhole'
  BY DEF AppInv, WritesOn, PassedWhole, Whole
<1> QED
  BY <1>1, <1>2, <1>3, <1>4 DEF AppInv

\* An app collection's half, whatever the other one does.
LEMMA AppsInvHolds == Content => []AppsInv
<1>1. ContentInit => AppsInv
  BY AppInit DEF ContentInit, AppsInv
<1>2. AppsInv /\ [ContentNext]_ContentVars => AppsInv'
  <2>1. CASE half = "apps" /\ A!Next
    BY <2>1, AppStep DEF AppsInv
  <2>2. CASE UNCHANGED ContentVars
    BY <2>2, AppStutters DEF AppsInv, ContentVars, vars, apps
  <2> QED
    BY <2>1, <2>2 DEF ContentNext, AppsInv
<1> QED
  BY <1>1, <1>2, PTL DEF Content, ContentVars

LEMMA InvInit == ASSUME MigrationAssumption, ContentInit PROVE Inv
<1>1. CASE half = "own" /\ Init /\ AppsRest
  BY <1>1, OwnInit DEF Inv, AppsInv, OtherRests, AppsRest
<1>2. CASE half = "apps" /\ A!Init /\ OwnRests
  <2>1. Init
    BY <1>2 DEF OwnRests, A!Init, Init
  <2> QED
    BY <1>2, <2>1, OwnInit, AppInit DEF Inv, AppsInv, OtherRests, OwnRests
<1> QED
  BY <1>1, <1>2 DEF ContentInit

\* The runs and failures of the other half change nothing for one that rests.
LEMMA OwnRestsOn ==
  ASSUME MigrationAssumption, OwnInv, OtherRests, half = "apps", UNCHANGED own,
         runs' \in 0..MaxRuns, failures' \in 0..MaxFailures, runs <= runs'
  PROVE  OwnInv'
<1>1. \A t \in Tabs : run[t] = Idle /\ run'[t] = Idle
  BY DEF OtherRests, own
<1>2. UNCHANGED <<shown, arriving, stands, imports, run, lagged, recorded>>
  BY DEF own
<1>3. runs \in Nat /\ runs' \in Nat
  BY DEF OwnInv, MergedOnce, TypeOK, MigrationAssumption
<1>4. TypeOK'
  <2>1. run \in [Tabs -> RunType] /\ RunType \subseteq RunType'
    BY <1>3 DEF OwnInv, MergedOnce, TypeOK, RunType
  <2>2. run' \in [Tabs -> RunType]'
    BY <1>2, <2>1
  <2>3. imports' \subseteq 1..runs' /\ recorded' \in 0..runs'
    BY <1>2, <1>3 DEF OwnInv, MergedOnce, TypeOK
  <2>4. \A t \in Tabs : run'[t].id \notin run'[t].others
    BY <1>1 DEF Idle
  <2> QED
    BY <1>1, <1>2, <2>2, <2>3, <2>4 DEF OwnInv, MergedOnce, TypeOK, RunType
<1>5. NoSecondCopy' /\ RevisionHasHead' /\ OneCreate'
  BY <1>2, SameContent
<1>6. LastImportStands'
  BY <1>2, <1>3 DEF OtherRests, LastImportStands
<1>7. ASSUME NEW t \in Tabs PROVE RunIsTrue(t)'
  BY <1>1, IdleIsTrue
<1>8. Alone' /\ (arriving \subseteq Contacts)'
  BY <1>1, <1>2 DEF OwnInv, Alone, At, Idle, Contacts
<1> QED
  BY <1>4, <1>5, <1>6, <1>7, <1>8 DEF OwnInv, MergedOnce, RunIsTrue

LEMMA RunsGrow == ASSUME AppInv, A!Next PROVE runs <= runs'
<1>1. runs \in Nat
  BY AppsAssumption DEF AppInv, A!TypeOK, A!ImportAssumption
<1>2. runs' = runs \/ runs' = runs + 1
  BY DEF A!Next, A!Migration, A!Others, A!Start, A!ReadStanding, A!CheckStanding, A!Ensure,
     A!SetPublic, A!InstallFirstEpoch, A!Declare, A!Skip, A!CipherForWrite, A!PutPlain,
     A!Put, A!Fill, A!PutRefused, A!Reap, A!End, A!Fails, A!Abort, A!ProvisionStart,
     A!ProvisionEnsure, A!ProvisionPublic, A!ProvisionEpoch, A!AppWrites, A!Rotate
<1> QED
  BY <1>1, <1>2

LEMMA InvStep ==
  ASSUME MigrationAssumption, ~Overlap, Inv, [ContentNext]_ContentVars
  PROVE  Inv'
<1>1. CASE half = "own" /\ Next /\ UNCHANGED apps /\ UNCHANGED half
  BY <1>1, OwnStep DEF Inv, AppsInv, OtherRests, apps
<1>2. CASE half = "apps" /\ A!Next /\ UNCHANGED own /\ UNCHANGED half
  <2>1. AppInv /\ AppInv' /\ runs <= runs'
    BY <1>2, AppStep, RunsGrow DEF Inv, AppsInv
  <2>2. OwnInv'
    BY <1>2, <2>1, OwnRestsOn DEF Inv, AppInv, A!TypeOK
  <2> QED
    BY <1>2, <2>1, <2>2 DEF Inv, AppsInv, OtherRests, own
<1>3. CASE UNCHANGED ContentVars
  <2>1. OwnInv'
    BY <1>3, OwnStutters DEF Inv, ContentVars
  <2>2. AppsInv'
    BY <1>3, AppStutters DEF Inv, AppsInv, ContentVars, vars, apps
  <2> QED
    BY <1>3, <2>1, <2>2 DEF Inv, OtherRests, ContentVars, vars, apps
<1> QED
  BY <1>1, <1>2, <1>3 DEF ContentNext

LEMMA InvHolds == ASSUME ~Overlap PROVE Content => []Inv
<1>1. ContentInit => Inv
  BY InvInit, MigrationAssumption
<1>2. Inv /\ [ContentNext]_ContentVars => Inv'
  BY InvStep, MigrationAssumption
<1> QED
  BY <1>1, <1>2, PTL DEF Content, ContentVars

-----------------------------------------------------------------------------
(***************************************************************************)
(* The theorems.                                                           *)
(***************************************************************************)
\* Whatever the bundle, and however the runs over it are cut short, repeated,
\* or stopped (migrateContent), the account ends up with one of everything,
\* under its head, and one Import activity.
THEOREM ContentMergedOnce == ASSUME ~Overlap PROVE Content => []MergedOnce
<1>1. Inv => MergedOnce
  BY DEF Inv, OwnInv
<1> QED
  BY <1>1, InvHolds, PTL

\* What an app collection holds of the archive it holds as archived, beside the
\* app's own provisioning (ensureImportedAppCollection).
THEOREM AppImportedAsArchived == Content => []ImportedAsArchived
<1>1. AppsInv => ImportedAsArchived
  BY DEF AppsInv, AppInv, ImportedAsArchived
<1> QED
  BY <1>1, AppsInvHolds, PTL

\* A run to the bundle's end whose writes all answered leaves everything the
\* merge rules let in.
LEMMA CleanRunHolds ==
  ASSUME Inv, [ContentNext]_ContentVars, NEW t \in Tabs,
         At(t, "read"), run[t].pos > Len(Bundle), failures = 0,
         NEW n \in 1..Len(Bundle), Importable(Bundle[n])
  PROVE  Landed(Bundle[n])
<1>1. LandedSoFar(t) /\ run[t].pos \in 1..(Len(Bundle) + 1) /\ Len(Bundle) \in Nat
  BY BundleItems, MigrationAssumption DEF Inv, OwnInv, MergedOnce, TypeOK
<1> QED
  BY <1>1 DEF LandedSoFar

\* An Import activity that stands is never the last one removed.
LEMMA ImportStays ==
  ASSUME Inv, [ContentNext]_ContentVars, imports # {}
  PROVE  imports' # {}
<1>1. CASE half = "own" /\ Next
  <2>1. ASSUME NEW t \in Tabs, Clear(t), imports' # imports
        PROVE  imports' # {}
    <3>1. PICK o \in run[t].others : imports' = imports \ {o}
      BY <2>1 DEF Clear
    <3>2. run[t].id \in imports /\ run[t].id \notin run[t].others
      BY <2>1 DEF Inv, OwnInv, RecordsLast, MergedOnce, TypeOK, Clear, At
    <3> QED
      BY <3>1, <3>2
  <2>2. ASSUME NEW t \in Tabs, Record(t)
        PROVE  imports' # {}
    BY <2>2 DEF Record, Recorded
  <2>3. ASSUME NEW t \in Tabs, Start(t) \/ Settle(t) \/ Import(t) \/ Ends(t) \/ Find(t) \/ Abort(t)
        PROVE  imports' = imports
    BY <2>3 DEF Start, Settle, Import, Ends, Find, Abort
  <2> QED
    BY <1>1, <2>1, <2>2, <2>3 DEF Next, Step, Pull
<1>2. CASE imports' = imports
  BY <1>2
<1> QED
  BY <1>1, <1>2 DEF ContentNext, own, ContentVars, vars

\* A Resource is written under the epoch read for it; a clean run goes past
\* whole ones.
LEMMA AppRunIsTrue ==
  ASSUME Inv, [ContentNext]_ContentVars
  PROVE  /\ \A r \in Resources :
              held[r] = "none" /\ held'[r] # "none" /\ archive.encrypted =>
                sealed'[r] >= appRun.from
         /\ appRun.at = "import" /\ ~A!More /\ appRun.clean /\ appRun'.at = "idle" =>
              \A n \in 1..Len(Archived) : held[Archived[n]] = "whole"
<1>1. CASE half = "apps" /\ A!Next
  <2>1. AppInv
    BY <1>1 DEF Inv, AppsInv
  <2>2. ASSUME NEW r \in Resources, held[r] = "none", held'[r] # "none", archive.encrypted
        PROVE  sealed'[r] >= appRun.from
    <3>1. A!Put \/ A!Fill \/ A!PutPlain \/ A!Reap
      BY <1>1, <2>2 DEF A!Next, A!Migration, A!Others, A!Start, A!ReadStanding,
        A!CheckStanding, A!Ensure, A!SetPublic, A!InstallFirstEpoch, A!Declare, A!Skip,
        A!CipherForWrite, A!PutRefused, A!End, A!Fails, A!Abort, A!ProvisionStart,
        A!ProvisionEnsure, A!ProvisionPublic, A!ProvisionEpoch, A!AppWrites, A!Rotate
    <3>2. AtResource /\ appRun.epoch >= appRun.from /\ ~A!PutPlain
      BY <2>1, <2>2, <3>1, BeingWritten DEF A!Put, A!Fill, A!PutPlain, A!Reap
    <3>3. A!Put \/ A!Fill
      BY <2>2, <3>1, <3>2 DEF A!Reap, AtResource, HeldTyped
    <3>4. \E state \in {"stub", "whole"} : A!Lands(state)
      BY <3>3 DEF A!Put, A!Fill
    <3> QED
      BY <2>2, <3>2, <3>4 DEF A!Lands, AtResource, HeldTyped
  <2>3. ASSUME appRun.at = "import", ~A!More, appRun.clean, NEW n \in 1..Len(Archived)
        PROVE  held[Archived[n]] = "whole"
    <3>1. appRun.pos > Len(Archived) /\ appRun.pos \in Nat /\ Len(Archived) \in Nat
      BY <2>1, <2>3, AppsAssumption DEF A!More, AppInv, A!TypeOK, A!ImportAssumption
    <3> QED
      BY <2>1, <2>3, <3>1 DEF AppInv, PassedWhole, Whole
  <2> QED
    BY <2>2, <2>3
<1>2. CASE UNCHANGED <<held, appRun>>
  BY <1>2
<1> QED
  BY <1>1, <1>2 DEF ContentNext, ContentVars, vars, apps

\* A run whose calls all answer (migrateContent, importAppCollectionResource)
\* leaves everything the merge rules let in; what it seals is under no epoch
\* older than the current one it read; and an Import activity once recorded is
\* never lost.
THEOREM NothingIsLost == ASSUME ~Overlap PROVE Content => RunsLoseNothing
<1>1. Inv /\ [ContentNext]_ContentVars =>
        \A t \in Tabs :
          At(t, "read") /\ run[t].pos > Len(Bundle) /\ run'[t].at = "record"
          /\ failures = 0 =>
            \A n \in 1..Len(Bundle) : Importable(Bundle[n]) => Landed(Bundle[n])
  BY CleanRunHolds
<1>2. Inv /\ [ContentNext]_ContentVars => (imports # {} => imports' # {})
  BY ImportStays
<1>3. Inv /\ [ContentNext]_ContentVars =>
        \A r \in Resources :
          held[r] = "none" /\ held'[r] # "none" /\ archive.encrypted =>
            sealed'[r] >= appRun.from
  BY AppRunIsTrue
<1>4. Inv /\ [ContentNext]_ContentVars =>
        (appRun.at = "import" /\ ~A!More /\ appRun.clean /\ appRun'.at = "idle" =>
           \A n \in 1..Len(Archived) : held[Archived[n]] = "whole")
  BY AppRunIsTrue
<1>5. Content => CleanRunImports
  BY <1>1, InvHolds, PTL DEF Content, ContentVars, CleanRunImports
<1>6. Content => ImportNeverLost
  BY <1>2, InvHolds, PTL DEF Content, ContentVars, ImportNeverLost
<1>7. Content => A!SealedFresh
  BY <1>3, InvHolds, PTL DEF Content, ContentVars, A!SealedFresh
<1>8. Content => A!CleanRunLands
  BY <1>4, InvHolds, PTL DEF Content, ContentVars, A!CleanRunLands
<1> QED
  BY <1>5, <1>6, <1>7, <1>8 DEF RunsLoseNothing
====
