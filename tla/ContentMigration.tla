---- MODULE ContentMigration ----
(***************************************************************************)
(* The content migration: the archived Resources of a backup bundle, read  *)
(* in the bundle's order into the account by runs that may be cancelled,   *)
(* killed, stopped by a full Space, and repeated, and the one Import       *)
(* activity that records the last of them.  A Resource stands for its      *)
(* content identity; the account may hold other content under its id.      *)
(***************************************************************************)
EXTENDS Naturals, FiniteSets, Sequences

CONSTANTS
  Items,        \* the archived Resources
  Bundle,       \* a sequence of them, in the migration's order
  KindOf,       \* [Items -> {"credential", "contact", "revision", "created"}]
  Subject,      \* a revision's contact, a created activity's credential
  Tabs,
  Overlap,      \* whether two tabs may migrate at once
  MaxRuns,      \* bound: the runs
  MaxFailures   \* bound: failed writes, stops and timeouts

\* The migration reads a contact's head before its revisions, and everything
\* but a credential once: an id has one Resource.
ASSUME MigrationAssumption ==
  /\ Bundle \in Seq(Items)
  /\ KindOf \in [Items -> {"credential", "contact", "revision", "created"}]
  /\ \A i \in Items :
       /\ KindOf[i] = "revision" => Subject[i] \in Items /\ KindOf[Subject[i]] = "contact"
       /\ KindOf[i] = "created" => Subject[i] \in Items /\ KindOf[Subject[i]] = "credential"
  /\ \A m, n \in 1..Len(Bundle) :
       /\ Bundle[m] = Bundle[n] /\ KindOf[Bundle[m]] # "credential" => m = n
       /\ KindOf[Bundle[n]] = "revision" /\ Bundle[m] = Subject[Bundle[n]] => m < n
  /\ Overlap \in BOOLEAN /\ MaxRuns \in Nat /\ MaxFailures \in Nat

VARIABLES
  shown,     \* how many Resources the browser's store shows of each identity
  arriving,  \* those the account holds and the store has not pulled yet
  stands,    \* what the account's own content is to each archived Resource
  imports,   \* the Import activity's Resources, by the run that wrote them
  run,       \* each tab's run
  runs,      \* the runs begun
  lagged,    \* whether a run began before the replication settled (history)
  recorded,  \* the run whose Import activity was finished last (history)
  failures

vars == <<shown, arriving, stands, imports, run, runs, lagged, recorded, failures>>

Contacts == {i \in Items : KindOf[i] = "contact"}
Outcomes == {"none", "accepted", "skipped", "seed-twin", "conflicting", "failed"}
Idle == [at |-> "idle", pos |-> 1, snapped |-> FALSE, base |-> {}, seen |-> {},
         head |-> [c \in Contacts |-> "none"], id |-> 0, others |-> {}]

\* The types; a run that is not under way keeps nothing.
TypeOK ==
  /\ shown \in [Items -> Nat]
  /\ arriving \subseteq Items
  /\ stands \in [Items -> {"nothing", "other", "twin", "created"}]
  /\ imports \subseteq 1..runs /\ recorded \in 0..runs
  /\ run \in [Tabs ->
       [at : {"idle", "wait", "read", "record", "find", "clear"},
        pos : 1..(Len(Bundle) + 1), snapped : BOOLEAN,
        base : SUBSET Items, seen : SUBSET Items,
        head : [Contacts -> Outcomes], id : 0..runs, others : SUBSET (1..runs)]]
  /\ \A t \in Tabs :
       /\ run[t].at = "idle" => run[t] = Idle
       /\ run[t].id \notin run[t].others
  /\ runs \in 0..MaxRuns /\ lagged \in BOOLEAN /\ failures \in 0..MaxFailures

\* What may stand in the account beside each archived Resource: a contact under
\* its id with other content or the wallet's own seeded twin of it, a Create of
\* its own for a credential.  An earlier migration on another browser may have
\* landed some of the bundle.
Init ==
  /\ stands \in [Items -> {"nothing", "other", "twin", "created"}]
  /\ \A i \in Items :
       /\ stands[i] \in {"other", "twin"} => KindOf[i] = "contact"
       /\ stands[i] = "created" => KindOf[i] = "credential"
  /\ shown = [i \in Items |-> 0]
  /\ arriving \in {{}, {i \in Items : KindOf[i] = "contact" /\ stands[i] = "nothing"}}
  /\ imports = {} /\ runs = 0 /\ recorded = 0
  /\ run = [t \in Tabs |-> Idle]
  /\ lagged = FALSE /\ failures = 0

At(t, at) == run[t].at = at
Goes(t, at) == run' = [run EXCEPT ![t].at = at]
Spend == failures < MaxFailures /\ failures' = failures + 1

\* The replica pulls what it had not shown.
Pull ==
  /\ arriving # {}
  /\ shown' = [i \in Items |-> shown[i] + (IF i \in arriving THEN 1 ELSE 0)]
  /\ arriving' = {}
  /\ UNCHANGED <<stands, imports, run, runs, lagged, recorded, failures>>

(***************************************************************************)
(* A run (migrateContent).                                                 *)
(***************************************************************************)
Start(t) ==
  /\ At(t, "idle") /\ runs < MaxRuns
  /\ Overlap \/ \A u \in Tabs : At(u, "idle")
  /\ runs' = runs + 1
  /\ run' = [run EXCEPT ![t].at = "wait", ![t].id = runs + 1]
  /\ UNCHANGED <<shown, arriving, stands, imports, lagged, recorded, failures>>

\* The wait for the replication, which times out rather than refuse.
Settle(t) ==
  /\ At(t, "wait")
  /\ \/ arriving = {} /\ UNCHANGED <<lagged, failures>>
     \/ Spend /\ lagged' = TRUE
  /\ Goes(t, "read")
  /\ UNCHANGED <<shown, arriving, stands, imports, runs, recorded>>

\* The snapshot of what the account holds, read at the first Resource that
\* needs it, and kept current by the run's own writes.
Shown == {i \in Items : shown[i] > 0}
Base(t) == IF run[t].snapped THEN run[t].base ELSE Shown
Seen(t) == IF run[t].snapped THEN run[t].seen ELSE Shown

\* What each import method makes of a Resource; "accepted" is a write.
CredentialOutcome(t, i) == IF shown[i] > 0 THEN "skipped" ELSE "accepted"

ContactOutcome(t, i) ==
  CASE stands[i] = "twin" -> "seed-twin"
    [] stands[i] = "other" -> "conflicting"
    [] OTHER -> IF i \in Seen(t) THEN "skipped" ELSE "accepted"

\* A revision goes with its head: one that may still land on a later run, one
\* the account's own contact stands for and one nobody holds are left.
\* Mutant of HeadLets: a head whose write failed lets its revisions in.
HeadLetsFailed(t, c) ==
  run[t].head[c] \notin {"conflicting", "seed-twin"}
HeadLets(t, c) ==
  /\ run[t].head[c] \notin {"failed", "conflicting", "seed-twin"}
  /\ run[t].head[c] = "none" => c \in Seen(t) \/ stands[c] = "other"

RevisionOutcome(t, i) ==
  IF i \notin Seen(t) /\ HeadLets(t, Subject[i]) THEN "accepted" ELSE "skipped"

\* A Create the account records already, of its own or from an earlier run, is
\* not joined by the archived one.
HasCreate(t, c) ==
  \/ stands[c] = "created"
  \/ \E a \in Base(t) : KindOf[a] = "created" /\ Subject[a] = c

CreatedOutcome(t, i) ==
  IF HasCreate(t, Subject[i]) \/ i \in Seen(t) THEN "skipped" ELSE "accepted"

OutcomeOf(t, i) ==
  CASE KindOf[i] = "credential" -> CredentialOutcome(t, i)
    [] KindOf[i] = "contact" -> ContactOutcome(t, i)
    [] KindOf[i] = "revision" -> RevisionOutcome(t, i)
    [] OTHER -> CreatedOutcome(t, i)

\* The run goes past a Resource with its outcome.
Passes(t, i, outcome, landed) ==
  LET heads == run[t].head IN
  run' = [run EXCEPT
    ![t].pos = @ + 1,
    ![t].snapped = @ \/ KindOf[i] # "credential",
    ![t].base = IF KindOf[i] = "credential" THEN @ ELSE Base(t),
    ![t].seen = IF KindOf[i] = "credential" THEN @
                ELSE Seen(t) \cup (IF landed THEN {i} ELSE {}),
    ![t].head = IF KindOf[i] = "contact" THEN [heads EXCEPT ![i] = outcome] ELSE @]

Writes(i) == shown' = [shown EXCEPT ![i] = @ + 1]

Import(t) ==
  /\ At(t, "read") /\ run[t].pos <= Len(Bundle)
  /\ LET i == Bundle[run[t].pos]
         outcome == OutcomeOf(t, i)
     IN \/ /\ IF outcome = "accepted" THEN Writes(i) ELSE UNCHANGED shown
           /\ Passes(t, i, outcome, outcome = "accepted")
           /\ UNCHANGED failures
        \/ \* The write fails, or its answer is lost behind it.
           /\ outcome = "accepted" /\ Spend
           /\ Writes(i) \/ UNCHANGED shown
           /\ Passes(t, i, "failed", FALSE)
  /\ UNCHANGED <<arriving, stands, imports, runs, lagged, recorded>>

\* The bundle's end, or the full Space that stops the run.
Ends(t) ==
  /\ At(t, "read")
  /\ \/ run[t].pos > Len(Bundle) /\ UNCHANGED failures
     \/ Spend
  /\ Goes(t, "record")
  /\ UNCHANGED <<shown, arriving, stands, imports, runs, lagged, recorded>>

\* The Import activity: this run's Resource first, and then every other one
\* that carries the activity's id is removed.
Recorded(t) == imports \cup {run[t].id}

Record(t) ==
  /\ At(t, "record")
  /\ imports' = Recorded(t)
  /\ Goes(t, "find")
  /\ UNCHANGED <<shown, arriving, stands, runs, lagged, recorded, failures>>

Others(t) == imports \ {run[t].id}

Find(t) ==
  /\ At(t, "find")
  /\ run' = [run EXCEPT ![t].at = "clear", ![t].others = Others(t)]
  /\ UNCHANGED <<shown, arriving, stands, imports, runs, lagged, recorded, failures>>

Clear(t) ==
  /\ At(t, "clear")
  /\ IF run[t].others = {}
     THEN /\ run' = [run EXCEPT ![t] = Idle]
          /\ recorded' = run[t].id
          /\ UNCHANGED imports
     ELSE \E o \in run[t].others :
            /\ imports' = imports \ {o}
            /\ run' = [run EXCEPT ![t].others = @ \ {o}]
            /\ UNCHANGED recorded
  /\ UNCHANGED <<shown, arriving, stands, runs, lagged, failures>>

\* The user cancels, or closes the tab: no Import activity is written.
Abort(t) ==
  /\ ~At(t, "idle")
  /\ run' = [run EXCEPT ![t] = Idle]
  /\ UNCHANGED <<shown, arriving, stands, imports, runs, lagged, recorded, failures>>

Step(t) ==
  Settle(t) \/ Import(t) \/ Ends(t) \/ Record(t) \/ Find(t) \/ Clear(t)

Next == Pull \/ \E t \in Tabs : Start(t) \/ Step(t) \/ Abort(t)

Spec == Init /\ [][Next]_vars

(***************************************************************************)
(* Properties.                                                             *)
(***************************************************************************)
\* No archived content lands twice, however many runs were cut short or
\* repeated or lost the answer to a write that landed, unless one began over a
\* replica that lagged.
NoSecondCopy ==
  ~lagged => \A i \in Items : shown[i] + (IF i \in arriving THEN 1 ELSE 0) <= 1

\* No archived revision is reachable through no contact, or through a contact
\* that is not the archived one: its head stands in the account, or the account
\* holds that contact and the bundle carries no head for it.
InBundle(i) == \E n \in 1..Len(Bundle) : Bundle[n] = i

RevisionHasHead ==
  \A i \in Items :
    KindOf[i] = "revision" /\ shown[i] > 0 =>
      \/ shown[Subject[i]] > 0
      \/ stands[Subject[i]] = "other" /\ ~InBundle(Subject[i])

\* The account's own record of when it got a credential is never joined by a
\* second, archived one.
OneCreate ==
  \A i \in Items :
    KindOf[i] = "created" /\ shown[i] > 0 => stands[Subject[i]] # "created"

\* The Import activity of the run that finished last is the one that stands.
LastImportStands ==
  (\A t \in Tabs : At(t, "idle")) /\ recorded = runs /\ runs > 0 =>
    imports = {recorded}

\* However many runs were cut short or repeated, and by whichever tab, the
\* account holds one of everything, under its head, and one Import activity.
\* Every variable keeps its shape.
MergedOnce ==
  TypeOK /\ NoSecondCopy /\ RevisionHasHead /\ OneCreate /\ LastImportStands

\* Once an Import activity stands there is never none.
ImportNeverLost == [][imports # {} => imports' # {}]_vars

\* A run that reads to the bundle's end leaves the account with everything the
\* merge rules let in, failed writes made up for by the runs behind them.  Of
\* several Creates the archive has of one credential, some one stands.
Importable(i) ==
  CASE KindOf[i] = "credential" -> TRUE
    [] KindOf[i] = "contact" -> stands[i] = "nothing"
    [] KindOf[i] = "revision" ->
         \/ InBundle(Subject[i]) /\ stands[Subject[i]] = "nothing"
         \/ ~InBundle(Subject[i]) /\ stands[Subject[i]] = "other"
    [] OTHER -> stands[Subject[i]] # "created"

Landed(i) ==
  \/ shown[i] > 0
  \/ /\ KindOf[i] = "created"
     /\ \E a \in Items : KindOf[a] = "created" /\ Subject[a] = Subject[i] /\ shown[a] > 0

CleanRunImports ==
  [][\A t \in Tabs :
       At(t, "read") /\ run[t].pos > Len(Bundle) /\ run'[t].at = "record"
       /\ failures = 0 =>
         \A n \in 1..Len(Bundle) : Importable(Bundle[n]) => Landed(Bundle[n])]_vars
====
