---- MODULE AccountImport ----
(***************************************************************************)
(* The two halves of a content migration, side by side: the wallet's own   *)
(* content (ContentMigration), and one app collection                      *)
(* (AppCollectionImport).  A run takes the halves one after the other, and *)
(* they share nothing but the account.                                     *)
(***************************************************************************)
EXTENDS ContentMigration

CONSTANTS Resources, Archived, Chunked, MaxEpoch   \* of AppCollectionImport

VARIABLES half, archive, coll, held, sealed, appRun, app

A == INSTANCE AppCollectionImport WITH run <- appRun

ASSUME AppsAssumption == A!ImportAssumption

own == <<shown, arriving, stands, imports, run, lagged, recorded>>
apps == <<archive, coll, held, sealed, appRun, app>>

\* The half that is not taken stays as it starts.
OwnRests ==
  /\ shown = [i \in Items |-> 0] /\ arriving = {} /\ imports = {}
  /\ stands = [i \in Items |-> "nothing"] /\ run = [t \in Tabs |-> Idle]
  /\ lagged = FALSE /\ recorded = 0
AppsRest ==
  /\ archive = [encrypted |-> FALSE, public |-> FALSE, gen |-> FALSE, indexed |-> FALSE]
  /\ coll = A!Absent /\ held = [r \in Resources |-> "none"]
  /\ sealed = [r \in Resources |-> 0] /\ appRun = A!Idle /\ app = A!NoApp

ContentInit ==
  \/ half = "own" /\ Init /\ AppsRest
  \/ half = "apps" /\ A!Init /\ OwnRests
ContentNext ==
  /\ \/ half = "own" /\ Next /\ UNCHANGED apps
     \/ half = "apps" /\ A!Next /\ UNCHANGED own
  /\ UNCHANGED half
Content == ContentInit /\ [][ContentNext]_<<vars, apps, half>>

\* What an app collection holds of the archive, it holds as archived, however
\* many runs were cut short, beside the app's own provisioning and its writes.
\* Its variables keep their shape.
ImportedAsArchived ==
  half = "apps" => A!TypeOK /\ A!FilledIsFinished /\ A!MatchesItsKind

\* A run whose calls all answer, and that reads to the end, leaves everything
\* the merge rules let in, what a stopped run left half-written included; what
\* it seals is under no epoch older than one current as it imported it; and
\* once an Import activity stands there is never none.
RunsLoseNothing ==
  CleanRunImports /\ A!CleanRunLands /\ A!SealedFresh /\ ImportNeverLost
====
