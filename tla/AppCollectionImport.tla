---- MODULE AppCollectionImport ----
(***************************************************************************)
(* The import of one archived app collection into the account: it is       *)
(* created or adopted, a create an earlier run left torn is finished, and  *)
(* its Resources are sealed and written.  Beside the run, the app itself   *)
(* may be provisioned and write, and another tab may rotate the epoch.     *)
(***************************************************************************)
EXTENDS Naturals, Sequences

CONSTANTS
  Resources,    \* the archived Resources
  Archived,     \* a sequence of them, in the archive's order
  Chunked,      \* those stored as a stub, its chunks and the document
  MaxRuns,      \* bound: the runs
  MaxEpoch,     \* bound: the collection's key epochs
  MaxFailures   \* bound: failed calls and lost answers

ImportAssumption ==
  /\ Archived \in Seq(Resources) /\ Chunked \subseteq Resources
  /\ MaxRuns \in Nat /\ MaxEpoch \in Nat \ {0} /\ MaxFailures \in Nat

VARIABLES
  archive,   \* what the bundle says of the collection
  coll,      \* the account's collection: its settings and its maker
  held,      \* how each archived Resource stands in it
  sealed,    \* the epoch each is sealed under, 0 for none
  run,       \* the migration under way
  app,       \* the app's own provisioning, in another tab
  runs, failures

vars == <<archive, coll, held, sealed, run, app, runs, failures>>

Absent == [by |-> "nobody", kind |-> "plain", gen |-> FALSE, enc |-> "none",
           public |-> FALSE, schema |-> {}, epoch |-> 0, theirs |-> FALSE]
Exists == coll.by # "nobody"
Idle == [at |-> "idle", verdict |-> "absent", created |-> FALSE, enc |-> "none",
         gen |-> FALSE, public |-> FALSE, epoch |-> 0, pos |-> 1,
         from |-> 0, clean |-> TRUE]
NoApp == [at |-> "idle", gen |-> FALSE, public |-> FALSE]

\* The types, and what each setting goes with: an epoch with a governing log, a
\* seal with a Resource of an encrypted archive, a stub with a chunked one.
TypeOK ==
  /\ archive \in [encrypted : BOOLEAN, public : BOOLEAN, gen : BOOLEAN, indexed : BOOLEAN]
  /\ coll \in [by : {"nobody", "run", "app"}, kind : {"plain", "encrypted"},
               gen : BOOLEAN, enc : {"none", "governed", "client"},
               public : BOOLEAN, schema : SUBSET {"archived", "own"},
               epoch : 0..MaxEpoch, theirs : BOOLEAN]
  /\ coll.enc = "governed" <=> coll.epoch > 0
  /\ coll.enc # "none" => coll.kind = "encrypted"
  /\ held \in [Resources -> {"none", "stub", "whole"}]
  /\ sealed \in [Resources -> 0..MaxEpoch]
  /\ \A r \in Resources :
       /\ sealed[r] > 0 <=> held[r] # "none" /\ archive.encrypted
       /\ held[r] = "stub" => r \in Chunked
  /\ run \in [at : {"idle", "read", "check", "ensure", "reread", "recheck", "public",
                    "epoch", "declare", "import", "put", "fill", "reap"},
              verdict : {"absent", "stands", "resumes"}, created : BOOLEAN,
              enc : {"none", "governed", "client"}, gen : BOOLEAN, public : BOOLEAN,
              epoch : 0..MaxEpoch, pos : 1..(Len(Archived) + 1),
              from : 0..MaxEpoch, clean : BOOLEAN]
  /\ app \in [at : {"idle", "ensure", "public", "epoch"}, gen : BOOLEAN, public : BOOLEAN]
  /\ runs \in 0..MaxRuns /\ failures \in 0..MaxFailures

\* Every shape a collection may stand in before the first run: none, another
\* app's or the same app's, plain or encrypted, empty, torn before its first
\* epoch or in use, or encrypted under a descriptor a client wrote.
Shapes ==
  {c \in [by : {"app"}, kind : {"plain", "encrypted"}, gen : BOOLEAN,
          enc : {"none", "governed", "client"}, public : BOOLEAN,
          schema : {{}, {"own"}}, epoch : 0..1, theirs : BOOLEAN] :
     /\ c.enc = "governed" <=> c.epoch = 1
     /\ c.enc = "none" /\ c.kind = "encrypted" => ~c.theirs
     /\ c.kind = "plain" => c.enc = "none" /\ c.schema = {}
     /\ c.kind = "encrypted" => ~c.public
     /\ c.schema # {} => c.enc = "governed"}

Init ==
  /\ archive \in [encrypted : BOOLEAN, public : BOOLEAN, gen : BOOLEAN, indexed : BOOLEAN]
  /\ IF archive.encrypted THEN ~archive.public ELSE ~archive.indexed
  /\ coll \in {Absent} \cup Shapes
  /\ held = [r \in Resources |-> "none"]
  /\ sealed = [r \in Resources |-> 0]
  /\ run = Idle /\ app = NoApp
  /\ runs = 0 /\ failures = 0

Kind == IF archive.encrypted THEN "encrypted" ELSE "plain"
Holds == coll.theirs \/ \E r \in Resources : held[r] # "none"
Spend == failures < MaxFailures /\ failures' = failures + 1
Goes(at) == run' = [run EXCEPT !.at = at]
Created(by, gen) ==
  [Absent EXCEPT !.by = by, !.kind = Kind, !.gen = gen]

(***************************************************************************)
(* The run, up to the collection it may write to                           *)
(* (ensureImportedAppCollection).                                          *)
(***************************************************************************)
Start ==
  /\ run.at = "idle" /\ runs < MaxRuns
  /\ runs' = runs + 1 /\ run' = [Idle EXCEPT !.at = "read"]
  /\ UNCHANGED <<archive, coll, held, sealed, app, failures>>

\* The metadata read; `check` then lists what it read of.
ReadStanding ==
  /\ run.at \in {"read", "reread"}
  /\ run' = IF Exists
            THEN [run EXCEPT !.at = IF @ = "read" THEN "check" ELSE "recheck",
                             !.enc = coll.enc, !.gen = coll.gen]
            ELSE [run EXCEPT !.at = "ensure"]
  /\ UNCHANGED <<archive, coll, held, sealed, app, runs, failures>>

\* This migration's own torn create: it carries the archived attribution, and
\* holds nothing.
ResumesOwnCreate == archive.gen /\ run.gen /\ ~Holds

Refuses ==
  IF archive.encrypted
  THEN run.enc = "client" \/ (run.enc = "none" /\ Holds)
  ELSE \/ run.enc # "none"
       \/ coll.public # archive.public /\ ~(ResumesOwnCreate /\ archive.public)
       \/ ~Holds /\ ~coll.public /\ ~ResumesOwnCreate

Finishing == IF archive.encrypted THEN "epoch" ELSE "public"

CheckStanding ==
  /\ run.at \in {"check", "recheck"}
  /\ run' = IF Refuses THEN Idle
            ELSE [run EXCEPT
                    !.at = IF @ = "check" THEN "ensure" ELSE Finishing,
                    !.verdict = IF ResumesOwnCreate THEN "resumes" ELSE "stands",
                    !.public = coll.public]
  /\ UNCHANGED <<archive, coll, held, sealed, app, runs, failures>>

\* The guarded create, whose answer may be lost; a create lost to a rival reads
\* the rival's collection back, unless a client-written descriptor refuses it.
Ensure ==
  /\ run.at = "ensure"
  /\ IF Exists
     THEN /\ run' = IF archive.encrypted /\ coll.enc = "client" THEN Idle
                    ELSE IF run.verdict = "absent" THEN [run EXCEPT !.at = "reread"]
                    ELSE [run EXCEPT !.at = Finishing]
          /\ UNCHANGED <<coll, failures>>
     ELSE /\ coll' = Created("run", archive.gen)
          /\ \/ run' = [run EXCEPT !.at = Finishing, !.created = TRUE]
                /\ UNCHANGED failures
             \/ run' = Idle /\ Spend
  /\ UNCHANGED <<archive, held, sealed, app, runs>>

Finishes == run.created \/ run.verdict = "resumes"

SetPublic ==
  /\ run.at = "public"
  /\ coll' = IF Finishes /\ archive.public /\ ~run.public
             THEN [coll EXCEPT !.public = TRUE] ELSE coll
  /\ Goes("import")
  /\ UNCHANGED <<archive, held, sealed, app, runs, failures>>

\* The first epoch is create-if-absent: a standing roster is adopted.
Governed(c) ==
  IF c.epoch > 0 THEN c ELSE [c EXCEPT !.kind = "encrypted", !.enc = "governed", !.epoch = 1]

InstallFirstEpoch ==
  /\ run.at = "epoch"
  /\ coll' = Governed(coll)
  /\ run' = [run EXCEPT !.at = "declare", !.epoch = coll'.epoch]
  /\ UNCHANGED <<archive, held, sealed, app, runs, failures>>

\* The archived schema, on a collection this run created, or finishes when no
\* earlier run declared it.
\* Mutant of Declares: only the run that created the collection declares.
DeclaresCreated == run.created
Declares == run.created \/ (Finishes /\ coll.schema = {})

Declare ==
  /\ run.at = "declare"
  /\ coll' = IF Declares /\ archive.indexed
             THEN [coll EXCEPT !.schema = @ \cup {"archived"}] ELSE coll
  /\ Goes("import")
  /\ UNCHANGED <<archive, held, sealed, app, runs, failures>>

(***************************************************************************)
(* Its Resources (importAppCollectionResource).                            *)
(***************************************************************************)
Resource == Archived[run.pos]
More == run.pos <= Len(Archived)
NextResource(clean) ==
  run' = [run EXCEPT !.at = "import", !.pos = @ + 1, !.clean = @ /\ clean]

\* A Resource that stands whole is skipped.
Skip ==
  /\ run.at = "import" /\ More /\ held[Resource] = "whole"
  /\ NextResource(TRUE)
  /\ UNCHANGED <<archive, coll, held, sealed, app, runs, failures>>

\* The cipher of this write: the collection's metadata is read, and the cipher
\* rebuilt from the log's head when its epoch has moved.
WriteEpoch == coll.epoch

CipherForWrite ==
  /\ run.at = "import" /\ More /\ archive.encrypted
  /\ held[Resource] # "whole"
  /\ run' = [run EXCEPT !.at = "put", !.epoch = WriteEpoch, !.from = coll.epoch]
  /\ UNCHANGED <<archive, coll, held, sealed, app, runs, failures>>

\* One write, create-if-absent for all but an encrypted JSON Resource, which
\* takes an id of its own; a chunked one begins with its stub.
Lands(state) ==
  /\ held' = [held EXCEPT ![Resource] = state]
  /\ sealed' = [sealed EXCEPT ![Resource] = run.epoch]

PutPlain ==
  /\ run.at = "import" /\ More /\ ~archive.encrypted /\ held[Resource] = "none"
  /\ \/ Lands("whole") /\ NextResource(TRUE) /\ UNCHANGED failures
     \/ Lands("whole") /\ NextResource(FALSE) /\ Spend
  /\ UNCHANGED <<archive, coll, app, runs>>

\* Mutant of IsPendingStub: a stub is not told from an envelope of someone else.
IsPendingStubNever(r) == FALSE
IsPendingStub(r) == held[r] = "stub"

Put ==
  /\ run.at = "put" /\ held[Resource] = "none"
  /\ IF Resource \in Chunked
     THEN Lands("stub") /\ Goes("fill") /\ UNCHANGED failures
     ELSE /\ Lands("whole")
          /\ \/ NextResource(TRUE) /\ UNCHANGED failures
             \/ NextResource(FALSE) /\ Spend
  /\ UNCHANGED <<archive, coll, app, runs>>

Fill ==
  /\ run.at = "fill"
  /\ Lands("whole") /\ NextResource(TRUE)
  /\ UNCHANGED <<archive, coll, app, runs, failures>>

\* The id is taken by what does not decrypt: a pending stub is removed with its
\* chunks and the write tried again, and anything else is left.
PutRefused ==
  /\ run.at = "put" /\ held[Resource] # "none"
  /\ IF IsPendingStub(Resource) THEN Goes("reap") ELSE NextResource(TRUE)
  /\ UNCHANGED <<archive, coll, held, sealed, app, runs, failures>>

Reap ==
  /\ run.at = "reap"
  /\ held' = [held EXCEPT ![Resource] = "none"]
  /\ sealed' = [sealed EXCEPT ![Resource] = 0]
  /\ Goes("put")
  /\ UNCHANGED <<archive, coll, app, runs, failures>>

End ==
  /\ run.at = "import" /\ ~More
  /\ run' = Idle
  /\ UNCHANGED <<archive, coll, held, sealed, app, runs, failures>>

\* A call fails: before the Resources it fails the collection, and there it
\* fails the Resource.
Fails ==
  /\ run.at # "idle" /\ Spend
  /\ IF run.at \in {"import", "put", "fill", "reap"}
     THEN More /\ NextResource(FALSE)
     ELSE run' = Idle
  /\ UNCHANGED <<archive, coll, held, sealed, app, runs>>

\* The user cancels, the Space is full, or the tab closes.
Abort ==
  /\ run.at # "idle" /\ run' = Idle
  /\ UNCHANGED <<archive, coll, held, sealed, app, runs, failures>>

(***************************************************************************)
(* The app, provisioned in another tab with a collection of the archived   *)
(* kind, and an epoch rotated there.                                       *)
(***************************************************************************)
ProvisionStart ==
  /\ app.at = "idle"
  /\ ~(archive.encrypted /\ Exists /\ coll.enc = "none" /\ Holds)
  /\ \E gen, public \in BOOLEAN :
       /\ public => ~archive.encrypted
       /\ app' = [at |-> "ensure", gen |-> gen, public |-> public]
  /\ UNCHANGED <<archive, coll, held, sealed, run, runs, failures>>

ProvisionEnsure ==
  /\ app.at = "ensure"
  /\ \/ /\ ~Exists
        /\ coll' = Created("app", app.gen)
        /\ app' = [app EXCEPT !.at = IF archive.encrypted THEN "epoch" ELSE "public"]
     \/ /\ Exists /\ UNCHANGED coll
        /\ app' = IF archive.encrypted /\ coll.enc # "client"
                  THEN [app EXCEPT !.at = "epoch"] ELSE NoApp
  /\ UNCHANGED <<archive, held, sealed, run, runs, failures>>

ProvisionPublic ==
  /\ app.at = "public"
  /\ coll' = [coll EXCEPT !.public = @ \/ app.public]
  /\ app' = NoApp
  /\ UNCHANGED <<archive, held, sealed, run, runs, failures>>

ProvisionEpoch ==
  /\ app.at = "epoch"
  /\ coll' = Governed(coll)
  /\ app' = NoApp
  /\ UNCHANGED <<archive, held, sealed, run, runs, failures>>

AppWrites ==
  /\ Exists /\ ~coll.theirs /\ coll.kind = Kind
  /\ coll.kind = "encrypted" => coll.enc = "governed"
  /\ coll' = [coll EXCEPT !.theirs = TRUE]
  /\ UNCHANGED <<archive, held, sealed, run, app, runs, failures>>

Rotate ==
  /\ coll.enc = "governed" /\ coll.epoch < MaxEpoch
  /\ coll' = [coll EXCEPT !.epoch = @ + 1]
  /\ UNCHANGED <<archive, held, sealed, run, app, runs, failures>>

Migration ==
  \/ Start \/ ReadStanding \/ CheckStanding \/ Ensure \/ SetPublic
  \/ InstallFirstEpoch \/ Declare \/ Skip \/ CipherForWrite \/ PutPlain
  \/ Put \/ Fill \/ PutRefused \/ Reap \/ End \/ Fails \/ Abort
Others ==
  \/ ProvisionStart \/ ProvisionEnsure \/ ProvisionPublic \/ ProvisionEpoch
  \/ AppWrites \/ Rotate

Next == Migration \/ Others

Spec == Init /\ [][Next]_vars

(***************************************************************************)
(* Properties.                                                             *)
(***************************************************************************)
Imported == \E r \in Resources : held[r] # "none"

\* A collection the migration created and filled has the archived public read
\* and schema, however many runs it took to create it: until the app writes to
\* it, the first Resource is behind the last setting.
FilledIsFinished ==
  coll.by = "run" /\ archive.gen /\ ~coll.theirs /\ Imported =>
    /\ archive.public => coll.public
    /\ archive.indexed => "archived" \in coll.schema

\* No archived plaintext stands where an app's encrypted provision is torn or
\* finished, and no envelope where there is no log to open it by.
MatchesItsKind ==
  Imported =>
    IF archive.encrypted THEN coll.enc = "governed"
    ELSE coll.kind = "plain" \/ (coll.enc = "none" /\ coll.gen)

\* A Resource is sealed under no epoch older than the one that was current when
\* its own import began, though another tab rotates it mid-run.
SealedFresh ==
  [][\A r \in Resources :
       held[r] = "none" /\ held'[r] # "none" /\ archive.encrypted =>
         sealed'[r] >= run.from]_vars

\* A run whose every call answered ends with every Resource whole, what a
\* stopped run left half-written included.
CleanRunLands ==
  [][run.at = "import" /\ ~More /\ run.clean /\ run'.at = "idle" =>
       \A n \in 1..Len(Archived) : held[Archived[n]] = "whole"]_vars
====
