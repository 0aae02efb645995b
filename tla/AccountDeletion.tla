---- MODULE AccountDeletion ----
(***************************************************************************)
(* The deletion of an account: the walk over its Spaces, from the confirm  *)
(* that derives the credential to the wipe of the browser, run in several  *)
(* tabs over a server that masks a refusal as an absence, and the removal  *)
(* of what it leaves behind at a later login.                              *)
(***************************************************************************)
EXTENDS Integers, FiniteSets

CONSTANTS
  Tabs,
  Remembered,   \* the tabs whose session is an enrolled client's
  Siblings,     \* the other credentials
  Usable,       \* those whose management zcap admits a DELETE
  Acting,       \* the credential every tab is signed in with
  Account,      \* the account Space
  Replica,      \* the browser's replica of it
  MaxAnnex,     \* bound: the annex Spaces ever minted
  MaxFailures   \* bound: requests that fail, and tabs that close

ASSUME DeletionAssumption ==
  /\ Remembered \subseteq Tabs /\ Usable \subseteq Siblings
  /\ Acting \notin Siblings /\ Replica \notin Siblings \cup {Acting}
  /\ Account \notin Siblings \cup {Acting} \cup Int
  /\ (Siblings \cup {Acting}) \cap Int = {}
  /\ MaxAnnex \in Nat \ {0} /\ MaxFailures \in Nat

VARIABLES
  alive,      \* whether the account Space stands, its log in it
  annex,      \* the annex Spaces that stand
  minted,     \* the annex Spaces the account log's pointer ever named: 1..minted
  unlock,     \* the credentials whose unlock Space stands
  registry,   \* the siblings the unlock-methods registry records
  struck,     \* the account document no longer anchors the acting credential
  local,      \* the local state this browser holds
  session,    \* the annex Space of each tab's generation, or 0 for no session
  run,        \* the walk of each tab
  failures

spaces == <<alive, annex, unlock>>
vars == <<spaces, minted, registry, struck, local, session, run, failures>>

Credentials == Siblings \cup {Acting}
Annexes == 1..MaxAnnex
Spaces == Annexes \cup Credentials \cup {Account}
Grades == {"none", "deleted", "unconfirmed", "unreachable"}
Refusals == {"ladder-vm-not-anchored", "registry-unreadable", "discovery-failed",
             "space-delete-failed"}

NoRun == [at |-> "idle", todo |-> {}, absent |-> {}, reg |-> {}, read |-> FALSE,
          gone |-> FALSE, threw |-> FALSE, again |-> FALSE, known |-> {},
          grade |-> [s \in Spaces |-> "none"],
          landed |-> FALSE, doubt |-> FALSE, failed |-> {}, result |-> "none"]

\* The types, and what the places of the walk have behind them.
TypeOK ==
  /\ {alive, struck} \subseteq BOOLEAN
  /\ minted \in 1..MaxAnnex /\ annex \subseteq 1..minted
  /\ unlock \subseteq Credentials /\ registry \subseteq Siblings
  /\ local \subseteq Credentials \cup {Replica}
  /\ session \in [Tabs -> 0..minted]
  /\ failures \in 0..MaxFailures
  /\ \A t \in Tabs :
       /\ run[t].at \in {"idle", "confirm", "verify", "renew", "registry", "probe",
                         "annex", "unlock", "pivot", "reprobe", "log", "acting",
                         "wipe", "done"}
       /\ run[t].todo \subseteq Spaces /\ run[t].absent \subseteq Spaces
       /\ run[t].reg \subseteq Siblings /\ run[t].known \subseteq Siblings
       /\ run[t].grade \in [Spaces -> Grades]
       /\ run[t].result \in {"none", "wrong-passphrase", "failed", "deleted",
                             "deleted-unverified"} \cup Refusals
       /\ run[t].at \in {"probe", "annex", "unlock", "pivot", "reprobe", "log"} => run[t].read
       /\ run[t].result # "none" <=> run[t].at = "done"

\* An account with one annex Space, its siblings recorded or not yet, and a
\* browser that may hold the state of any of its credentials.
Init ==
  /\ alive = TRUE /\ minted = 1 /\ annex = {1}
  /\ registry \in SUBSET Siblings /\ unlock = registry \cup {Acting}
  /\ struck = FALSE
  /\ local = registry \cup {Acting, Replica}
  /\ session = [t \in Tabs |-> 0]
  /\ run = [t \in Tabs |-> NoRun]
  /\ failures = 0

Spend == failures < MaxFailures /\ failures' = failures + 1
Goes(t, r) == run' = [run EXCEPT ![t] = r]
At(t, place) == Goes(t, [run[t] EXCEPT !.at = place])
Returns(t, result) == Goes(t, [run[t] EXCEPT !.at = "done", !.result = result])
Graded(t, s, g) == [run[t].grade EXCEPT ![s] = g]

\* What the server admits: the credential's ladder key or an enrolled client's,
\* against the account document; and a visit's own requests, whose generation
\* is resolved from its annex Space.
Holds(t) == alive /\ (t \in Remembered \/ ~struck)
Rides(t) == Holds(t) /\ (t \in Remembered \/ session[t] \in annex)

\* Whether a request of tab t finds Space s; a refusal answers as an absence.
Finds(t, s) ==
  \/ s = Account /\ Holds(t)
  \/ s \in annex /\ Holds(t)
  \/ s \in unlock /\ (s = Acting \/ Holds(t))

Deleted(s) ==
  /\ alive' = (alive /\ s # Account)
  /\ annex' = annex \ {s}
  /\ unlock' = unlock \ {s}

\* The grade of a DELETE that answered 404.
\* Mutant of Grade404: an absence the probe saw is taken for a deletion.
Grade404Absent(r, s) ==
  IF s \in r.absent THEN "deleted" ELSE "refuse"
Grade404(r, s) ==
  IF s = Acting /\ ~r.read THEN "unconfirmed"
  ELSE IF s \notin r.absent THEN "refuse"
  ELSE IF r.gone THEN "deleted" ELSE "unconfirmed"

(***************************************************************************)
(* The account's other life.                                               *)
(***************************************************************************)
\* A login with the acting credential mints a fresh annex Space when the pointed
\* one is gone.
\* Mutant of Readies: a pointed Space that is gone is not replaced.
ReadiesNone(t) == UNCHANGED <<annex, minted>> /\ session' = [session EXCEPT ![t] = minted]
Readies(t) ==
  \/ /\ t \in Remembered \/ minted \in annex
     /\ session' = [session EXCEPT ![t] = minted]
     /\ UNCHANGED <<annex, minted>>
  \/ /\ t \notin Remembered /\ minted \notin annex /\ minted < MaxAnnex
     /\ minted' = minted + 1 /\ annex' = annex \cup {minted'}
     /\ session' = [session EXCEPT ![t] = minted']

Enter(t) ==
  /\ run[t].at \in {"idle", "done"}
  /\ session[t] = 0 \/ (t \notin Remembered /\ session[t] \notin annex)
  /\ alive /\ Acting \in unlock /\ (t \in Remembered \/ ~struck)
  /\ Readies(t)
  /\ Goes(t, NoRun)
  /\ UNCHANGED <<alive, unlock, registry, struck, local, failures>>

\* A login with a credential whose account is gone: the removal it is offered.
LoginDead(c) ==
  /\ ~alive /\ c \in unlock
  /\ local' = local \ {c}
  /\ \/ Deleted(c) /\ UNCHANGED failures
     \/ Spend /\ UNCHANGED spaces
  /\ UNCHANGED <<minted, registry, struck, session, run>>

\* Another client records a credential, or strikes the acting one.
AddMethod(c) ==
  /\ alive /\ c \notin registry \cup unlock
  /\ registry' = registry \cup {c} /\ unlock' = unlock \cup {c}
  /\ UNCHANGED <<alive, annex, minted, struck, local, session, run, failures>>

Strike ==
  /\ alive /\ ~struck /\ struck' = TRUE
  /\ UNCHANGED <<spaces, minted, registry, local, session, run, failures>>

CloseTab(t) ==
  /\ session[t] # 0 /\ Spend
  /\ session' = [session EXCEPT ![t] = 0]
  /\ Goes(t, NoRun)
  /\ UNCHANGED <<spaces, minted, registry, struck, local>>

(***************************************************************************)
(* The walk.                                                               *)
(***************************************************************************)
Start(t) ==
  /\ session[t] # 0 /\ run[t].at \in {"idle", "done"}
  /\ run[t].result \notin {"deleted", "deleted-unverified"}
  /\ Goes(t, [NoRun EXCEPT !.at = "confirm", !.known = registry])
  /\ UNCHANGED <<spaces, minted, registry, struck, local, session, failures>>

\* The credential is derived, and its unlock record read.
Confirm(t) ==
  /\ run[t].at = "confirm"
  /\ \/ Acting \in unlock /\ At(t, "verify") /\ UNCHANGED failures
     \/ Acting \notin unlock /\ Returns(t, "wrong-passphrase") /\ UNCHANGED failures
     \/ Spend /\ Returns(t, "failed")
  /\ UNCHANGED <<spaces, minted, registry, struck, local, session>>

\* The account log, verified afresh; a log that is gone ends the remote half.
Verify(t) ==
  /\ run[t].at = "verify"
  /\ \/ /\ ~alive /\ UNCHANGED failures
        /\ Goes(t, [run[t] EXCEPT !.at = "acting", !.gone = TRUE,
                                  !.grade = Graded(t, Account, "deleted")])
     \/ /\ alive /\ t \notin Remembered /\ struck /\ UNCHANGED failures
        /\ Returns(t, "ladder-vm-not-anchored")
     \/ /\ alive /\ (t \in Remembered \/ ~struck) /\ UNCHANGED failures
        /\ Goes(t, [run[t] EXCEPT !.at = IF t \in Remembered THEN "registry" ELSE "renew",
                                  !.todo = 1..minted])
     \/ Spend /\ Returns(t, "discovery-failed")
  /\ UNCHANGED <<spaces, minted, registry, struck, local, session>>

\* The visit's delegation, renewed in its generation's log.
Renew(t) ==
  /\ run[t].at = "renew"
  /\ \/ Rides(t) /\ At(t, "registry") /\ UNCHANGED failures
     \/ ~Rides(t) /\ Returns(t, "discovery-failed") /\ UNCHANGED failures
     \/ Spend /\ Returns(t, "discovery-failed")
  /\ UNCHANGED <<spaces, minted, registry, struck, local, session>>

Masked(t) == Returns(t, "registry-unreadable")

ReadRegistry(t) ==
  /\ run[t].at = "registry"
  /\ \/ /\ Rides(t) /\ UNCHANGED failures
        /\ Goes(t, [run[t] EXCEPT !.at = "probe", !.read = TRUE, !.reg = registry])
     \/ ~Rides(t) /\ Masked(t) /\ UNCHANGED failures
     \/ Spend /\ Returns(t, "registry-unreadable")
  /\ UNCHANGED <<spaces, minted, registry, struck, local, session>>

\* Every Space the walk names is probed.
Probe(t) ==
  /\ run[t].at = "probe"
  /\ \/ /\ Goes(t, [run[t] EXCEPT !.at = "annex",
             !.absent = {s \in run[t].todo \cup {Acting} \cup (run[t].reg \cap Usable) :
                           ~Finds(t, s)}])
        /\ UNCHANGED failures
     \/ Spend /\ Returns(t, "discovery-failed")
  /\ UNCHANGED <<spaces, minted, registry, struck, local, session>>

\* One DELETE before the pivot: its answer, or the lack of one.
DeleteSpace(t, s) ==
  \/ /\ Finds(t, s) /\ Deleted(s) /\ UNCHANGED failures
     /\ Goes(t, [run[t] EXCEPT !.todo = @ \ {s}, !.grade = Graded(t, s, "deleted")])
  \/ /\ ~Finds(t, s) /\ Grade404(run[t], s) # "refuse"
     /\ Goes(t, [run[t] EXCEPT !.todo = @ \ {s},
                               !.grade = Graded(t, s, Grade404(run[t], s))])
     /\ UNCHANGED <<spaces, failures>>
  \/ /\ ~Finds(t, s) /\ Grade404(run[t], s) = "refuse"
     /\ Returns(t, "space-delete-failed")
     /\ UNCHANGED <<spaces, failures>>
  \/ /\ Spend /\ Returns(t, "space-delete-failed")
     /\ (Finds(t, s) /\ Deleted(s)) \/ UNCHANGED spaces

DeleteAnnex(t) ==
  /\ run[t].at = "annex"
  /\ \/ /\ run[t].todo # {}
        /\ \E s \in run[t].todo : (\A o \in run[t].todo : s <= o) /\ DeleteSpace(t, s)
     \/ /\ run[t].todo = {} /\ UNCHANGED <<spaces, failures>>
        /\ Goes(t, [run[t] EXCEPT !.at = "unlock", !.todo = run[t].reg])
  /\ UNCHANGED <<minted, registry, struck, local, session>>

DeleteSibling(t) ==
  /\ run[t].at = "unlock"
  /\ \/ \E s \in run[t].todo \cap Usable : DeleteSpace(t, s)
     \/ \E s \in run[t].todo \ Usable :
          /\ Goes(t, [run[t] EXCEPT !.todo = @ \ {s}, !.grade = Graded(t, s, "unreachable")])
          /\ UNCHANGED <<spaces, failures>>
     \/ run[t].todo = {} /\ At(t, "pivot") /\ UNCHANGED <<spaces, failures>>
  /\ UNCHANGED <<minted, registry, struck, local, session>>

\* The account Space is known to be gone.
Gone(t, landed) ==
  Goes(t, [run[t] EXCEPT !.at = "acting", !.gone = TRUE, !.landed = landed,
                         !.grade = Graded(t, Account, "deleted")])

\* The pivot: the account Space. A DELETE that threw is looked into.
PivotThrew(t, landed) ==
  Goes(t, [run[t] EXCEPT !.at = "reprobe", !.threw = TRUE, !.landed = landed])

Pivot(t) ==
  /\ run[t].at = "pivot"
  /\ \/ Holds(t) /\ Deleted(Account) /\ Gone(t, TRUE) /\ UNCHANGED failures
     \/ ~Holds(t) /\ At(t, "log") /\ UNCHANGED <<spaces, failures>>
     \/ Spend /\ Holds(t) /\ Deleted(Account) /\ PivotThrew(t, TRUE)
     \/ Spend /\ PivotThrew(t, FALSE) /\ UNCHANGED spaces
  /\ UNCHANGED <<minted, registry, struck, local, session>>

Doubted(t) == [run[t] EXCEPT !.at = "done", !.result = "failed", !.doubt = TRUE]

Reprobe(t) ==
  /\ run[t].at = "reprobe"
  /\ \/ ~Holds(t) /\ At(t, "log") /\ UNCHANGED failures
     \/ Holds(t) /\ Returns(t, "failed") /\ UNCHANGED failures
     \/ Spend /\ Goes(t, Doubted(t))
  /\ UNCHANGED <<spaces, minted, registry, struck, local, session>>

\* The account log, which no refusal masks; one that cannot be read stands.
\* Mutant of Stands: the run goes on past a pivot that did not happen.
StandsPast(t, doubt) == At(t, "acting")
Stands(t, doubt) ==
  IF run[t].threw
  THEN Goes(t, [run[t] EXCEPT !.at = "done", !.result = "failed", !.doubt = doubt])
  ELSE Goes(t, [run[t] EXCEPT !.at = "done", !.result = "space-delete-failed",
                              !.doubt = doubt, !.grade = Graded(t, Account, "unconfirmed")])

ReadLog(t) ==
  /\ run[t].at = "log"
  /\ \/ ~alive /\ Gone(t, run[t].landed) /\ UNCHANGED failures
     \/ alive /\ Stands(t, FALSE) /\ UNCHANGED failures
     \/ Spend /\ Stands(t, TRUE)
  /\ UNCHANGED <<spaces, minted, registry, struck, local, session>>

\* Past the pivot: the acting credential's own unlock Space, with one retry.
DeleteActing(t) ==
  /\ run[t].at = "acting"
  /\ session' = [session EXCEPT ![t] = 0]
  /\ \/ /\ Finds(t, Acting) /\ Deleted(Acting) /\ UNCHANGED failures
        /\ local' = local \ {Acting}
        /\ Goes(t, [run[t] EXCEPT !.at = "wipe", !.grade = Graded(t, Acting, "deleted")])
     \/ /\ ~Finds(t, Acting) /\ UNCHANGED <<spaces, failures>>
        /\ local' = local \ {Acting}
        /\ Goes(t, [run[t] EXCEPT !.at = "wipe",
             !.grade = Graded(t, Acting, IF Grade404(run[t], Acting) = "deleted"
                                         THEN "deleted" ELSE "unconfirmed")])
     \/ /\ Spend /\ ~run[t].again
        /\ (Finds(t, Acting) /\ Deleted(Acting)) \/ UNCHANGED spaces
        /\ Goes(t, [run[t] EXCEPT !.again = TRUE]) /\ UNCHANGED local
     \/ /\ Spend /\ run[t].again
        /\ (Finds(t, Acting) /\ Deleted(Acting)) \/ UNCHANGED spaces
        /\ local' = local \ {Acting}
        /\ Goes(t, [run[t] EXCEPT !.at = "wipe", !.grade = Graded(t, Acting, "unreachable")])
  /\ UNCHANGED <<minted, registry, struck>>

\* What the wipe returns, from the stages that failed.
WipeResult(r, failed) ==
  IF Replica \in failed \/ ~r.read THEN "deleted-unverified" ELSE "deleted"

Wipe(t) ==
  /\ run[t].at = "wipe"
  /\ \E failed \in SUBSET local :
       LET targets == run[t].reg \cup {Acting, Replica}
       IN /\ failed \subseteq targets
          /\ failed # {} => Spend
          /\ failed = {} => UNCHANGED failures
          /\ local' = (local \ targets) \cup failed
          /\ Goes(t, [run[t] EXCEPT !.at = "done", !.failed = failed,
                                    !.result = WipeResult(run[t], failed)])
  /\ UNCHANGED <<spaces, minted, registry, struck, session>>

Walk(t) ==
  \/ Confirm(t) \/ Verify(t) \/ Renew(t) \/ ReadRegistry(t) \/ Probe(t)
  \/ DeleteAnnex(t) \/ DeleteSibling(t) \/ Pivot(t) \/ Reprobe(t) \/ ReadLog(t)
  \/ DeleteActing(t) \/ Wipe(t)

Next ==
  \/ \E t \in Tabs : Enter(t) \/ CloseTab(t) \/ Start(t) \/ Walk(t)
  \/ \E c \in Credentials : LoginDead(c)
  \/ \E c \in Siblings : AddMethod(c)
  \/ Strike

Spec == Init /\ [][Next]_vars

\* The walk goes on, and a user who wants the account gone tries again, signs in
\* again after a refusal, and accepts the removals the logins offer.
FairSpec ==
  /\ Spec
  /\ \A t \in Tabs : WF_vars(Walk(t)) /\ WF_vars(Start(t)) /\ SF_vars(Enter(t))
  /\ \A c \in Credentials : WF_vars(LoginDead(c))

(***************************************************************************)
(* Properties.                                                             *)
(***************************************************************************)
\* No walk, torn, masked or raced, takes the acting credential's record from an
\* account that lives.  Every variable keeps its shape.
Enterable == TypeOK /\ (alive => Acting \in unlock)

\* A Space a run reported as deleted is gone: a refusal the server masks as an
\* absence is never reported so.
ReportsAreTrue ==
  \A t \in Tabs, s \in Spaces :
    run[t].grade[s] = "deleted" =>
      /\ s \notin annex \cup unlock
      /\ s = Account => ~alive

\* A run whose own DELETE took the account tells the user it lives only when
\* the checks behind the lost answer failed too.
PivotIsReported ==
  \A t \in Tabs :
    run[t].landed /\ run[t].result \in {"failed"} \cup Refusals => run[t].doubt

\* A run that deleted the account it discovered leaves no sibling it does not
\* name: one recorded before it started either has no Space or has a grade.
NoStrandedSibling ==
  \A t \in Tabs : run[t].result \in {"deleted", "deleted-unverified"} /\ run[t].read =>
    \A c \in run[t].known \cap unlock : run[t].grade[c] # "none"

\* A clean deletion leaves no state of a sign-in method recorded before it
\* started on this browser, past the stages that threw.
DeletedIsWiped ==
  \A t \in Tabs : run[t].result = "deleted" =>
    local \cap (run[t].known \cup {Acting, Replica}) \subseteq run[t].failed

\* What a run tells its user holds, whatever was masked, lost or torn.
RunsReportTrue ==
  ReportsAreTrue /\ PivotIsReported /\ NoStrandedSibling /\ DeletedIsWiped

\* A torn deletion leaves an account that can be deleted again: with a user who
\* keeps trying, it goes, unless the credential is struck; and its credentials'
\* unlock Spaces follow as they are used.
GoesInTheEnd == <>[](alive => struck) /\ (~alive ~> unlock = {})
====
