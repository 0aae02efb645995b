---- MODULE MCPassphrase ----
(***************************************************************************)
(* The account's own unlock methods.  PassphraseChange over three          *)
(* passphrases: a remembered browser alone, with two failures, the         *)
(* registry's entry naming its passphrase at first or bare; and that       *)
(* browser beside a transient one, with one failure.  StandingCredentials  *)
(* over two passkeys and a backup credential: the two browsers at once,    *)
(* without a failure, or on the passkeys alone with two; and the           *)
(* remembered browser by itself, with two.                                 *)
(***************************************************************************)
EXTENDS PassphraseChange

CONSTANTS
  p1, p2, p3, home, kiosk, k1, k2, b1,
  Passkeys, Backups, Oldest, Sessions, Attempts, RemovesBare,
  Overlaps, MaxTears

VARIABLES
  scene, listed, wraps, wrapped, records, left, registry, epoch, job, tears

B == INSTANCE PassphraseChange WITH BareEntry <- TRUE
S == INSTANCE StandingCredentials

ASSUME MethodsAssumption == S!StandingAssumption

methods == <<listed, wraps, wrapped, records, left, registry, epoch, job, tears>>
methodsVars == <<vars, methods, scene>>

OfPassphrases == scene \in {"alone", "bare", "beside"}
Taken(A) ==
  /\ OfPassphrases /\ A /\ UNCHANGED <<scene, methods>>
  /\ IF scene = "beside" THEN failures' < MaxFailures ELSE session'[kiosk] = Out
TakenOf(A) ==
  /\ ~OfPassphrases /\ A /\ UNCHANGED <<scene, vars>>
  /\ CASE scene = "crossed" -> tears' = 0
       [] scene = "torn" -> \A s \in Sessions : job'[s].cred # b1
       [] scene = "export" -> job'[kiosk] = S!Out

MethodsInit ==
  /\ \/ scene \in {"alone", "beside", "crossed", "torn", "export"} /\ Init
     \/ scene = "bare" /\ B!Init
  /\ S!Init

Methods ==
  /\ MethodsInit
  /\ [][Taken(Next) \/ TakenOf(S!Next)]_methodsVars
  /\ \A b \in Browsers : WF_methodsVars(Taken(Step(b)))
  /\ \A s \in Sessions : WF_methodsVars(TakenOf(S!Step(s)))

\* The passphrase established last can be logged in with, and no superseded one
\* is left standing without a name: one the document lists is the current one
\* or the one the registry's entry names, which the next login's repair
\* retires.  The name takes an entry that named its passphrase to begin with:
\* over a bare one nothing tells what the change was from.
StandingIsNamed ==
  CurrentStands /\ (scene = "bare" \/ doc \subseteq {current, entry.names})

\* Whatever the account still holds of a passkey or of a backup credential
\* stands behind a registry entry, a Space that could not be deleted aside.
ResidueIsNamed == S!ResidueIsNamed

\* A passkey or a backup credential the document lists has its unlock record.
AnchorStands == S!AnchorStands

\* A torn establishment is finished by the logins that come after it.
EstablishmentSettles == S!EstablishmentSettles
====
