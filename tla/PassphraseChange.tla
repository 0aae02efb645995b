---- MODULE PassphraseChange ----
(***************************************************************************)
(* The passphrase change over the account's stores, from the marker it     *)
(* leaves to the registry entry it writes last, the retirement of the old  *)
(* passphrase, and the login passes that finish a torn run: the roster     *)
(* sweep and the torn-retirement repair.  A passphrase stands for the      *)
(* credential it derives and for that credential's unlock Space.           *)
(***************************************************************************)
EXTENDS Naturals, FiniteSets

CONSTANTS
  Passphrases,  \* what the user may choose
  First,        \* the account's passphrase to begin with
  NoPass,
  Browsers,
  Remembered,   \* the browsers that hold a client-key record for First
  BareEntry,    \* whether the registry's passphrase entry starts out bare
  Abandons,     \* whether the user may leave a passphrase a torn change has
                \* established for another one
  MaxFailures   \* bound: failed calls and closed tabs

ASSUME ChangeAssumption ==
  /\ First \in Passphrases /\ NoPass \notin Passphrases
  /\ Remembered \subseteq Browsers
  /\ BareEntry \in BOOLEAN /\ Abandons \in BOOLEAN
  /\ MaxFailures \in Nat

VARIABLES
  doc,       \* the passphrases the account document lists
  holders,   \* those the roster wraps the current user key to
  readers,   \* those that open the collections' current epochs
  spaces,    \* those whose unlock Space holds a record
  local,     \* those each browser holds a client-key record under
  entry,     \* the registry's passphrase entry: whom it names, the unlock
             \* Space it points at, the establishment marker
  session,   \* each browser's session and where it stands
  current,   \* the passphrase established last (history)
  failures   \* the failures so far

account == <<doc, holders, readers, spaces, entry>>
vars == <<doc, holders, readers, spaces, local, entry, session, current,
          failures>>

OrNone == Passphrases \cup {NoPass}
Login == {"sweep", "cascade", "repair"}
Establish == {"mark", "escrow", "bind", "publish"}
Retirement == {"delete", "renew", "retire", "rotate", "fanOut", "deleteLate",
               "record"}

\* The types; an entry's marker never stands behind the change it announced.
TypeOK ==
  /\ doc \subseteq Passphrases /\ holders \subseteq Passphrases
  /\ readers \subseteq Passphrases /\ spaces \subseteq Passphrases
  /\ local \in [Browsers -> SUBSET Passphrases]
  /\ entry \in [names : OrNone, space : Passphrases, marker : OrNone]
  /\ session \in [Browsers ->
       [at : {"out", "ready"} \cup Login \cup Establish \cup Retirement,
        kind : {"enrolled", "ladder"}, job : {"change", "repair"},
        login : OrNone, old : OrNone, new : OrNone,
        fate : {"named", "bare", "absent", "atEdit"}]]
  /\ entry.marker # NoPass => entry.marker # entry.names
  /\ current \in Passphrases
  /\ failures \in 0..MaxFailures

Out == [at |-> "out", kind |-> "ladder", job |-> "repair", login |-> NoPass,
        old |-> NoPass, new |-> NoPass, fate |-> "named"]

Init ==
  /\ doc = {First} /\ holders = {First} /\ readers = {First}
  /\ spaces = {First}
  /\ local = [b \in Browsers |-> IF b \in Remembered THEN {First} ELSE {}]
  /\ entry = [names |-> IF BareEntry THEN NoPass ELSE First,
              space |-> First, marker |-> NoPass]
  /\ session = [b \in Browsers |-> Out]
  /\ current = First
  /\ failures = 0

At(b, at) == session[b].at = at
Goes(b, at) == session' = [session EXCEPT ![b].at = at]
Enrolled(b) == session[b].kind = "enrolled"
Rests(b) == session' = [session EXCEPT ![b].at = "ready",
                          ![b].old = NoPass, ![b].new = NoPass, ![b].fate = "named"]

(***************************************************************************)
(* A login and its passes.                                                 *)
(***************************************************************************)
\* A user who abandons nothing uses no third passphrase while one is being put
\* in another's place, in another session or by a change that tore between the
\* two, starts a change while no other session runs one, and does not go back
\* to the passphrase a change over a bare entry left standing.
Awaits(b, p) ==
  \/ Abandons
  \/ /\ p \in doc \/ Cardinality(doc) = 1
     /\ p \in doc /\ entry.names = current => p = current
     /\ \A c \in Browsers \ {b} :
          \/ session[c].at \in {"out", "ready"}
          \/ p \in {session[c].login, session[c].old, session[c].new}

\* A remembered login opens the browser's client-key record, whether or not
\* the document lists the passphrase; a transient one is refused unless the
\* document does and the roster opens.
LogIn(b, p) ==
  /\ At(b, "out") /\ p \in spaces /\ Awaits(b, p)
  /\ \E kind \in {"enrolled", "ladder"} :
       /\ IF kind = "enrolled" THEN p \in local[b]
          ELSE p \notin local[b] /\ p \in doc \cap holders
       /\ session' = [session EXCEPT ![b] =
            [Out EXCEPT !.at = IF kind = "enrolled" THEN "sweep" ELSE "cascade",
                        !.kind = kind, !.login = p]]
  /\ UNCHANGED <<account, local, current, failures>>

\* The remembered login's sweep rotates the user key off the recipients the
\* document does not back, and either login fans out.
\* Mutant of Swept: the roster is left as it is.
SweptNever == holders
Swept == holders \cap doc

Sweep(b) ==
  /\ At(b, "sweep")
  /\ holders' = Swept
  /\ Goes(b, "cascade")
  /\ UNCHANGED <<doc, readers, spaces, entry, local, current, failures>>

Cascade(b) ==
  /\ At(b, "cascade")
  /\ readers' = holders
  /\ Goes(b, "repair")
  /\ UNCHANGED <<doc, holders, spaces, entry, local, current, failures>>

\* repairTornPassphraseRetirement.
\* The marker names the login's credential, at its own unlock Space.
\* Mutant of MarkerNamesLogin: the marker is not asked for.
MarkerNamesLoginAnyway(p) == TRUE
MarkerNamesLogin(p) == entry.marker = p

Pending(p) == entry.names \notin {p, NoPass} /\ p \in doc

\* A marker over an entry whose own credential left the document is stale.
Torn(p) ==
  /\ entry.names # p /\ p \notin doc
  /\ MarkerNamesLogin(p)
  /\ entry.names \in doc \cup {NoPass}

Bare(p) == entry.names = NoPass /\ p \in doc

\* Its reads decide what it finishes: a retirement, an establishment first, or
\* a bare entry.
RepairReads(b) ==
  /\ At(b, "repair")
  /\ LET p == session[b].login
         Finishes(at) == session' = [session EXCEPT ![b] =
                           [@ EXCEPT !.at = at, !.job = "repair",
                                     !.old = entry.names, !.new = p]]
     IN \/ Pending(p) /\ Finishes("retire")
        \/ Torn(p) /\ Finishes(IF Enrolled(b) THEN "escrow" ELSE "bind")
        \/ Bare(p) /\ Finishes("record")
        \/ ~Pending(p) /\ ~Torn(p) /\ ~Bare(p) /\ Rests(b)
  /\ UNCHANGED <<account, local, current, failures>>

LogOut(b) ==
  /\ At(b, "ready")
  /\ session' = [session EXCEPT ![b] = Out]
  /\ UNCHANGED <<account, local, current, failures>>

(***************************************************************************)
(* The change.                                                             *)
(***************************************************************************)
\* A new passphrase has never been the account's.  A user who does not abandon
\* a passphrase goes on with the one a torn change established.
Unused(p) == p \notin doc \cup spaces /\ p # current
MayChoose(b, new) ==
  /\ \/ Unused(new)
     \/ new # session[b].login /\ new \in spaces
  /\ \/ Abandons
     \/ /\ doc \ {session[b].login} \subseteq {new}
        /\ \A c \in Browsers \ {b} : session[c].at \in {"out", "ready"}

\* An entry naming a passphrase other than the typed one refuses the change;
\* over a bare entry the document says whether there is one to retire.
Refused(p) == entry.names \notin {p, NoPass}

StartChange(b, new) ==
  /\ At(b, "ready")
  /\ LET old == session[b].login
     IN /\ old \in spaces /\ ~Refused(old) /\ MayChoose(b, new)
        /\ session' = [session EXCEPT ![b].at = IF Enrolled(b) THEN "mark" ELSE "bind",
             ![b].job = "change", ![b].old = old, ![b].new = new,
             ![b].fate = IF entry.names # NoPass THEN "named"
                         ELSE IF old \in doc THEN "bare" ELSE "absent"]
  /\ UNCHANGED <<account, local, current, failures>>

\* The establishment marker, over a fresh read, and best effort.
Marks(b) ==
  IF entry.names \in {session[b].old, NoPass}
  THEN [entry EXCEPT !.marker = session[b].new] ELSE entry

Mark(b) ==
  /\ At(b, "mark")
  /\ entry' \in {entry, Marks(b)}
  /\ Goes(b, "escrow")
  /\ UNCHANGED <<doc, holders, readers, spaces, local, current, failures>>

\* establishStandingUnlock, in the order of its branch.
Escrow(b) ==
  /\ At(b, "escrow")
  /\ holders' = holders \cup {session[b].new}
  /\ readers' = readers \cup {session[b].new}
  /\ Goes(b, IF Enrolled(b) THEN "bind"
             ELSE IF session[b].job = "change" THEN "renew" ELSE "retire")
  /\ UNCHANGED <<doc, spaces, entry, local, current, failures>>

Bind(b) ==
  /\ At(b, "bind")
  /\ spaces' = spaces \cup {session[b].new}
  /\ local' = IF Enrolled(b) THEN [local EXCEPT ![b] = @ \cup {session[b].new}]
              ELSE local
  /\ Goes(b, "publish")
  /\ UNCHANGED <<doc, holders, readers, entry, current, failures>>

Publish(b) ==
  /\ At(b, "publish")
  /\ doc' = doc \cup {session[b].new}
  /\ current' = session[b].new
  /\ Goes(b, IF ~Enrolled(b) THEN "escrow"
             ELSE IF session[b].job = "change" THEN "delete" ELSE "retire")
  /\ UNCHANGED <<holders, readers, spaces, entry, local, failures>>

\* The old unlock Space and the browser's record under it, on the enrolled
\* branch: the session goes on as the new passphrase.
DeleteOld(b) ==
  /\ At(b, "delete")
  /\ spaces' \in {spaces, spaces \ {session[b].old}}
  /\ local' = [local EXCEPT ![b] = @ \ {session[b].old}]
  /\ session' = [session EXCEPT ![b].at = "retire", ![b].login = session[b].new]
  /\ UNCHANGED <<doc, holders, readers, entry, current, failures>>

\* The ladder branch renews the visit's delegation under the new passphrase
\* before the strike; a renewal refused puts the session back on the old one.
Renew(b) ==
  /\ At(b, "renew")
  /\ session' = [session EXCEPT ![b].at = "retire", ![b].login = session[b].new]
  /\ UNCHANGED <<account, local, current, failures>>

RenewRefused(b) ==
  /\ At(b, "renew") /\ failures < MaxFailures
  /\ failures' = failures + 1
  /\ Rests(b)
  /\ UNCHANGED <<account, local, current>>

(***************************************************************************)
(* The retirement of the old passphrase (rotateOffUnlockCredential).       *)
(***************************************************************************)
Tail(b) ==
  IF session[b].job = "change" /\ ~Enrolled(b) THEN "deleteLate" ELSE "record"

\* The document edit first.  A repair whose credential is gone already only
\* writes the entry; a change over a bare entry names nothing to retire.
Names(b) == session[b].fate = "named" /\ session[b].old # NoPass

Retire(b) ==
  /\ At(b, "retire")
  /\ IF Names(b) /\ session[b].old \in doc
     THEN doc' = doc \ {session[b].old} /\ Goes(b, "rotate")
     ELSE doc' = doc /\ Goes(b, Tail(b))
  /\ UNCHANGED <<holders, readers, spaces, entry, local, current, failures>>

\* The retirement fails before its edit: a change notes it for the entry, and
\* a repair gives up.
RetireFails(b) ==
  /\ At(b, "retire") /\ Names(b) /\ failures < MaxFailures
  /\ failures' = failures + 1
  /\ IF session[b].job = "change"
     THEN session' = [session EXCEPT ![b].at = Tail(b), ![b].fate = "atEdit"]
     ELSE Rests(b)
  /\ UNCHANGED <<account, local, current>>

\* The gate refuses a ladder VM nobody claims: nothing is written.
RetireRefused(b) ==
  /\ At(b, "retire") /\ Names(b) /\ failures < MaxFailures
  /\ failures' = failures + 1
  /\ Rests(b)
  /\ UNCHANGED <<account, local, current>>

\* The roster tail, and the fan-out.
Rotate(b) ==
  /\ At(b, "rotate")
  /\ holders' = holders \ {session[b].old}
  /\ Goes(b, "fanOut")
  /\ UNCHANGED <<doc, readers, spaces, entry, local, current, failures>>

FanOut(b) ==
  /\ At(b, "fanOut")
  /\ readers' = holders
  /\ Goes(b, Tail(b))
  /\ UNCHANGED <<doc, holders, spaces, entry, local, current, failures>>

\* Past the edit a change goes on to its entry, which names the new passphrase.
TailFails(b) ==
  /\ session[b].at \in {"rotate", "fanOut"} /\ failures < MaxFailures
  /\ failures' = failures + 1
  /\ IF session[b].job = "change" THEN Goes(b, Tail(b)) ELSE Rests(b)
  /\ UNCHANGED <<account, local, current>>

DeleteLate(b) ==
  /\ At(b, "deleteLate")
  /\ spaces' \in {spaces, spaces \ {session[b].old}}
  /\ Goes(b, "record")
  /\ UNCHANGED <<doc, holders, readers, entry, local, current, failures>>

\* The registry entry, last.  A retirement that failed at its edit, and one
\* that had no name to go by, leave the old passphrase named.
Recorded(b) ==
  IF session[b].fate \in {"atEdit", "bare"} THEN session[b].old
  ELSE session[b].new

\* The upsert rebuilds the entry, and drops the marker.
Upserted(b) ==
  [names |-> Recorded(b), space |-> session[b].new, marker |-> NoPass]

Record(b) ==
  /\ At(b, "record")
  /\ \/ entry' = Upserted(b) /\ UNCHANGED failures
     \/ failures < MaxFailures /\ failures' = failures + 1 /\ UNCHANGED entry
  /\ Rests(b)
  /\ UNCHANGED <<doc, holders, readers, spaces, local, current>>

(***************************************************************************)
(* Failures.                                                               *)
(***************************************************************************)
\* The tab closes between any two steps.
Close(b) ==
  /\ session[b].at \notin {"out", "ready"} /\ failures < MaxFailures
  /\ failures' = failures + 1
  /\ session' = [session EXCEPT ![b] = Out]
  /\ UNCHANGED <<account, local, current>>

\* A login pass, or the establishment, fails: the passes are best effort, and
\* a change whose establishment failed leaves the old passphrase as it was.
Fails(b) ==
  /\ session[b].at \in Login \cup Establish /\ failures < MaxFailures
  /\ failures' = failures + 1
  /\ IF session[b].at \in {"sweep", "cascade"} THEN Goes(b, "repair") ELSE Rests(b)
  /\ UNCHANGED <<account, local, current>>

Step(b) ==
  \/ Sweep(b) \/ Cascade(b) \/ RepairReads(b)
  \/ Mark(b) \/ Escrow(b) \/ Bind(b) \/ Publish(b)
  \/ DeleteOld(b) \/ Renew(b) \/ Retire(b) \/ Rotate(b) \/ FanOut(b)
  \/ DeleteLate(b) \/ Record(b)

Failure(b) ==
  \/ RenewRefused(b) \/ RetireFails(b) \/ RetireRefused(b) \/ TailFails(b)
  \/ Close(b) \/ Fails(b)

Next ==
  \E b \in Browsers :
    \/ \E p \in Passphrases : LogIn(b, p) \/ StartChange(b, p)
    \/ LogOut(b)
    \/ Step(b)
    \/ Failure(b)

Spec == Init /\ [][Next]_vars

\* What is in flight goes on: every step awaits a call that returns.
FairSpec ==
  /\ Spec
  /\ \A b \in Browsers : WF_vars(Step(b))

(***************************************************************************)
(* Properties.                                                             *)
(***************************************************************************)
\* The forbidden direction: no repair and no torn change ever retires the
\* passphrase established last, and its record stands, so the account can be
\* logged into (the direction guard and the establishment marker).  Every
\* variable keeps its shape meanwhile.
CurrentStands == TypeOK /\ current \in doc /\ current \in spaces

\* A passphrase that left the document, or never entered it, is rotated off
\* the user key and off every collection wherever the retirement tore, as long
\* as some remembered login comes again.
RetiredReadsNoMore ==
  ([]<>\E b \in Browsers : At(b, "sweep")) =>
    \A p \in Passphrases :
      p \notin doc ~> p \in doc \/ p \notin holders \cup readers
====
