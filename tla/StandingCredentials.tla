---- MODULE StandingCredentials ----
(***************************************************************************)
(* The passkeys and backup credentials of a live account: the entry-first  *)
(* establishment with its verify-then-act cleanup, the removal, the        *)
(* registry's compare-and-swap writes under the user key it is sealed to,  *)
(* and the login passes that mend what a torn ceremony leaves.  A          *)
(* credential stands for its secret and for its unlock Space.              *)
(***************************************************************************)
EXTENDS Naturals, FiniteSets

CONSTANTS
  Passkeys,     \* the passkeys the user may register
  Backups,      \* the backup credentials an export may establish
  Oldest,       \* the passkey that stands to begin with
  Sessions,
  Remembered,   \* the sessions of remembered browsers; the others are visits
  Attempts,     \* compare-and-swap attempts of one registry write
  RemovesBare,  \* whether a passkey is removed whose entry is bare
  Overlaps,     \* whether sessions work on one credential at once, or remove
                \* two at once
  MaxTears      \* bound: calls that fail or go unanswered, and closed tabs

Creds == Passkeys \cup Backups

\* What the constants are assumed to be.
StandingAssumption ==
  /\ Passkeys \cap Backups = {} /\ Oldest \in Passkeys
  /\ Remembered \subseteq Sessions
  /\ Attempts \in Nat \ {0} /\ MaxTears \in Nat
  /\ RemovesBare \in BOOLEAN /\ Overlaps \in BOOLEAN

VARIABLES
  listed,    \* the credentials the account document lists
  wraps,     \* those the roster wraps the current user key to
  wrapped,   \* those some epoch of the roster wraps
  records,   \* those whose unlock Space holds their record
  left,      \* those removed over a Space that was not deleted
  registry,  \* each credential's entry, and the user key it is sealed to
  epoch,     \* the roster's current user key
  job,       \* each session's login, ceremony, and where it stands
  tears      \* the failures so far

roster == <<wraps, wrapped, epoch>>
account == <<listed, roster, records, left, registry>>
vars == <<account, job, tears>>

Entries == [of : [Creds -> {"no", "bare", "full"}], seal : Nat]
Nothing == [of |-> [c \in Creds |-> "no"], seal |-> 0]
Out == [at |-> "out", does |-> "none", login |-> Oldest, cred |-> Oldest,
        key |-> 0, minted |-> 0, base |-> Nothing, tries |-> 0]

Passes == {"sweep", "reseal", "look"}
Establish == {"wrap", "bind", "publish"}
Retire == {"strike", "rotate", "adopt", "readopt", "delete"}
Writes == {"list", "complete", "rebuild", "drop"}

\* The types; no registry, and no session, is ahead of the roster.
TypeOK ==
  /\ listed \subseteq Creds /\ wraps \subseteq wrapped /\ wrapped \subseteq Creds
  /\ records \subseteq Creds /\ left \subseteq Creds
  /\ registry \in Entries /\ registry.seal <= epoch
  /\ epoch \in Nat /\ tears \in 0..MaxTears
  /\ \A s \in Sessions :
       /\ job[s].at \in {"out", "in", "verify"} \cup Passes \cup Establish
                          \cup Retire \cup Writes
       /\ job[s].does \in {"none", "add", "cleanup", "remove", "rebuild"}
       /\ job[s].login \in Passkeys /\ job[s].cred \in Creds
       /\ job[s].key \in 0..epoch /\ job[s].minted \in 0..epoch
       /\ job[s].base \in Entries /\ job[s].tries \in 0..(Attempts - 1)

Init ==
  /\ listed = {Oldest} /\ wraps = {Oldest} /\ wrapped = {Oldest}
  /\ records = {Oldest} /\ left = {}
  /\ registry = [of |-> [c \in Creds |-> IF c = Oldest THEN "full" ELSE "no"],
                 seal |-> 1]
  /\ epoch = 1
  /\ job = [s \in Sessions |-> Out]
  /\ tears = 0

At(s, at) == job[s].at = at
Cred(s) == job[s].cred
Goes(s, at) ==
  job' = [job EXCEPT ![s].at = at, ![s].base = Nothing, ![s].tries = 0]
Rested(s) == [Out EXCEPT !.at = "in", !.login = job[s].login, !.key = job[s].key]
Rests(s) == job' = [job EXCEPT ![s] = Rested(s)]

Fine == UNCHANGED tears
Torn == tears < MaxTears /\ tears' = tears + 1

\* A session reads the registry under its own key alone, and a visit signs by
\* the ladder of the credential it entered on.
Opens(s) == registry.seal = job[s].key
Signs(s) == s \in Remembered \/ job[s].login \in listed

\* Where a call that fails leaves its session: the passes are best effort, a
\* failed establishment is verified, and anything else ends what it does.
GivesUp(s) ==
  CASE At(s, "sweep") -> Goes(s, "reseal")
    [] At(s, "reseal") -> Goes(s, "look")
    [] job[s].at \in Establish -> Goes(s, "verify")
    [] OTHER -> Rests(s)

\* A call that took effect is answered, or its answer is lost.
Answers(s, at) == (Fine /\ Goes(s, at)) \/ (Torn /\ GivesUp(s))

(***************************************************************************)
(* A login and its passes.                                                 *)
(***************************************************************************)
\* Another session works on the credential, or is logging in with it.
Busy(s, c) ==
  \E t \in Sessions \ {s} :
    \/ job[t].cred = c /\ job[t].does # "none"
    \/ job[t].login = c /\ job[t].at \in Passes

\* A remembered login reads the credential's record; a visit is refused unless
\* the document lists the credential and the roster opens.  A backup credential
\* logs in nowhere yet.
LogIn(s, c) ==
  /\ At(s, "out") /\ c \in records /\ (Overlaps \/ ~Busy(s, c))
  /\ s \in Remembered \/ c \in listed \cap wraps
  /\ job' = [job EXCEPT ![s] =
       [Out EXCEPT !.at = IF s \in Remembered THEN "sweep" ELSE "reseal",
                   !.login = c, !.key = epoch]]
  /\ UNCHANGED <<account, tears>>

LogOut(s) ==
  /\ At(s, "in")
  /\ job' = [job EXCEPT ![s] = Out]
  /\ UNCHANGED <<account, tears>>

\* The re-seal is a compare-and-swap of its own over an unchanged content, so
\* it lands at once or not at all; the session takes the key up with it.
Adopts(s, fresh, at) ==
  /\ Opens(s) /\ Signs(s)
  /\ registry' = [registry EXCEPT !.seal = fresh]
  /\ \/ Fine /\ job' = [job EXCEPT ![s].at = at, ![s].key = fresh]
     \/ Torn /\ Goes(s, at)
StaysBehind(s, at) ==
  /\ IF Opens(s) /\ Signs(s) THEN Torn ELSE Fine
  /\ Goes(s, at) /\ UNCHANGED registry

\* The remembered login's sweep: the roster comes to wrap what the document
\* lists, a rotation taking off what it does not.
\* Mutant of Escrowed: what is missing is not escrowed.
EscrowedNever == wraps \cap listed
Escrowed == listed
Sweep(s) ==
  /\ At(s, "sweep")
  /\ wraps' = Escrowed /\ wrapped' = wrapped \cup Escrowed
  /\ IF wraps \subseteq listed
     THEN Fine /\ Goes(s, "reseal") /\ UNCHANGED <<epoch, registry>>
     ELSE /\ epoch' = epoch + 1
          /\ Adopts(s, epoch + 1, "reseal") \/ StaysBehind(s, "reseal")
  /\ UNCHANGED <<listed, records, left>>

\* The stale-seal repair, from the generations the roster escrows.
Reseal(s) ==
  /\ At(s, "reseal")
  /\ registry' = [registry EXCEPT !.seal = IF @ < job[s].key THEN job[s].key ELSE @]
  /\ Goes(s, "look")
  /\ UNCHANGED <<listed, roster, records, left, tears>>

\* A bare entry of the passkey logging in is rebuilt, once the document lists
\* that passkey.
Mends(c) == registry.of[c] = "bare" /\ c \in listed
Look(s) ==
  /\ At(s, "look")
  /\ IF Opens(s) /\ Mends(job[s].login)
     THEN job' = [job EXCEPT ![s].at = "rebuild", ![s].does = "rebuild",
                             ![s].cred = job[s].login]
     ELSE Rests(s)
  /\ UNCHANGED <<account, tears>>

(***************************************************************************)
(* The registry's write path.                                              *)
(***************************************************************************)
\* The entry a write upserts; the drop takes it out.  An ETag stands for the
\* content it was served with.
Upserts(s) ==
  CASE At(s, "list") -> "bare" [] At(s, "drop") -> "no" [] OTHER -> "full"

AfterWrite(s) ==
  CASE At(s, "list") -> Goes(s, IF s \in Remembered THEN "wrap" ELSE "bind")
    [] At(s, "drop") /\ job[s].does = "remove" /\ job[s].minted # 0
         -> Goes(s, "readopt")
    [] OTHER -> Rests(s)

\* No write goes over a registry the session's key does not open, and a drop
\* of an entry that is gone writes nothing.
Read(s) ==
  /\ job[s].at \in Writes /\ job[s].base = Nothing
  /\ IF ~Opens(s) \/ ~Signs(s) THEN GivesUp(s)
     ELSE IF At(s, "drop") /\ registry.of[Cred(s)] = "no" THEN AfterWrite(s)
     ELSE job' = [job EXCEPT ![s].base = registry]
  /\ UNCHANGED <<account, tears>>

\* Mutant of Matches: the write is unconditional.
MatchesAny(s) == TRUE
Matches(s) == registry = job[s].base

\* A lost race reads anew, up to the last attempt.
Put(s) ==
  /\ job[s].base # Nothing
  /\ \/ /\ Matches(s) /\ Signs(s)
        /\ registry' = [job[s].base EXCEPT !.of[Cred(s)] = Upserts(s)]
        /\ (Fine /\ AfterWrite(s)) \/ (Torn /\ GivesUp(s))
     \/ /\ ~Matches(s) \/ ~Signs(s)
        /\ IF Signs(s) /\ job[s].tries + 1 < Attempts
           THEN job' = [job EXCEPT ![s].base = Nothing, ![s].tries = @ + 1]
           ELSE GivesUp(s)
        /\ Fine /\ UNCHANGED registry
  /\ UNCHANGED <<listed, roster, records, left>>

(***************************************************************************)
(* The establishment of a passkey or a backup credential, entry first.     *)
(***************************************************************************)
\* A registration, like an export, makes a credential that never was before.
Fresh(c) ==
  /\ registry.of[c] = "no" /\ c \notin listed \cup wrapped \cup records
  /\ \A s \in Sessions : job[s].cred # c

Add(s, c) ==
  /\ At(s, "in") /\ Fresh(c) /\ Opens(s) /\ Signs(s)
  /\ job' = [job EXCEPT ![s].at = "list", ![s].does = "add", ![s].cred = c]
  /\ UNCHANGED <<account, tears>>

\* A remembered browser wraps, binds and publishes; a visit's roster append is
\* licensed by the document's entry only, so it wraps last.
Wrap(s) ==
  /\ At(s, "wrap") /\ Signs(s)
  /\ wraps' = wraps \cup {Cred(s)} /\ wrapped' = wrapped \cup {Cred(s)}
  /\ Answers(s, IF s \in Remembered THEN "bind" ELSE "complete")
  /\ UNCHANGED <<listed, epoch, records, left, registry>>

Bind(s) ==
  /\ At(s, "bind")
  /\ records' = records \cup {Cred(s)}
  /\ Answers(s, "publish")
  /\ UNCHANGED <<listed, roster, left, registry>>

Publish(s) ==
  /\ At(s, "publish") /\ Signs(s)
  /\ listed' = listed \cup {Cred(s)}
  /\ Answers(s, IF s \in Remembered THEN "complete" ELSE "wrap")
  /\ UNCHANGED <<roster, records, left, registry>>

\* What a failed establishment published: the document's entry, or a wrap in
\* any epoch of the roster.  What cannot be read counts as published.
\* Mutant of Published: what cannot be read was not published.
PublishedIfRead(c, read) == read /\ c \in listed \cup wrapped
Published(c, read) == ~read \/ c \in listed \cup wrapped

\* The record is fetched again before anything is acted on: with the document's
\* entry it is the success the answer was lost of, and without anything
\* published the credential goes as if it had never been.
Verify(s) ==
  /\ At(s, "verify")
  /\ \/ \E read \in BOOLEAN :
          /\ IF read THEN Fine ELSE Torn
          /\ IF read /\ Cred(s) \in records \cap listed THEN Goes(s, "complete")
             ELSE job' = [job EXCEPT ![s].does = "cleanup",
                            ![s].at = IF Published(Cred(s), read) THEN "strike"
                                      ELSE "delete"]
     \/ Torn /\ Rests(s)
  /\ UNCHANGED account

(***************************************************************************)
(* The removal, and the retirement it shares with the cleanup.             *)
(***************************************************************************)
\* An export's entry names its credential from the first write.
Identified(c) ==
  registry.of[c] = "full" \/ (registry.of[c] = "bare" /\ c \in Backups)

\* The last entry a login accepts stays, whatever shape it is in, and a visit
\* does not remove the credential it entered on.  Nothing of a bare passkey is
\* retired.
Remove(s, c) ==
  /\ At(s, "in") /\ Opens(s) /\ Signs(s)
  /\ registry.of[c] # "no" /\ (RemovesBare \/ Identified(c))
  /\ Overlaps \/ ~Busy(s, c)
  /\ c \in Passkeys => \E p \in Passkeys \ {c} : registry.of[p] # "no"
  /\ s \in Remembered \/ job[s].login # c
  /\ job' = [job EXCEPT ![s].at = IF Identified(c) THEN "strike" ELSE "delete",
                        ![s].does = "remove", ![s].cred = c]
  /\ UNCHANGED <<account, tears>>

\* Each stage does nothing over what is not there.
Strike(s) ==
  /\ At(s, "strike") /\ Signs(s)
  /\ listed' = listed \ {Cred(s)}
  /\ Answers(s, "rotate")
  /\ UNCHANGED <<roster, records, left, registry>>

AfterRotation(s) == IF job[s].does = "cleanup" THEN "readopt" ELSE "delete"

Rotate(s) ==
  /\ At(s, "rotate") /\ Signs(s)
  /\ wraps' = wraps \ {Cred(s)}
  /\ IF Cred(s) \in wraps
     THEN /\ epoch' = epoch + 1
          /\ \/ Fine /\ job' = [job EXCEPT ![s].at = "adopt", ![s].minted = epoch + 1]
             \/ Torn /\ GivesUp(s)
     ELSE Fine /\ Goes(s, "delete") /\ UNCHANGED epoch
  /\ UNCHANGED <<listed, wrapped, records, left, registry>>

\* The in-band adoption moves the session only along with the registry.
Adopt(s) ==
  /\ At(s, "adopt")
  /\ Adopts(s, job[s].minted, AfterRotation(s)) \/ StaysBehind(s, AfterRotation(s))
  /\ UNCHANGED <<listed, roster, records, left>>

\* The one after the ceremony tries the re-seal again, and moves it anyway.
Readopt(s) ==
  /\ At(s, "readopt")
  /\ \/ Fine /\ registry' = IF Opens(s) /\ Signs(s)
                            THEN [registry EXCEPT !.seal = job[s].minted] ELSE registry
     \/ job[s].key # job[s].minted /\ Torn /\ UNCHANGED registry
  /\ job' = [job EXCEPT ![s] =
       IF @.does = "cleanup" THEN [@ EXCEPT !.at = "delete", !.key = job[s].minted]
       ELSE [Rested(s) EXCEPT !.key = job[s].minted]]
  /\ UNCHANGED <<listed, roster, records, left>>

\* A removal goes on over a Space the server does not delete.
Delete(s) ==
  /\ At(s, "delete")
  /\ \/ /\ records' = records \ {Cred(s)} /\ Answers(s, "drop")
        /\ job[s].does = "remove" => Signs(s)
        /\ UNCHANGED left
     \/ /\ job[s].does = "remove" /\ (IF Signs(s) THEN Torn ELSE Fine)
        /\ left' = left \cup {Cred(s)} /\ Goes(s, "drop")
        /\ UNCHANGED records
  /\ UNCHANGED <<listed, roster, registry>>

(***************************************************************************)
(* Failures.                                                               *)
(***************************************************************************)
\* The ladder of a visit whose credential was struck signs nothing.
Refused(s) ==
  /\ job[s].at \in {"wrap", "publish", "strike", "rotate"} /\ ~Signs(s)
  /\ GivesUp(s)
  /\ UNCHANGED <<account, tears>>

Fails(s) ==
  /\ job[s].at \notin {"out", "in", "verify"}
  /\ Torn /\ GivesUp(s)
  /\ UNCHANGED account

\* The tab closes between any two steps.
Close(s) ==
  /\ job[s].at \notin {"out", "in"}
  /\ Torn /\ job' = [job EXCEPT ![s] = Out]
  /\ UNCHANGED account

Step(s) ==
  \/ Sweep(s) \/ Reseal(s) \/ Look(s) \/ Read(s) \/ Put(s)
  \/ Wrap(s) \/ Bind(s) \/ Publish(s) \/ Verify(s)
  \/ Strike(s) \/ Rotate(s) \/ Adopt(s) \/ Readopt(s) \/ Delete(s)
  \/ Refused(s)

Next ==
  \E s \in Sessions :
    \/ \E c \in Passkeys : LogIn(s, c)
    \/ \E c \in Creds : Add(s, c) \/ Remove(s, c)
    \/ LogOut(s) \/ Step(s) \/ Fails(s) \/ Close(s)

Spec == Init /\ [][Next]_vars

\* What is in flight goes on: every step awaits a call that returns.
FairSpec == Spec /\ \A s \in Sessions : WF_vars(Step(s))

(***************************************************************************)
(* Properties.                                                             *)
(***************************************************************************)
\* Whatever the account still holds of a credential stands behind an entry the
\* user can remove it by; the exception is a Space that a removal could not
\* delete.
ResidueIsNamed ==
  \A c \in Creds : registry.of[c] = "no" =>
    c \notin listed \cup wraps /\ (c \in records => c \in left)

\* A credential the document lists has its record, the one home of the seed
\* its retirement goes by: no cleanup deletes it under a listing whose answer
\* was lost.  The variables keep their shape.
AnchorStands == TypeOK /\ listed \subseteq records

\* What a torn establishment leaves half-done is finished: a listed passkey's
\* bare entry is rebuilt as long as that passkey logs in again and again, and
\* a listed credential the roster does not wrap is escrowed as long as some
\* remembered browser logs in.
EstablishmentSettles ==
  /\ \A c \in Passkeys :
       ([]<>\E s \in Sessions : At(s, "look") /\ job[s].login = c) =>
         []<>(registry.of[c] # "bare" \/ c \notin listed)
  /\ ([]<>\E s \in Sessions : At(s, "sweep")) => []<>(listed \subseteq wraps)
====
