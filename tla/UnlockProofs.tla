---- MODULE UnlockProofs ----
EXTENDS MCPassphrase, FiniteSetTheorems, TLAPS

(***************************************************************************)
(* What is proved of the passkeys and backup credentials, and, behind it,  *)
(* of the passphrase change.                                               *)
(***************************************************************************)
\* Sessions keep apart: no two work on one credential at once, and no passkey
\* is removed over a bare entry.
Apart == ~Overlaps /\ ~RemovesBare

Stages ==
  {"out", "in", "verify"} \cup S!Passes \cup S!Establish \cup S!Retire \cup S!Writes
Jobs == [at : Stages, does : {"none", "add", "cleanup", "remove", "rebuild"},
         login : Passkeys, cred : S!Creds, key : Nat, minted : Nat,
         base : S!Entries, tries : 0..(Attempts - 1)]

\* What a session works on: the credential its ceremony is about, or the one it
\* is logging in with.
Working(s) == job[s].does # "none"
Works(s, c) ==
  \/ job[s].cred = c /\ Working(s)
  \/ job[s].login = c /\ job[s].at \in S!Passes

OneWorker ==
  \A s, t \in Sessions, c \in S!Creds : Works(s, c) /\ Works(t, c) => s = t

\* Each place belongs to one kind of work, and only a write holds a reading.
DoingOf(s) ==
  /\ ~Working(s) <=> job[s].at \in {"out", "in"} \cup S!Passes
  /\ job[s].at \in {"list", "verify", "complete"} \cup S!Establish => job[s].does = "add"
  /\ job[s].at = "rebuild" => job[s].does = "rebuild"
  /\ job[s].at \in S!Retire \cup {"drop"} => job[s].does \in {"cleanup", "remove"}
  /\ job[s].base # S!Nothing => job[s].at \in S!Writes

\* What a session's place says of the stores: an establishment stands behind
\* its entry, the document lists last, and a retirement strikes, rotates,
\* deletes and drops in this order.
PlacedOf(s) ==
  /\ job[s].at \in S!Passes => job[s].login \in records
  /\ job[s].at \in S!Establish => registry.of[S!Cred(s)] # "no"
  /\ job[s].at = "publish" => S!Cred(s) \in records
  /\ job[s].at \in {"rotate", "adopt", "readopt", "delete", "drop"} => S!Cred(s) \notin listed
  /\ job[s].at \in {"adopt", "readopt", "delete", "drop"} => S!Cred(s) \notin wraps
  /\ job[s].at = "drop" /\ S!Cred(s) \in records => S!Cred(s) \in left

StandingInv ==
  /\ S!TypeOK /\ job \in [Sessions -> Jobs]
  /\ OneWorker
  /\ \A s \in Sessions : DoingOf(s) /\ PlacedOf(s)
  /\ S!ResidueIsNamed /\ S!AnchorStands

\* The account's own stores.
StoresTyped ==
  /\ listed \subseteq S!Creds /\ wraps \subseteq wrapped /\ wrapped \subseteq S!Creds
  /\ records \subseteq S!Creds /\ left \subseteq S!Creds
  /\ registry \in S!Entries /\ epoch \in Nat /\ registry.seal <= epoch
  /\ tears \in 0..MaxTears

\* A step of session s touches the credential it works on and no other; a
\* sweep may wrap whatever is listed.
Elsewhere(s) ==
  \A c \in S!Creds : ~(Working(s) /\ c = S!Cred(s)) =>
    /\ registry'.of[c] = registry.of[c]
    /\ c \in listed' <=> c \in listed
    /\ c \in records' <=> c \in records
    /\ c \in wraps' => c \in wraps \cup listed

\* What the step leaves of the credential it is about.
Own(s) ==
  Working(s) =>
    /\ registry'.of[S!Cred(s)] = "no" =>
         /\ S!Cred(s) \notin listed' \cup wraps'
         /\ S!Cred(s) \in records' => S!Cred(s) \in left'
    /\ S!Cred(s) \in listed' => S!Cred(s) \in records'

LEMMA Bounds ==
  ASSUME S!StandingAssumption
  PROVE  Attempts \in Nat /\ Attempts >= 1 /\ MaxTears \in Nat /\ Oldest \in S!Creds
         /\ Passkeys \subseteq S!Creds /\ Remembered \subseteq Sessions
  BY DEF S!StandingAssumption, S!Creds

LEMMA NothingTyped == S!Nothing \in S!Entries
  BY DEF S!Nothing, S!Entries

LEMMA OutTyped ==
  ASSUME S!StandingAssumption PROVE S!Out \in Jobs
  BY Bounds, NothingTyped DEF S!Out, Jobs, Stages, S!StandingAssumption

\* One session moves, and the stores change as it may change them.
LEMMA StepOf ==
  ASSUME S!StandingAssumption, StandingInv, NEW s \in Sessions, NEW j \in Jobs,
         job' = [job EXCEPT ![s] = j],
         StoresTyped', epoch' >= epoch, j.key <= epoch', j.minted <= epoch',
         Elsewhere(s), Own(s), left \subseteq left',
         DoingOf(s)', PlacedOf(s)',
         \A c \in S!Creds : Works(s, c)' =>
           Works(s, c) \/ \A t \in Sessions \ {s} : ~Works(t, c)
  PROVE  StandingInv'
<1>1. /\ job \in [Sessions -> Jobs] /\ job' \in [Sessions -> Jobs] /\ job'[s] = j
      /\ \A t \in Sessions \ {s} : job'[t] = job[t]
  BY DEF StandingInv
<1>2. S!TypeOK'
  <2>1. epoch \in Nat /\ epoch' \in Nat
    BY DEF StandingInv, S!TypeOK, StoresTyped
  <2>2. ASSUME NEW t \in Sessions
        PROVE  job'[t].key \in 0..epoch' /\ job'[t].minted \in 0..epoch'
    <3>1. CASE t = s
      BY <1>1, <2>1, <3>1 DEF Jobs
    <3>2. CASE t # s
      <4>1. job[t].key \in 0..epoch /\ job[t].minted \in 0..epoch
        BY DEF StandingInv, S!TypeOK
      <4> QED
        BY <1>1, <2>1, <3>2, <4>1
    <3> QED
      BY <3>1, <3>2
  <2>3. ASSUME NEW t \in Sessions
        PROVE  /\ job'[t].at \in Stages
               /\ job'[t].does \in {"none", "add", "cleanup", "remove", "rebuild"}
               /\ job'[t].login \in Passkeys /\ job'[t].cred \in S!Creds
               /\ job'[t].base \in S!Entries /\ job'[t].tries \in 0..(Attempts - 1)
    BY <1>1 DEF Jobs
  <2> QED
    BY <2>2, <2>3 DEF S!TypeOK, StoresTyped, Stages
<1>3. OneWorker'
  <2> SUFFICES ASSUME NEW t \in Sessions, NEW u \in Sessions, NEW c \in S!Creds,
                      Works(t, c)', Works(u, c)'
               PROVE  t = u
    BY DEF OneWorker
  <2>1. \A v \in Sessions \ {s} : Works(v, c)' <=> Works(v, c)
    BY <1>1 DEF Works, Working
  <2> QED
    BY <2>1 DEF StandingInv, OneWorker
<1>4. ASSUME NEW t \in Sessions PROVE DoingOf(t)' /\ PlacedOf(t)'
  <2>1. CASE t = s
    BY <2>1
  <2>2. CASE t # s
    <3>1. job'[t] = job[t] /\ DoingOf(t) /\ PlacedOf(t) /\ job[t] \in Jobs
      BY <1>1, <2>2 DEF StandingInv
    <3>2. DoingOf(t)'
      BY <3>1 DEF DoingOf, Working
    <3>3. job[t].cred \in S!Creds /\ job[t].login \in S!Creds
      BY <3>1, Bounds DEF Jobs
    <3>4. Working(t) => ~(Working(s) /\ job[t].cred = S!Cred(s))
      BY <2>2, <3>3 DEF StandingInv, OneWorker, Works, S!Cred
    <3>5. job[t].at \in S!Passes => ~(Working(s) /\ job[t].login = S!Cred(s))
      BY <2>2, <3>3 DEF StandingInv, OneWorker, Works, S!Cred
    <3>6. job[t].at \in S!Passes => job[t].login \in records'
      BY <3>1, <3>3, <3>5 DEF PlacedOf, Elsewhere
    <3>7. ASSUME Working(t)
          PROVE  /\ registry'.of[job[t].cred] = registry.of[job[t].cred]
                 /\ job[t].cred \in listed' <=> job[t].cred \in listed
                 /\ job[t].cred \in records' <=> job[t].cred \in records
                 /\ job[t].cred \in wraps' => job[t].cred \in wraps \cup listed
      BY <3>3, <3>4, <3>7 DEF Elsewhere
    <3>8. job[t].at \in S!Establish \cup S!Retire \cup {"drop"} => Working(t)
      BY <3>1 DEF DoingOf, S!Establish, S!Retire, S!Passes
    <3>9. PlacedOf(t)'
      BY <3>1, <3>6, <3>7, <3>8 DEF PlacedOf, S!Cred, S!Establish, S!Retire
    <3> QED
      BY <3>2, <3>9
  <2> QED
    BY <2>1, <2>2
<1>5. ASSUME NEW c \in S!Creds
      PROVE  /\ registry'.of[c] = "no" =>
                  c \notin listed' \cup wraps' /\ (c \in records' => c \in left')
             /\ c \in listed' => c \in records'
  <2>1. CASE Working(s) /\ c = S!Cred(s)
    BY <2>1 DEF Own
  <2>2. CASE ~(Working(s) /\ c = S!Cred(s))
    BY <2>2 DEF Elsewhere, StandingInv, S!ResidueIsNamed, S!AnchorStands
  <2> QED
    BY <2>1, <2>2
<1>6. S!ResidueIsNamed' /\ S!AnchorStands'
  BY <1>2, <1>5 DEF S!ResidueIsNamed, S!AnchorStands, StoresTyped
<1> QED
  BY <1>1, <1>2, <1>3, <1>4, <1>6 DEF StandingInv

\* Where a session that moves on within its work comes to.
Fits(s, at) ==
  /\ at \in Stages /\ (at \in S!Passes => job[s].at \in S!Passes)
  /\ ~Working(s) <=> at \in {"out", "in"} \cup S!Passes
  /\ at \in {"list", "verify", "complete"} \cup S!Establish => job[s].does = "add"
  /\ at = "rebuild" => job[s].does = "rebuild"
  /\ at \in S!Retire \cup {"drop"} => job[s].does \in {"cleanup", "remove"}

\* What the place it comes to says of the stores.
Found(s, at) ==
  /\ at \in S!Establish => registry'.of[S!Cred(s)] # "no"
  /\ at = "publish" => S!Cred(s) \in records'
  /\ at \in {"rotate", "adopt", "readopt", "delete", "drop"} => S!Cred(s) \notin listed'
  /\ at \in {"adopt", "readopt", "delete", "drop"} => S!Cred(s) \notin wraps'
  /\ at = "drop" /\ S!Cred(s) \in records' => S!Cred(s) \in left'

\* The stores, as a step of session s may change them.
Kept(s) ==
  StoresTyped' /\ epoch' >= epoch /\ Elsewhere(s) /\ Own(s) /\ left \subseteq left'

LEMMA Shapes ==
  ASSUME StandingInv, NEW s \in Sessions
  PROVE  /\ job \in [Sessions -> Jobs] /\ job[s] \in Jobs
         /\ S!Cred(s) \in S!Creds /\ job[s].login \in Passkeys
         /\ job[s].key \in Nat /\ job[s].minted \in Nat /\ epoch \in Nat
         /\ job[s].key <= epoch /\ job[s].minted <= epoch
         /\ DoingOf(s) /\ PlacedOf(s) /\ StoresTyped
<1>1. job[s] \in Jobs
  BY DEF StandingInv
<1>2. job[s].key \in 0..epoch /\ job[s].minted \in 0..epoch /\ epoch \in Nat
  BY DEF StandingInv, S!TypeOK
<1> QED
  BY <1>1, <1>2 DEF StandingInv, S!TypeOK, StoresTyped, Jobs, S!Cred

LEMMA TearsTyped ==
  ASSUME S!StandingAssumption, StandingInv, S!Fine \/ S!Torn
  PROVE  tears' \in 0..MaxTears
  BY Bounds DEF StandingInv, S!TypeOK, S!Fine, S!Torn

LEMMA Untouched ==
  ASSUME S!StandingAssumption, StandingInv, NEW s \in Sessions,
         UNCHANGED S!account, S!Fine \/ S!Torn
  PROVE  Kept(s)
<1>1. tears' \in 0..MaxTears
  BY TearsTyped
<1> QED
  BY <1>1, Shapes
  DEF Kept, StoresTyped, Elsewhere, Own, S!account, S!roster, StandingInv,
      S!ResidueIsNamed,
      S!AnchorStands

\* The session keeps its work and moves to another place of it.
LEMMA MovesOn ==
  ASSUME S!StandingAssumption, StandingInv, NEW s \in Sessions, NEW at,
         S!Goes(s, at), Kept(s), Fits(s, at), Found(s, at)
  PROVE  StandingInv'
<1> DEFINE j == [job[s] EXCEPT !.at = at, !.base = S!Nothing, !.tries = 0]
<1>0. 0 \in 0..(Attempts - 1) /\ at \in Stages
  BY Bounds DEF Fits
<1>1. j \in Jobs
  BY <1>0, Shapes, NothingTyped DEF Jobs
<1>2. job' = [job EXCEPT ![s] = j] /\ job'[s] = j
  BY Shapes DEF S!Goes
<1>3. /\ j.at = at /\ j.does = job[s].does /\ j.login = job[s].login
      /\ j.cred = job[s].cred /\ j.key = job[s].key /\ j.minted = job[s].minted
      /\ j.base = S!Nothing
  BY Shapes DEF Jobs
<1> HIDE DEF j
<1>4. epoch' \in Nat /\ j.key <= epoch' /\ j.minted <= epoch'
  BY <1>3, Shapes DEF Kept, StoresTyped
<1>5. DoingOf(s)'
  BY <1>2, <1>3 DEF DoingOf, Fits, Working
<1>6. at \in S!Passes => job[s].login \in records'
  <2> SUFFICES ASSUME at \in S!Passes PROVE job[s].login \in records'
    OBVIOUS
  <2>1. ~Working(s) /\ job[s].at \in S!Passes /\ job[s].login \in S!Creds
    BY Shapes, Bounds DEF Fits
  <2>2. job[s].login \in records
    BY <2>1, Shapes DEF PlacedOf
  <2> QED
    BY <2>1, <2>2 DEF Kept, Elsewhere
<1>7. PlacedOf(s)'
  BY <1>2, <1>3, <1>6 DEF PlacedOf, Found, S!Cred
<1>8. \A c \in S!Creds : Works(s, c)' => Works(s, c)
  BY <1>2, <1>3 DEF Works, Working, Fits
<1> QED
  BY <1>1, <1>2, <1>4, <1>5, <1>7, <1>8, StepOf DEF Kept

\* The session is done with what it did.
LEMMA RestsOn ==
  ASSUME S!StandingAssumption, StandingInv, NEW s \in Sessions, S!Rests(s), Kept(s)
  PROVE  StandingInv'
<1> DEFINE j == S!Rested(s)
<1>1. /\ j \in Jobs /\ j.at = "in" /\ j.does = "none" /\ j.key = job[s].key
      /\ j.minted = 0 /\ j.base = S!Nothing
  BY Shapes, OutTyped DEF S!Rested, Jobs, Stages, S!Out
<1>2. job' = [job EXCEPT ![s] = j] /\ job'[s] = j
  BY Shapes DEF S!Rests
<1> HIDE DEF j
<1>3. epoch' \in Nat /\ j.key <= epoch' /\ j.minted <= epoch'
  BY <1>1, Shapes DEF Kept, StoresTyped
<1>4. DoingOf(s)' /\ PlacedOf(s)' /\ \A c \in S!Creds : ~Works(s, c)'
  BY <1>1, <1>2 DEF DoingOf, PlacedOf, Works, Working, S!Passes, S!Establish, S!Retire
<1> QED
  BY <1>1, <1>2, <1>3, <1>4, StepOf DEF Kept

LEMMA GivesUpOn ==
  ASSUME S!StandingAssumption, StandingInv, NEW s \in Sessions, S!GivesUp(s), Kept(s),
         job[s].at \notin {"out", "in", "verify"}
  PROVE  StandingInv'
<1> USE DEF S!At
<1>1. CASE job[s].at = "sweep"
  <2>1. S!Goes(s, "reseal")
    BY <1>1 DEF S!GivesUp, S!Establish
  <2>2. Fits(s, "reseal") /\ Found(s, "reseal")
    BY <1>1, Shapes DEF Fits, Found, DoingOf, Stages, S!Passes, S!Establish, S!Retire
  <2> QED
    BY <2>1, <2>2, MovesOn
<1>2. CASE job[s].at = "reseal"
  <2>1. S!Goes(s, "look")
    BY <1>2 DEF S!GivesUp, S!Establish
  <2>2. Fits(s, "look") /\ Found(s, "look")
    BY <1>2, Shapes DEF Fits, Found, DoingOf, Stages, S!Passes, S!Establish, S!Retire
  <2> QED
    BY <2>1, <2>2, MovesOn
<1>3. CASE job[s].at \in S!Establish
  <2>1. S!Goes(s, "verify")
    BY <1>3 DEF S!GivesUp, S!Establish
  <2>2. Fits(s, "verify") /\ Found(s, "verify")
    BY <1>3, Shapes DEF Fits, Found, DoingOf, Stages, S!Passes, S!Establish, S!Retire
  <2> QED
    BY <2>1, <2>2, MovesOn
<1>4. CASE job[s].at \notin S!Establish \cup {"sweep", "reseal"}
  <2>1. S!Rests(s)
    BY <1>4 DEF S!GivesUp
  <2> QED
    BY <2>1, RestsOn
<1> QED
  BY <1>1, <1>2, <1>3, <1>4

\* A call that took effect, answered or not.
LEMMA AnswersOn ==
  ASSUME S!StandingAssumption, StandingInv, NEW s \in Sessions, NEW at, S!Answers(s, at),
         Kept(s), Fits(s, at), Found(s, at), job[s].at \notin {"out", "in", "verify"}
  PROVE  StandingInv'
  BY MovesOn, GivesUpOn DEF S!Answers

-----------------------------------------------------------------------------
\* The login, its passes, and the ends of a session.

\* The session forgets what it did, or starts over.
LEMMA StartsOver ==
  ASSUME S!StandingAssumption, StandingInv, NEW s \in Sessions,
         S!LogOut(s) \/ S!Close(s)
  PROVE  StandingInv'
<1>1. job' = [job EXCEPT ![s] = S!Out] /\ Kept(s)
  BY Untouched DEF S!LogOut, S!Close, S!Fine
<1>2. /\ S!Out \in Jobs /\ S!Out.at = "out" /\ S!Out.does = "none" /\ S!Out.key = 0
      /\ S!Out.minted = 0 /\ S!Out.base = S!Nothing /\ job'[s] = S!Out
  BY <1>1, OutTyped, Shapes DEF S!Out
<1>3. S!Out.key <= epoch' /\ S!Out.minted <= epoch'
  BY <1>1, <1>2 DEF Kept, StoresTyped
<1>4. DoingOf(s)' /\ PlacedOf(s)' /\ \A c \in S!Creds : ~Works(s, c)'
  BY <1>2 DEF DoingOf, PlacedOf, Works, Working, S!Passes, S!Establish, S!Retire
<1> QED
  BY <1>1, <1>2, <1>3, <1>4, StepOf DEF Kept

\* A credential nobody else works on is taken up.
LEMMA LogInStep ==
  ASSUME S!StandingAssumption, Apart, StandingInv, NEW s \in Sessions, NEW c \in Passkeys,
         S!LogIn(s, c)
  PROVE  StandingInv'
<1> DEFINE at == IF s \in Remembered THEN "sweep" ELSE "reseal"
           j == [S!Out EXCEPT !.at = at, !.login = c, !.key = epoch]
<1>1. /\ job[s].at = "out" /\ c \in records /\ ~S!Busy(s, c)
      /\ job' = [job EXCEPT ![s] = j] /\ UNCHANGED <<S!account, tears>>
  BY DEF S!LogIn, Apart, S!At
<1>2. j \in Jobs /\ at \in S!Passes
  BY OutTyped, Shapes DEF Jobs, Stages, S!Passes
<1>3. /\ j.at = at /\ j.does = "none" /\ j.login = c /\ j.key = epoch /\ j.minted = 0
      /\ j.base = S!Nothing
  BY DEF S!Out
<1> HIDE DEF j, at
<1>4. Kept(s) /\ job'[s] = j /\ epoch' = epoch /\ records' = records
  BY <1>1, Untouched, Shapes DEF S!Fine, S!account, S!roster
<1>5. DoingOf(s)' /\ PlacedOf(s)'
  BY <1>1, <1>2, <1>3, <1>4
  DEF DoingOf, PlacedOf, Working, S!Passes, S!Establish, S!Retire
<1>6. \A d \in S!Creds : Works(s, d)' => \A t \in Sessions \ {s} : ~Works(t, d)
  BY <1>1, <1>3, <1>4 DEF Works, Working, S!Busy
<1>7. j.key <= epoch' /\ j.minted <= epoch'
  BY <1>3, <1>4, Shapes
<1> QED
  BY <1>1, <1>2, <1>3, <1>4, <1>5, <1>6, <1>7, StepOf DEF Kept

LEMMA LookStep ==
  ASSUME S!StandingAssumption, StandingInv, NEW s \in Sessions, S!Look(s)
  PROVE  StandingInv'
<1>1. Kept(s) /\ job[s].at = "look"
  BY Untouched DEF S!Look, S!Fine, S!At
<1>2. CASE S!Opens(s) /\ S!Mends(job[s].login)
  <2> DEFINE j == [job[s] EXCEPT !.at = "rebuild", !.does = "rebuild",
                                 !.cred = job[s].login]
  <2>1. job' = [job EXCEPT ![s] = j] /\ job'[s] = j
    BY <1>2, Shapes DEF S!Look
  <2>2. j \in Jobs
    BY Shapes, Bounds DEF Jobs, Stages, S!Writes
  <2>3. /\ j.at = "rebuild" /\ j.does = "rebuild" /\ j.cred = job[s].login
        /\ j.key = job[s].key /\ j.minted = job[s].minted /\ j.base = job[s].base
    BY Shapes DEF Jobs
  <2> HIDE DEF j
  <2>4. job[s].base = S!Nothing
    BY <1>1, Shapes DEF DoingOf, S!Writes
  <2>5. DoingOf(s)' /\ PlacedOf(s)'
    BY <2>1, <2>3, <2>4
    DEF DoingOf, PlacedOf, Working, S!Passes, S!Establish, S!Retire
  <2>6. \A c \in S!Creds : Works(s, c)' => Works(s, c)
    BY <1>1, <2>1, <2>3 DEF Works, Working, S!Passes
  <2>7. epoch' \in Nat /\ j.key <= epoch' /\ j.minted <= epoch'
    BY <1>1, <2>3, Shapes DEF Kept, StoresTyped
  <2> QED
    BY <1>1, <2>1, <2>2, <2>5, <2>6, <2>7, StepOf DEF Kept
<1>3. CASE ~(S!Opens(s) /\ S!Mends(job[s].login))
  BY <1>1, <1>3, RestsOn DEF S!Look
<1> QED
  BY <1>2, <1>3

\* A key is taken up with the registry's re-seal, or is not.
LEMMA AdoptsOn ==
  ASSUME S!StandingAssumption, StandingInv, NEW s \in Sessions, NEW at,
         NEW fresh \in Nat, fresh <= epoch',
         S!Adopts(s, fresh, at) \/ S!StaysBehind(s, at),
         Kept(s), Fits(s, at), Found(s, at), job[s].at \notin S!Writes
  PROVE  StandingInv'
<1>1. CASE S!Goes(s, at)
  BY <1>1, MovesOn
<1>2. CASE job' = [job EXCEPT ![s].at = at, ![s].key = fresh]
  <2> DEFINE j == [job[s] EXCEPT !.at = at, !.key = fresh]
  <2>1. job' = [job EXCEPT ![s] = j] /\ job'[s] = j
    BY <1>2, Shapes
  <2>2. j \in Jobs
    BY Shapes DEF Jobs, Fits
  <2>3. /\ j.at = at /\ j.does = job[s].does /\ j.login = job[s].login
        /\ j.cred = job[s].cred /\ j.key = fresh /\ j.minted = job[s].minted
        /\ j.base = job[s].base
    BY Shapes DEF Jobs
  <2> HIDE DEF j
  <2>4. job[s].base = S!Nothing
    BY Shapes DEF DoingOf
  <2>5. DoingOf(s)'
    BY <2>1, <2>3, <2>4 DEF DoingOf, Fits, Working
  <2>6. at \in S!Passes => job[s].login \in records'
    <3> SUFFICES ASSUME at \in S!Passes PROVE job[s].login \in records'
      OBVIOUS
    <3>1. ~Working(s) /\ job[s].at \in S!Passes /\ job[s].login \in S!Creds
      BY Shapes, Bounds DEF Fits
    <3>2. job[s].login \in records
      BY <3>1, Shapes DEF PlacedOf
    <3> QED
      BY <3>1, <3>2 DEF Kept, Elsewhere
  <2>7. PlacedOf(s)'
    BY <2>1, <2>3, <2>6 DEF PlacedOf, Found, S!Cred
  <2>8. \A c \in S!Creds : Works(s, c)' => Works(s, c)
    BY <2>1, <2>3 DEF Works, Working, Fits
  <2>9. j.key <= epoch' /\ j.minted <= epoch'
    BY <2>3, Shapes DEF Kept, StoresTyped
  <2> QED
    BY <2>1, <2>2, <2>5, <2>7, <2>8, <2>9, StepOf DEF Kept
<1> QED
  BY <1>1, <1>2 DEF S!Adopts, S!StaysBehind

LEMMA SweepStep ==
  ASSUME S!StandingAssumption, StandingInv, NEW s \in Sessions, S!Sweep(s)
  PROVE  StandingInv'
<1>1. /\ job[s].at = "sweep" /\ wraps' = listed /\ wrapped' = wrapped \cup listed
      /\ UNCHANGED <<listed, records, left>>
  BY DEF S!Sweep, S!At, S!Escrowed
<1>2. ~Working(s)
  BY <1>1, Shapes DEF DoingOf, S!Passes
<1>3. Fits(s, "reseal") /\ Found(s, "reseal")
  BY <1>1, <1>2 DEF Fits, Found, Stages, S!Passes, S!Establish, S!Retire
<1>4. ASSUME StoresTyped', epoch' >= epoch, registry'.of = registry.of PROVE Kept(s)
  BY <1>1, <1>2, <1>4 DEF Kept, Elsewhere, Own
<1>5. tears' \in 0..MaxTears
  BY TearsTyped DEF S!Sweep, S!Adopts, S!StaysBehind
<1>6. CASE wraps \subseteq listed
  <2>1. S!Fine /\ S!Goes(s, "reseal") /\ UNCHANGED <<epoch, registry>>
    BY <1>6 DEF S!Sweep
  <2>2. StoresTyped' /\ epoch' >= epoch
    BY <1>1, <1>5, <2>1, Shapes DEF StoresTyped
  <2> QED
    BY <1>3, <1>4, <2>1, <2>2, MovesOn
<1>7. CASE ~(wraps \subseteq listed)
  <2>1. /\ epoch' = epoch + 1
        /\ S!Adopts(s, epoch + 1, "reseal") \/ S!StaysBehind(s, "reseal")
    BY <1>7 DEF S!Sweep
  <2>2. epoch + 1 \in Nat /\ epoch + 1 <= epoch' /\ epoch' >= epoch
    BY <2>1, Shapes
  <2>3. /\ registry' \in S!Entries /\ registry'.of = registry.of
        /\ registry'.seal \in {registry.seal, epoch + 1}
    BY <2>1, <2>2, Shapes DEF S!Adopts, S!StaysBehind, StoresTyped, S!Entries
  <2>4. registry.seal \in Nat /\ registry.seal <= epoch
    BY Shapes DEF StoresTyped, S!Entries
  <2>5. StoresTyped'
    BY <1>1, <1>5, <2>1, <2>2, <2>3, <2>4, Shapes DEF StoresTyped
  <2>6. Kept(s)
    BY <1>4, <2>2, <2>3, <2>5
  <2>7. job[s].at \notin S!Writes
    BY <1>1 DEF S!Writes
  <2> HIDE DEF S!Sweep
  <2> QED
    BY <1>3, <2>1, <2>2, <2>6, <2>7, AdoptsOn
<1> QED
  BY <1>6, <1>7

LEMMA ResealStep ==
  ASSUME S!StandingAssumption, StandingInv, NEW s \in Sessions, S!Reseal(s)
  PROVE  StandingInv'
<1>1. /\ job[s].at = "reseal" /\ UNCHANGED <<listed, S!roster, records, left, tears>>
      /\ S!Goes(s, "look")
  BY DEF S!Reseal, S!At
<1>2. ~Working(s)
  BY <1>1, Shapes DEF DoingOf, S!Passes
<1>3. Fits(s, "look") /\ Found(s, "look")
  BY <1>1, <1>2 DEF Fits, Found, Stages, S!Passes, S!Establish, S!Retire
<1>4. /\ registry' \in S!Entries /\ registry'.of = registry.of
      /\ registry'.seal \in {registry.seal, job[s].key}
  BY Shapes DEF S!Reseal, StoresTyped, S!Entries
<1>5. Kept(s)
  BY <1>1, <1>2, <1>4, Shapes DEF Kept, Elsewhere, Own, StoresTyped, S!roster
<1> QED
  BY <1>1, <1>3, <1>5, MovesOn

-----------------------------------------------------------------------------
\* The registry's writes.

\* A write that landed goes on to the establishment, to the late adoption of a
\* removal, or nowhere.
LEMMA AfterWriteOn ==
  ASSUME S!StandingAssumption, StandingInv, NEW s \in Sessions, S!AfterWrite(s), Kept(s),
         job[s].at \in S!Writes,
         job[s].at = "list" => registry'.of[S!Cred(s)] # "no",
         job[s].at = "drop" => S!Cred(s) \notin listed' \cup wraps'
  PROVE  StandingInv'
<1> USE DEF S!At
<1>0. Working(s)
  BY Shapes DEF DoingOf, S!Writes, S!Passes
<1>1. CASE job[s].at = "list"
  <2>1. PICK at \in {"wrap", "bind"} : S!Goes(s, at)
    BY <1>1 DEF S!AfterWrite
  <2>2. Fits(s, at) /\ Found(s, at)
    BY <1>0, <1>1, <2>1, Shapes
    DEF Fits, Found, DoingOf, Stages, S!Passes, S!Establish, S!Retire
  <2> QED
    BY <2>1, <2>2, MovesOn
<1>2. CASE job[s].at = "drop" /\ job[s].does = "remove" /\ job[s].minted # 0
  <2>1. S!Goes(s, "readopt")
    BY <1>2 DEF S!AfterWrite
  <2>2. Fits(s, "readopt") /\ Found(s, "readopt")
    BY <1>0, <1>2, Shapes DEF Fits, Found, Stages, S!Passes, S!Establish, S!Retire
  <2> QED
    BY <2>1, <2>2, MovesOn
<1>3. CASE /\ job[s].at # "list"
           /\ ~(job[s].at = "drop" /\ job[s].does = "remove" /\ job[s].minted # 0)
  BY <1>3, RestsOn DEF S!AfterWrite
<1> QED
  BY <1>1, <1>2, <1>3

LEMMA ReadStep ==
  ASSUME S!StandingAssumption, StandingInv, NEW s \in Sessions, S!Read(s)
  PROVE  StandingInv'
<1>1. job[s].at \in S!Writes /\ UNCHANGED <<S!account, tears>>
  BY DEF S!Read
<1>2. Kept(s)
  BY <1>1, Untouched DEF S!Fine
<1>3. CASE S!GivesUp(s)
  BY <1>1, <1>2, <1>3, GivesUpOn DEF S!Writes
<1>4. CASE S!At(s, "drop") /\ S!AfterWrite(s)
  <2>1. S!Cred(s) \notin listed' \cup wraps'
    BY <1>1, <1>4, Shapes DEF PlacedOf, S!At, S!account, S!roster
  <2> QED
    BY <1>1, <1>2, <1>4, <2>1, AfterWriteOn DEF S!At
<1>5. CASE job' = [job EXCEPT ![s].base = registry]
  <2> DEFINE j == [job[s] EXCEPT !.base = registry]
  <2>1. job' = [job EXCEPT ![s] = j] /\ job'[s] = j
    BY <1>5, Shapes
  <2>2. j \in Jobs
    BY Shapes DEF Jobs, StoresTyped
  <2>3. /\ j.at = job[s].at /\ j.does = job[s].does /\ j.login = job[s].login
        /\ j.cred = job[s].cred /\ j.key = job[s].key /\ j.minted = job[s].minted
    BY Shapes DEF Jobs
  <2> HIDE DEF j
  <2>4. DoingOf(s)'
    BY <1>1, <2>1, <2>3, Shapes DEF DoingOf, Working
  <2>5. PlacedOf(s)'
    BY <1>1, <2>1, <2>3, Shapes DEF PlacedOf, S!Cred, S!account, S!roster
  <2>6. \A c \in S!Creds : Works(s, c)' => Works(s, c)
    BY <2>1, <2>3 DEF Works, Working
  <2>7. j.key <= epoch' /\ j.minted <= epoch'
    BY <1>1, <2>3, Shapes DEF S!account, S!roster
  <2> QED
    BY <1>2, <2>1, <2>2, <2>4, <2>5, <2>6, <2>7, StepOf DEF Kept
<1> QED
  BY <1>3, <1>4, <1>5 DEF S!Read

LEMMA PutStep ==
  ASSUME S!StandingAssumption, StandingInv, NEW s \in Sessions, S!Put(s)
  PROVE  StandingInv'
<1>1. /\ job[s].base # S!Nothing /\ job[s].at \in S!Writes /\ Working(s)
      /\ UNCHANGED <<listed, S!roster, records, left>>
  BY Shapes DEF S!Put, DoingOf, S!Writes, S!Passes
<1>2. tears' \in 0..MaxTears
  BY TearsTyped DEF S!Put
<1>3. CASE S!Matches(s) /\ registry' = [job[s].base EXCEPT !.of[S!Cred(s)] = S!Upserts(s)]
           /\ (S!AfterWrite(s) \/ S!GivesUp(s))
  <2>1. /\ registry' = [registry EXCEPT !.of[S!Cred(s)] = S!Upserts(s)]
        /\ registry \in S!Entries /\ S!Cred(s) \in S!Creds /\ registry.seal <= epoch
    BY <1>3, Shapes DEF S!Matches, StoresTyped
  <2>2. /\ S!Upserts(s) \in {"no", "bare", "full"}
        /\ S!Upserts(s) = "no" => job[s].at = "drop"
        /\ job[s].at = "list" => S!Upserts(s) = "bare"
    BY <1>1 DEF S!Upserts, S!At, S!Writes
  <2>3. /\ registry' \in S!Entries /\ registry'.seal = registry.seal
        /\ registry'.of[S!Cred(s)] = S!Upserts(s)
        /\ \A c \in S!Creds : c # S!Cred(s) => registry'.of[c] = registry.of[c]
    BY <2>1, <2>2 DEF S!Entries
  <2>4. StoresTyped' /\ epoch' = epoch /\ epoch \in Nat
    BY <1>1, <1>2, <2>1, <2>3, Shapes DEF StoresTyped, S!roster
  <2>5. Elsewhere(s)
    BY <1>1, <2>3 DEF Elsewhere, S!roster
  <2>6. Own(s)
    BY <1>1, <2>1, <2>2, <2>3, Shapes
    DEF Own, PlacedOf, S!roster, StandingInv, S!AnchorStands
  <2>7. Kept(s)
    BY <1>1, <2>4, <2>5, <2>6 DEF Kept
  <2>8. /\ job[s].at = "list" => registry'.of[S!Cred(s)] # "no"
        /\ job[s].at = "drop" => S!Cred(s) \notin listed' \cup wraps'
    BY <1>1, <2>2, <2>3, Shapes DEF PlacedOf, S!roster
  <2>9. job[s].at \notin {"out", "in", "verify"}
    BY <1>1 DEF S!Writes
  <2> QED
    BY <1>1, <1>3, <2>7, <2>8, <2>9, AfterWriteOn, GivesUpOn
<1>4. CASE /\ IF S!Signs(s) /\ job[s].tries + 1 < Attempts
              THEN job' = [job EXCEPT ![s].base = S!Nothing, ![s].tries = @ + 1]
              ELSE S!GivesUp(s)
           /\ S!Fine /\ UNCHANGED registry
  <2>1. Kept(s)
    BY <1>1, <1>4, Untouched DEF S!account
  <2>2. CASE S!GivesUp(s)
    BY <1>1, <2>1, <2>2, GivesUpOn DEF S!Writes
  <2>3. CASE /\ job[s].tries + 1 < Attempts
             /\ job' = [job EXCEPT ![s].base = S!Nothing, ![s].tries = @ + 1]
    <3> DEFINE j == [job[s] EXCEPT !.base = S!Nothing, !.tries = @ + 1]
    <3>1. job' = [job EXCEPT ![s] = j] /\ job'[s] = j
      BY <2>3, Shapes
    <3>2. job[s].tries + 1 \in 0..(Attempts - 1)
      BY <2>3, Shapes, Bounds DEF Jobs
    <3>3. j \in Jobs
      BY <3>2, Shapes, NothingTyped DEF Jobs
    <3>4. /\ j.at = job[s].at /\ j.does = job[s].does /\ j.login = job[s].login
          /\ j.cred = job[s].cred /\ j.key = job[s].key /\ j.minted = job[s].minted
          /\ j.base = S!Nothing
      BY Shapes DEF Jobs
    <3> HIDE DEF j
    <3>5. DoingOf(s)'
      BY <3>1, <3>4, Shapes DEF DoingOf, Working
    <3>6. PlacedOf(s)'
      BY <1>1, <1>4, <3>1, <3>4, Shapes DEF PlacedOf, S!Cred, S!roster
    <3>7. \A c \in S!Creds : Works(s, c)' => Works(s, c)
      BY <3>1, <3>4 DEF Works, Working
    <3>8. j.key <= epoch' /\ j.minted <= epoch'
      BY <1>1, <3>4, Shapes DEF S!roster
    <3> QED
      BY <2>1, <3>1, <3>3, <3>5, <3>6, <3>7, <3>8, StepOf DEF Kept
  <2> QED
    BY <1>4, <2>2, <2>3
<1> QED
  BY <1>3, <1>4 DEF S!Put

-----------------------------------------------------------------------------
\* The establishment.

LEMMA AddStep ==
  ASSUME S!StandingAssumption, StandingInv, NEW s \in Sessions, NEW c \in S!Creds, S!Add(s, c)
  PROVE  StandingInv'
<1> DEFINE j == [job[s] EXCEPT !.at = "list", !.does = "add", !.cred = c]
<1>1. /\ job[s].at = "in" /\ S!Fresh(c) /\ job' = [job EXCEPT ![s] = j] /\ job'[s] = j
      /\ UNCHANGED <<S!account, tears>>
  BY Shapes DEF S!Add, S!At
<1>2. j \in Jobs
  BY Shapes DEF Jobs, Stages, S!Writes
<1>3. /\ j.at = "list" /\ j.does = "add" /\ j.login = job[s].login /\ j.cred = c
      /\ j.key = job[s].key /\ j.minted = job[s].minted /\ j.base = job[s].base
  BY Shapes DEF Jobs
<1> HIDE DEF j
<1>4. Kept(s) /\ epoch' = epoch
  BY <1>1, Untouched DEF S!Fine, S!account, S!roster
<1>5. DoingOf(s)' /\ PlacedOf(s)'
  BY <1>1, <1>3, Shapes
  DEF DoingOf, PlacedOf, Working, S!Passes, S!Establish, S!Retire, S!Writes
<1>6. ASSUME NEW d \in S!Creds, Works(s, d)' PROVE \A t \in Sessions \ {s} : ~Works(t, d)
  <2>1. d = c
    BY <1>1, <1>3, <1>6 DEF Works, S!Passes
  <2>2. ASSUME NEW t \in Sessions PROVE ~Works(t, c)
    BY <1>1, Shapes DEF S!Fresh, Works, Working, PlacedOf
  <2> QED
    BY <2>1, <2>2
<1>7. j.key <= epoch' /\ j.minted <= epoch'
  BY <1>3, <1>4, Shapes
<1> QED
  BY <1>1, <1>2, <1>4, <1>5, <1>6, <1>7, StepOf DEF Kept

LEMMA WrapStep ==
  ASSUME S!StandingAssumption, StandingInv, NEW s \in Sessions, S!Wrap(s)
  PROVE  StandingInv'
<1>1. /\ job[s].at = "wrap" /\ wraps' = wraps \cup {S!Cred(s)}
      /\ wrapped' = wrapped \cup {S!Cred(s)}
      /\ UNCHANGED <<listed, epoch, records, left, registry>>
  BY DEF S!Wrap, S!At
<1>2. PICK at \in {"bind", "complete"} : S!Answers(s, at)
  BY DEF S!Wrap
<1>3. Working(s) /\ job[s].does = "add" /\ registry.of[S!Cred(s)] # "no"
  BY <1>1, Shapes DEF DoingOf, PlacedOf, S!Passes, S!Establish
<1>4. tears' \in 0..MaxTears
  BY <1>2, TearsTyped DEF S!Answers
<1>5. Kept(s)
  BY <1>1, <1>3, <1>4, Shapes
  DEF Kept, StoresTyped, Elsewhere, Own, StandingInv, S!AnchorStands
<1>6. Fits(s, at) /\ Found(s, at)
  BY <1>1, <1>2, <1>3
  DEF Fits, Found, Stages, S!Passes, S!Establish, S!Retire, S!Writes
<1> QED
  BY <1>1, <1>2, <1>5, <1>6, AnswersOn

LEMMA BindStep ==
  ASSUME S!StandingAssumption, StandingInv, NEW s \in Sessions, S!Bind(s)
  PROVE  StandingInv'
<1>1. /\ job[s].at = "bind" /\ records' = records \cup {S!Cred(s)}
      /\ UNCHANGED <<listed, S!roster, left, registry>> /\ S!Answers(s, "publish")
  BY DEF S!Bind, S!At
<1>2. Working(s) /\ job[s].does = "add" /\ registry.of[S!Cred(s)] # "no"
  BY <1>1, Shapes DEF DoingOf, PlacedOf, S!Passes, S!Establish
<1>3. tears' \in 0..MaxTears
  BY <1>1, TearsTyped DEF S!Answers
<1>4. Kept(s)
  BY <1>1, <1>2, <1>3, Shapes DEF Kept, StoresTyped, Elsewhere, Own, S!roster
<1>5. Fits(s, "publish") /\ Found(s, "publish")
  BY <1>1, <1>2 DEF Fits, Found, Stages, S!Passes, S!Establish, S!Retire
<1> QED
  BY <1>1, <1>4, <1>5, AnswersOn

LEMMA PublishStep ==
  ASSUME S!StandingAssumption, StandingInv, NEW s \in Sessions, S!Publish(s)
  PROVE  StandingInv'
<1>1. /\ job[s].at = "publish" /\ listed' = listed \cup {S!Cred(s)}
      /\ UNCHANGED <<S!roster, records, left, registry>>
  BY DEF S!Publish, S!At
<1>2. PICK at \in {"complete", "wrap"} : S!Answers(s, at)
  BY DEF S!Publish
<1>3. /\ Working(s) /\ job[s].does = "add" /\ registry.of[S!Cred(s)] # "no"
      /\ S!Cred(s) \in records
  BY <1>1, Shapes DEF DoingOf, PlacedOf, S!Passes, S!Establish
<1>4. tears' \in 0..MaxTears
  BY <1>2, TearsTyped DEF S!Answers
<1>5. Kept(s)
  BY <1>1, <1>3, <1>4, Shapes DEF Kept, StoresTyped, Elsewhere, Own, S!roster
<1>6. Fits(s, at) /\ Found(s, at)
  BY <1>1, <1>2, <1>3
  DEF Fits, Found, Stages, S!Passes, S!Establish, S!Retire, S!Writes
<1> QED
  BY <1>1, <1>2, <1>5, <1>6, AnswersOn

\* What the failed establishment published decides what is taken back.
LEMMA VerifyStep ==
  ASSUME S!StandingAssumption, StandingInv, NEW s \in Sessions, S!Verify(s)
  PROVE  StandingInv'
<1>1. job[s].at = "verify" /\ UNCHANGED S!account /\ (S!Fine \/ S!Torn)
  BY DEF S!Verify, S!At
<1>2. Kept(s) /\ Working(s) /\ job[s].does = "add" /\ job[s].base = S!Nothing
  BY <1>1, Untouched, Shapes DEF DoingOf, S!Passes, S!Establish, S!Writes
<1>3. CASE S!Goes(s, "complete")
  <2>1. Fits(s, "complete") /\ Found(s, "complete")
    BY <1>1, <1>2 DEF Fits, Found, Stages, S!Passes, S!Establish, S!Retire, S!Writes
  <2> QED
    BY <1>2, <1>3, <2>1, MovesOn
<1>4. CASE S!Rests(s)
  BY <1>2, <1>4, RestsOn
<1>5. ASSUME NEW read \in BOOLEAN,
             job' = [job EXCEPT ![s].does = "cleanup",
                       ![s].at = IF S!Published(S!Cred(s), read) THEN "strike" ELSE "delete"]
      PROVE  StandingInv'
  <2> DEFINE at == IF S!Published(S!Cred(s), read) THEN "strike" ELSE "delete"
             j == [job[s] EXCEPT !.does = "cleanup", !.at = at]
  <2>1. job' = [job EXCEPT ![s] = j] /\ job'[s] = j
    BY <1>5, Shapes
  <2>2. j \in Jobs
    BY Shapes DEF Jobs, Stages, S!Retire
  <2>3. /\ j.at = at /\ j.does = "cleanup" /\ j.login = job[s].login
        /\ j.cred = job[s].cred /\ j.key = job[s].key /\ j.minted = job[s].minted
        /\ j.base = job[s].base
    BY Shapes DEF Jobs
  <2>4. at \in {"strike", "delete"} /\ (at = "delete" => S!Cred(s) \notin listed \cup wraps)
    BY Shapes DEF S!Published, StoresTyped
  <2> HIDE DEF j, at
  <2>5. DoingOf(s)'
    BY <1>2, <2>1, <2>3, <2>4 DEF DoingOf, Working, S!Passes, S!Establish, S!Retire
  <2>6. PlacedOf(s)'
    BY <1>1, <2>1, <2>3, <2>4
    DEF PlacedOf, S!Cred, S!Passes, S!Establish, S!account, S!roster
  <2>7. \A c \in S!Creds : Works(s, c)' => Works(s, c)
    BY <1>2, <2>1, <2>3, <2>4 DEF Works, Working, S!Passes
  <2>8. j.key <= epoch' /\ j.minted <= epoch'
    BY <1>1, <2>3, Shapes DEF S!account, S!roster
  <2> QED
    BY <1>2, <2>1, <2>2, <2>5, <2>6, <2>7, <2>8, StepOf DEF Kept
<1> QED
  BY <1>3, <1>4, <1>5 DEF S!Verify

-----------------------------------------------------------------------------
\* The removal, and the retirement.

LEMMA RemoveStep ==
  ASSUME S!StandingAssumption, Apart, StandingInv, NEW s \in Sessions, NEW c \in S!Creds,
         S!Remove(s, c)
  PROVE  StandingInv'
<1> DEFINE j == [job[s] EXCEPT !.at = "strike", !.does = "remove", !.cred = c]
<1>1. /\ job[s].at = "in" /\ ~S!Busy(s, c) /\ job' = [job EXCEPT ![s] = j]
      /\ job'[s] = j /\ UNCHANGED <<S!account, tears>>
  BY Shapes DEF S!Remove, S!At, Apart
<1>2. j \in Jobs
  BY Shapes DEF Jobs, Stages, S!Retire
<1>3. /\ j.at = "strike" /\ j.does = "remove" /\ j.login = job[s].login /\ j.cred = c
      /\ j.key = job[s].key /\ j.minted = job[s].minted /\ j.base = job[s].base
  BY Shapes DEF Jobs
<1> HIDE DEF j
<1>4. Kept(s) /\ epoch' = epoch
  BY <1>1, Untouched DEF S!Fine, S!account, S!roster
<1>5. DoingOf(s)' /\ PlacedOf(s)'
  BY <1>1, <1>3, Shapes
  DEF DoingOf, PlacedOf, Working, S!Passes, S!Establish, S!Retire, S!Writes
<1>6. \A d \in S!Creds : Works(s, d)' => \A t \in Sessions \ {s} : ~Works(t, d)
  BY <1>1, <1>3 DEF Works, Working, S!Busy, S!Passes
<1>7. j.key <= epoch' /\ j.minted <= epoch'
  BY <1>3, <1>4, Shapes
<1> QED
  BY <1>1, <1>2, <1>4, <1>5, <1>6, <1>7, StepOf DEF Kept

LEMMA StrikeStep ==
  ASSUME S!StandingAssumption, StandingInv, NEW s \in Sessions, S!Strike(s)
  PROVE  StandingInv'
<1>1. /\ job[s].at = "strike" /\ listed' = listed \ {S!Cred(s)} /\ S!Answers(s, "rotate")
      /\ UNCHANGED <<S!roster, records, left, registry>>
  BY DEF S!Strike, S!At
<1>2. Working(s) /\ job[s].does \in {"cleanup", "remove"}
  BY <1>1, Shapes DEF DoingOf, S!Passes, S!Retire
<1>3. tears' \in 0..MaxTears
  BY <1>1, TearsTyped DEF S!Answers
<1>4. Kept(s)
  BY <1>1, <1>2, <1>3, Shapes
  DEF Kept, StoresTyped, Elsewhere, Own, S!roster, StandingInv, S!ResidueIsNamed
<1>5. Fits(s, "rotate") /\ Found(s, "rotate")
  BY <1>1, <1>2 DEF Fits, Found, Stages, S!Passes, S!Establish, S!Retire
<1> QED
  BY <1>1, <1>4, <1>5, AnswersOn

LEMMA RotateStep ==
  ASSUME S!StandingAssumption, StandingInv, NEW s \in Sessions, S!Rotate(s)
  PROVE  StandingInv'
<1>1. /\ job[s].at = "rotate" /\ wraps' = wraps \ {S!Cred(s)}
      /\ UNCHANGED <<listed, wrapped, records, left, registry>>
      /\ epoch' \in {epoch, epoch + 1}
  BY DEF S!Rotate, S!At
<1>2. /\ Working(s) /\ job[s].does \in {"cleanup", "remove"} /\ S!Cred(s) \notin listed
      /\ job[s].base = S!Nothing
  BY <1>1, Shapes DEF DoingOf, PlacedOf, S!Passes, S!Retire, S!Writes
<1>3. tears' \in 0..MaxTears
  BY TearsTyped DEF S!Rotate
<1>4. epoch' \in Nat /\ epoch' >= epoch
  BY <1>1, Shapes
<1>5. registry.seal \in Nat
  BY Shapes DEF StoresTyped, S!Entries
<1>6. StoresTyped'
  BY <1>1, <1>3, <1>4, <1>5, Shapes DEF StoresTyped
<1>7. Kept(s)
  BY <1>1, <1>2, <1>4, <1>6, Shapes
  DEF Kept, Elsewhere, Own, StandingInv, S!ResidueIsNamed
<1>8. CASE S!Goes(s, "delete") /\ S!Cred(s) \notin wraps
  <2>1. Fits(s, "delete") /\ Found(s, "delete")
    BY <1>1, <1>2 DEF Fits, Found, Stages, S!Passes, S!Establish, S!Retire
  <2> QED
    BY <1>7, <1>8, <2>1, MovesOn
<1>9. CASE S!GivesUp(s)
  BY <1>1, <1>7, <1>9, GivesUpOn
<1>10. CASE epoch' = epoch + 1
            /\ job' = [job EXCEPT ![s].at = "adopt", ![s].minted = epoch + 1]
  <2> DEFINE j == [job[s] EXCEPT !.at = "adopt", !.minted = epoch + 1]
  <2>1. job' = [job EXCEPT ![s] = j] /\ job'[s] = j
    BY <1>10, Shapes
  <2>0. epoch + 1 \in Nat /\ "adopt" \in Stages
    BY Shapes DEF Stages, S!Retire
  <2>2. j \in Jobs
    BY <2>0, Shapes DEF Jobs
  <2>3. /\ j.at = "adopt" /\ j.does = job[s].does /\ j.login = job[s].login
        /\ j.cred = job[s].cred /\ j.key = job[s].key /\ j.minted = epoch + 1
        /\ j.base = job[s].base
    BY Shapes DEF Jobs
  <2> HIDE DEF j
  <2>4. DoingOf(s)'
    BY <1>2, <2>1, <2>3 DEF DoingOf, Working, S!Passes, S!Establish, S!Retire
  <2>5. PlacedOf(s)'
    BY <1>1, <1>2, <2>1, <2>3 DEF PlacedOf, S!Cred, S!Passes, S!Establish
  <2>6. \A c \in S!Creds : Works(s, c)' => Works(s, c)
    BY <2>1, <2>3 DEF Works, Working, S!Passes
  <2>7. j.key <= epoch' /\ j.minted <= epoch'
    BY <1>10, <2>3, Shapes
  <2> QED
    BY <1>7, <2>1, <2>2, <2>4, <2>5, <2>6, <2>7, StepOf DEF Kept
<1> QED
  BY <1>8, <1>9, <1>10 DEF S!Rotate

LEMMA AdoptStep ==
  ASSUME S!StandingAssumption, StandingInv, NEW s \in Sessions, S!Adopt(s)
  PROVE  StandingInv'
<1>1. /\ job[s].at = "adopt" /\ UNCHANGED <<listed, S!roster, records, left>>
      /\ \/ S!Adopts(s, job[s].minted, S!AfterRotation(s))
         \/ S!StaysBehind(s, S!AfterRotation(s))
  BY DEF S!Adopt, S!At
<1>2. /\ Working(s) /\ job[s].does \in {"cleanup", "remove"}
      /\ S!Cred(s) \notin listed \cup wraps
  BY <1>1, Shapes DEF DoingOf, PlacedOf, S!Passes, S!Retire
<1>3. tears' \in 0..MaxTears
  BY <1>1, TearsTyped DEF S!Adopts, S!StaysBehind
<1>4. /\ registry' \in S!Entries /\ registry'.of = registry.of
      /\ registry'.seal \in {registry.seal, job[s].minted}
  BY <1>1, Shapes DEF S!Adopts, S!StaysBehind, StoresTyped, S!Entries
<1>5. StoresTyped'
  BY <1>1, <1>3, <1>4, Shapes DEF StoresTyped, S!roster
<1>6. Kept(s)
  BY <1>1, <1>2, <1>4, <1>5, Shapes
  DEF Kept, Elsewhere, Own, S!roster, StandingInv, S!ResidueIsNamed
<1>7. S!AfterRotation(s) \in {"readopt", "delete"}
  BY DEF S!AfterRotation
<1>8. Fits(s, S!AfterRotation(s)) /\ Found(s, S!AfterRotation(s))
  BY <1>1, <1>2, <1>7
  DEF Fits, Found, Stages, S!Passes, S!Establish, S!Retire, S!roster
<1>9. job[s].minted \in Nat /\ job[s].minted <= epoch' /\ job[s].at \notin S!Writes
  BY <1>1, Shapes DEF S!roster, S!Writes
<1> QED
  BY <1>1, <1>6, <1>8, <1>9, AdoptsOn

LEMMA ReadoptStep ==
  ASSUME S!StandingAssumption, StandingInv, NEW s \in Sessions, S!Readopt(s)
  PROVE  StandingInv'
<1> DEFINE j == IF job[s].does = "cleanup"
                THEN [job[s] EXCEPT !.at = "delete", !.key = job[s].minted]
                ELSE [S!Rested(s) EXCEPT !.key = job[s].minted]
<1>1. /\ job[s].at = "readopt" /\ UNCHANGED <<listed, S!roster, records, left>>
      /\ job' = [job EXCEPT ![s] = j] /\ job'[s] = j
  BY Shapes DEF S!Readopt, S!At
<1>2. /\ Working(s) /\ job[s].does \in {"cleanup", "remove"}
      /\ S!Cred(s) \notin listed \cup wraps /\ job[s].base = S!Nothing
  BY <1>1, Shapes DEF DoingOf, PlacedOf, S!Passes, S!Retire, S!Writes
<1>3. tears' \in 0..MaxTears
  BY TearsTyped DEF S!Readopt
<1>4. /\ registry' \in S!Entries /\ registry'.of = registry.of
      /\ registry'.seal \in {registry.seal, job[s].minted}
  BY Shapes DEF S!Readopt, StoresTyped, S!Entries
<1>5. StoresTyped'
  BY <1>1, <1>3, <1>4, Shapes DEF StoresTyped, S!roster
<1>6. Kept(s)
  BY <1>1, <1>2, <1>4, <1>5, Shapes
  DEF Kept, Elsewhere, Own, S!roster, StandingInv, S!ResidueIsNamed
<1>7. CASE job[s].does = "cleanup"
  <2>1. /\ j.at = "delete" /\ j.does = "cleanup" /\ j.login = job[s].login
        /\ j.cred = job[s].cred /\ j.key = job[s].minted /\ j.minted = job[s].minted
        /\ j.base = job[s].base /\ j \in Jobs
    BY <1>7, Shapes DEF Jobs, Stages, S!Retire
  <2> HIDE DEF j
  <2>2. DoingOf(s)'
    BY <1>1, <1>2, <2>1 DEF DoingOf, Working, S!Passes, S!Establish, S!Retire
  <2>3. PlacedOf(s)'
    BY <1>1, <1>2, <2>1 DEF PlacedOf, S!Cred, S!Passes, S!Establish, S!roster
  <2>4. \A c \in S!Creds : Works(s, c)' => Works(s, c)
    BY <1>1, <1>2, <2>1 DEF Works, Working, S!Passes
  <2>5. j.key <= epoch' /\ j.minted <= epoch'
    BY <1>1, <2>1, Shapes DEF S!roster
  <2> QED
    BY <1>1, <1>6, <2>1, <2>2, <2>3, <2>4, <2>5, StepOf DEF Kept
<1>8. CASE job[s].does # "cleanup"
  <2>1. /\ j.at = "in" /\ j.does = "none" /\ j.key = job[s].minted /\ j.minted = 0
        /\ j.base = S!Nothing /\ j \in Jobs
    BY <1>8, Shapes, OutTyped DEF S!Rested, Jobs, Stages, S!Out
  <2> HIDE DEF j
  <2>2. DoingOf(s)' /\ PlacedOf(s)' /\ \A c \in S!Creds : ~Works(s, c)'
    BY <1>1, <2>1
    DEF DoingOf, PlacedOf, Works, Working, S!Passes, S!Establish, S!Retire
  <2>3. j.key <= epoch' /\ j.minted <= epoch'
    BY <1>1, <2>1, Shapes DEF S!roster
  <2> QED
    BY <1>1, <1>6, <2>1, <2>2, <2>3, StepOf DEF Kept
<1> QED
  BY <1>7, <1>8

LEMMA DeleteStep ==
  ASSUME S!StandingAssumption, StandingInv, NEW s \in Sessions, S!Delete(s)
  PROVE  StandingInv'
<1>1. job[s].at = "delete" /\ UNCHANGED <<listed, S!roster, registry>>
  BY DEF S!Delete, S!At
<1>2. /\ Working(s) /\ job[s].does \in {"cleanup", "remove"}
      /\ S!Cred(s) \notin listed \cup wraps
  BY <1>1, Shapes DEF DoingOf, PlacedOf, S!Passes, S!Retire
<1>3. tears' \in 0..MaxTears
  BY TearsTyped DEF S!Delete, S!Answers
<1>4. Fits(s, "drop")
  BY <1>1, <1>2 DEF Fits, Stages, S!Passes, S!Establish, S!Retire, S!Writes
<1>5. CASE records' = records \ {S!Cred(s)} /\ S!Answers(s, "drop") /\ UNCHANGED left
  <2>1. Kept(s)
    BY <1>1, <1>2, <1>3, <1>5, Shapes DEF Kept, StoresTyped, Elsewhere, Own, S!roster
  <2>2. Found(s, "drop")
    BY <1>1, <1>2, <1>5 DEF Found, S!Establish, S!roster
  <2> QED
    BY <1>1, <1>4, <1>5, <2>1, <2>2, AnswersOn
<1>6. CASE left' = left \cup {S!Cred(s)} /\ S!Goes(s, "drop") /\ UNCHANGED records
  <2>1. Kept(s)
    BY <1>1, <1>2, <1>3, <1>6, Shapes DEF Kept, StoresTyped, Elsewhere, Own, S!roster
  <2>2. Found(s, "drop")
    BY <1>1, <1>2, <1>6 DEF Found, S!Establish, S!roster
  <2> QED
    BY <1>4, <1>6, <2>1, <2>2, MovesOn
<1> QED
  BY <1>5, <1>6 DEF S!Delete

LEMMA FailStep ==
  ASSUME S!StandingAssumption, StandingInv, NEW s \in Sessions, S!Refused(s) \/ S!Fails(s)
  PROVE  StandingInv'
<1>1. S!GivesUp(s) /\ job[s].at \notin {"out", "in", "verify"} /\ UNCHANGED S!account
      /\ (S!Fine \/ S!Torn)
  BY DEF S!Refused, S!Fails, S!Fine
<1> QED
  BY <1>1, Untouched, GivesUpOn

LEMMA StandingStart == S!StandingAssumption /\ S!Init => StandingInv
<1> SUFFICES ASSUME S!StandingAssumption, S!Init PROVE StandingInv
  OBVIOUS
<1>1. /\ job \in [Sessions -> Jobs]
      /\ \A s \in Sessions : job[s] = S!Out
  BY OutTyped DEF S!Init
<1>2. /\ S!Out.at = "out" /\ S!Out.does = "none" /\ S!Out.base = S!Nothing /\ S!Out.key = 0
      /\ S!Out.minted = 0 /\ S!Out.tries = 0 /\ S!Out.login = Oldest /\ S!Out.cred = Oldest
  BY DEF S!Out
<1>3. registry \in S!Entries /\ registry.seal = 1 /\ registry.of[Oldest] = "full"
  BY Bounds DEF S!Init, S!Entries
<1>4. S!TypeOK
  BY <1>1, <1>2, <1>3, Bounds, NothingTyped DEF S!Init, S!TypeOK, S!StandingAssumption
<1>5. \A s \in Sessions : DoingOf(s) /\ PlacedOf(s) /\ \A c \in S!Creds : ~Works(s, c)
  BY <1>1, <1>2 DEF DoingOf, PlacedOf, Works, Working, S!Passes, S!Establish, S!Retire
<1>6. S!ResidueIsNamed /\ S!AnchorStands
  BY <1>3, <1>4 DEF S!Init, S!ResidueIsNamed, S!AnchorStands
<1> QED
  BY <1>1, <1>4, <1>5, <1>6 DEF StandingInv, OneWorker

LEMMA StandingStutters ==
  ASSUME StandingInv, UNCHANGED S!vars PROVE StandingInv'
  BY DEF StandingInv, S!vars, S!account, S!roster, S!TypeOK, OneWorker, DoingOf,
      PlacedOf, Works,
     Working, S!Cred, S!ResidueIsNamed, S!AnchorStands

LEMMA StandingInductive ==
  ASSUME S!StandingAssumption, Apart, StandingInv, [S!Next]_(S!vars) PROVE StandingInv'
<1>1. ASSUME NEW s \in Sessions, S!Step(s) PROVE StandingInv'
  BY <1>1, SweepStep, ResealStep, LookStep, ReadStep, PutStep, WrapStep, BindStep,
     PublishStep, VerifyStep, StrikeStep, RotateStep, AdoptStep, ReadoptStep, DeleteStep,
     FailStep DEF S!Step
<1> QED
  BY <1>1, LogInStep, AddStep, RemoveStep, StartsOver, FailStep, StandingStutters
  DEF S!Next

-----------------------------------------------------------------------------
\* However many passkeys, backup credentials and sessions there are, whatever
\* fails and whenever a tab closes, the strengthened invariant holds.
THEOREM StandingSafety == ASSUME Apart PROVE S!Spec => []StandingInv
<1>1. S!StandingAssumption
  BY MethodsAssumption
<1>2. S!Init => StandingInv
  BY <1>1, StandingStart
<1>3. StandingInv /\ [S!Next]_(S!vars) => StandingInv'
  BY <1>1, StandingInductive
<1> QED
  BY <1>2, <1>3, PTL DEF S!Spec

\* What the account still holds of a credential stands behind an entry of the
\* registry: the document lists nothing, the roster wraps nothing, and no record
\* is left that the user could not remove it by, a Space the server did not
\* delete aside (credentialEnrollment, unlockCredentials).
THEOREM ResidueIsNamedSafety == ASSUME Apart PROVE S!Spec => []ResidueIsNamed
<1>1. StandingInv => ResidueIsNamed
  BY DEF StandingInv, ResidueIsNamed
<1> QED
  BY <1>1, StandingSafety, PTL

\* A listed credential keeps its record through every cleanup and removal, the
\* ones whose listing took effect but was not answered included.
THEOREM AnchorStandsSafety == ASSUME Apart PROVE S!Spec => []AnchorStands
<1>1. StandingInv => AnchorStands
  BY DEF StandingInv, AnchorStands
<1> QED
  BY <1>1, StandingSafety, PTL

-----------------------------------------------------------------------------
(***************************************************************************)
(* The passphrase change.                                                  *)
(***************************************************************************)
\* The user goes on with a change a failure tore, and the registry named the
\* account's passphrase when it all began.
GoesOn == ~Abandons /\ ~BareEntry

Places == {"out", "ready"} \cup Login \cup Establish \cup Retirement
Seats == [at : Places, kind : {"enrolled", "ladder"}, job : {"change", "repair"},
          login : OrNone, old : OrNone, new : OrNone,
          fate : {"named", "bare", "absent", "atEdit"}]

Passing(b) == session[b].at \in Login
AtWork(b) == session[b].at \in Establish \cup Retirement

\* The stores by themselves: the passphrase established last stands, and the
\* entry names any other one the document lists.
Stands ==
  /\ entry.names # NoPass
  /\ current \in doc /\ current \in spaces /\ doc \subseteq {current, entry.names}

\* What a login in its passes has in hand: its passphrase is one of the two
\* that stand, or nothing is under way.
Passes(b) ==
  /\ session[b].old = NoPass /\ session[b].new = NoPass /\ session[b].fate = "named"
  /\ session[b].login \in Passphrases
  /\ session[b].login \in {current, entry.names} \/ doc = {current}

\* The stores under a change, or a repair, from o to n: the entry names one of
\* the two and no marker names o, which is out of the document before the entry
\* names n.
Under(o, n) ==
  /\ o \in Passphrases /\ n \in Passphrases /\ o # n
  /\ entry.names \in {o, n} /\ entry.marker # o
  /\ entry.names = n => o \notin doc
  /\ current \in {n, entry.names}

\* What a session at work has behind it at its place: the record before the
\* listing, the listing before the retirement, and the strike before the entry.
Behind(b) ==
  /\ session[b].login \in {session[b].old, session[b].new}
  /\ session[b].fate \in {"named", "atEdit"}
  /\ session[b].fate = "atEdit" => session[b].at \in {"deleteLate", "record"}
  /\ session[b].at = "mark" => Enrolled(b)
  /\ session[b].at = "publish" => session[b].new \in spaces
  /\ session[b].at \in Retirement \/ (session[b].at = "escrow" /\ ~Enrolled(b)) =>
       current = session[b].new
  /\ session[b].at \in {"rotate", "fanOut", "deleteLate", "record"}
       /\ session[b].fate = "named" => session[b].old \notin doc

\* Sessions side by side work on the same two passphrases in the same
\* direction, and who logs in meanwhile uses one of them.
Agree(b, c) ==
  /\ Passing(b) /\ Passing(c) => session[b].login = session[c].login
  /\ AtWork(b) /\ AtWork(c) =>
       session[b].old = session[c].old /\ session[b].new = session[c].new
  /\ Passing(b) /\ AtWork(c) => session[b].login \in {session[c].old, session[c].new}

ChangeInv ==
  /\ TypeOK /\ Stands
  /\ \A b \in Browsers : Passing(b) => Passes(b)
  /\ \A b \in Browsers : AtWork(b) => Under(session[b].old, session[b].new) /\ Behind(b)
  /\ \A b, c \in Browsers : Agree(b, c)

\* The stores' shapes.
Shelves ==
  /\ doc \subseteq Passphrases /\ holders \subseteq Passphrases
  /\ readers \subseteq Passphrases /\ spaces \subseteq Passphrases
  /\ local \in [Browsers -> SUBSET Passphrases]
  /\ entry \in [names : OrNone, space : Passphrases, marker : OrNone]
  /\ entry.marker # NoPass => entry.marker # entry.names
  /\ current \in Passphrases
  /\ failures \in 0..MaxFailures

\* How a step of a session at work from o to n may change them.
Steady(o, n) ==
  /\ Shelves' /\ Stands' /\ Under(o, n)'
  /\ current = n => current' = n
  /\ o \notin doc => o \notin doc'
  /\ n \in spaces => n \in spaces'

LEMMA TypedApart == TypeOK <=> Shelves /\ session \in [Browsers -> Seats]
  BY DEF TypeOK, Shelves, Seats, Places

LEMMA Seated ==
  ASSUME ChangeInv, NEW b \in Browsers
  PROVE  /\ session \in [Browsers -> Seats] /\ session[b] \in Seats /\ Shelves
         /\ session[b].at \in Places /\ session[b].kind \in {"enrolled", "ladder"}
         /\ session[b].login \in OrNone
<1>1. session \in [Browsers -> Seats] /\ Shelves
  BY TypedApart DEF ChangeInv
<1> QED
  BY <1>1 DEF Seats

LEMMA PlacesApart ==
  /\ Login \cap (Establish \cup Retirement) = {}
  /\ {"out", "ready"} \cap (Login \cup Establish \cup Retirement) = {}
  BY DEF Login, Establish, Retirement

\* One session of those at work moves; the others keep what they rely on.
LEMMA WorkStep ==
  ASSUME ChangeInv, NEW b \in Browsers, AtWork(b), NEW j \in Seats,
         session' = [session EXCEPT ![b] = j],
         NEW o, NEW n, o = session[b].old, n = session[b].new, Steady(o, n),
         \/ j.at \in {"out", "ready"}
         \/ j.at \in Establish \cup Retirement /\ j.old = o /\ j.new = n /\ Behind(b)'
  PROVE  ChangeInv'
<1>1. /\ session' \in [Browsers -> Seats] /\ session'[b] = j
      /\ \A c \in Browsers \ {b} : session'[c] = session[c]
  BY Seated
<1>2. TypeOK' /\ Stands'
  <2>1. TypeOK' <=> Shelves' /\ session' \in [Browsers -> Seats]
    BY DEF TypeOK, Shelves, Seats, Places
  <2> QED
    BY <1>1, <2>1 DEF Steady
<1>3. \A p \in {o, n} : p \in {current', entry'.names} \/ doc' = {current'}
  BY DEF Steady, Under, Stands
<1>4. \A c \in Browsers \ {b} : Agree(b, c) /\ Agree(c, b)
  BY DEF ChangeInv
<1>5. ASSUME NEW c \in Browsers, Passing(c)' PROVE Passes(c)'
  <2>1. c # b /\ session'[c] = session[c]
    BY <1>1, <1>5, PlacesApart DEF Passing
  <2>2. Passing(c) /\ Passes(c)
    BY <1>5, <2>1 DEF Passing, ChangeInv
  <2>3. session[c].login \in {o, n}
    BY <1>4, <2>1, <2>2 DEF Agree
  <2> QED
    BY <1>3, <2>1, <2>2, <2>3 DEF Passes
<1>6. ASSUME NEW c \in Browsers, AtWork(c)'
      PROVE  Under(session[c].old, session[c].new)' /\ Behind(c)'
  <2>1. CASE c = b
    <3>1. j.old = o /\ j.new = n /\ Behind(b)'
      BY <1>1, <1>6, <2>1, PlacesApart DEF AtWork
    <3>2. Under(o, n)' /\ session'[b].old = o /\ session'[b].new = n
      BY <1>1, <3>1 DEF Steady
    <3> QED
      BY <2>1, <3>1, <3>2 DEF Under
  <2>2. CASE c # b
    <3>1. session'[c] = session[c] /\ AtWork(c)
      BY <1>1, <1>6, <2>2 DEF AtWork
    <3>2. session[c].old = o /\ session[c].new = n /\ Behind(c)
      BY <1>4, <2>2, <3>1 DEF Agree, ChangeInv
    <3>3. Under(o, n)' /\ session'[c].old = o /\ session'[c].new = n
      BY <3>1, <3>2 DEF Steady
    <3>4. Behind(c)'
      BY <3>1, <3>2 DEF Behind, Steady, Enrolled
    <3> QED
      BY <3>3, <3>4 DEF Under
  <2> QED
    BY <2>1, <2>2
<1>7. ASSUME NEW c \in Browsers, NEW d \in Browsers PROVE Agree(c, d)'
  <2>1. ASSUME NEW e \in Browsers, Passing(e)' PROVE e # b /\ Passing(e)
    BY <1>1, <2>1, PlacesApart DEF Passing
  <2>2. ASSUME NEW e \in Browsers, AtWork(e)'
        PROVE  session'[e].old = o /\ session'[e].new = n /\ AtWork(e)
    BY <1>1, <1>4, <2>2, PlacesApart DEF AtWork, Agree
  <2>3. Agree(c, d)
    BY DEF ChangeInv
  <2>4. Passing(c)' /\ Passing(d)' => session'[c].login = session'[d].login
    BY <1>1, <2>1, <2>3 DEF Agree
  <2>5. Passing(c)' /\ AtWork(d)' => session'[c].login \in {o, n}
    BY <1>1, <1>4, <2>1, <2>2 DEF Agree
  <2> QED
    BY <2>2, <2>4, <2>5 DEF Agree
<1> QED
  BY <1>2, <1>5, <1>6, <1>7 DEF ChangeInv

\* A session that has nothing in hand takes up a login or a piece of work, or
\* goes on with its passes; the stores the others rely on stay as they are.
LEMMA EnterStep ==
  ASSUME ChangeInv, NEW b \in Browsers, ~AtWork(b), NEW j \in Seats,
         session' = [session EXCEPT ![b] = j],
         Shelves', UNCHANGED <<doc, spaces, entry, current>>,
         \/ j.at \in {"out", "ready"}
         \/ /\ j.at \in Login /\ Passes(b)'
            /\ \A c \in Browsers \ {b} :
                 /\ Passing(c) => session[c].login = j.login
                 /\ AtWork(c) => j.login \in {session[c].old, session[c].new}
         \/ /\ j.at \in Establish \cup Retirement /\ Under(j.old, j.new) /\ Behind(b)'
            /\ \A c \in Browsers \ {b} :
                 /\ Passing(c) => session[c].login \in {j.old, j.new}
                 /\ AtWork(c) => session[c].old = j.old /\ session[c].new = j.new
  PROVE  ChangeInv'
<1>1. /\ session' \in [Browsers -> Seats] /\ session'[b] = j
      /\ \A c \in Browsers \ {b} : session'[c] = session[c]
  BY Seated
<1>2. TypeOK' /\ Stands'
  <2>1. TypeOK' <=> Shelves' /\ session' \in [Browsers -> Seats]
    BY DEF TypeOK, Shelves, Seats, Places
  <2> QED
    BY <1>1, <2>1 DEF ChangeInv, Stands
<1>3. ASSUME NEW c \in Browsers, Passing(c)' PROVE Passes(c)'
  <2>1. CASE c = b
    BY <1>1, <1>3, <2>1, PlacesApart DEF Passing
  <2>2. CASE c # b
    BY <1>1, <1>3, <2>2 DEF Passing, ChangeInv, Passes
  <2> QED
    BY <2>1, <2>2
<1>4. ASSUME NEW c \in Browsers, AtWork(c)'
      PROVE  Under(session[c].old, session[c].new)' /\ Behind(c)'
  <2>1. CASE c = b
    <3>1. Under(j.old, j.new) /\ Behind(b)'
      BY <1>1, <1>4, <2>1, PlacesApart DEF AtWork
    <3> QED
      BY <1>1, <2>1, <3>1 DEF Under
  <2>2. CASE c # b
    <3>1. session'[c] = session[c] /\ AtWork(c)
      BY <1>1, <1>4, <2>2 DEF AtWork
    <3>2. Under(session[c].old, session[c].new) /\ Behind(c)
      BY <3>1 DEF ChangeInv
    <3> QED
      BY <3>1, <3>2 DEF Under, Behind, Enrolled
  <2> QED
    BY <2>1, <2>2
<1>5. ASSUME NEW c \in Browsers, NEW d \in Browsers PROVE Agree(c, d)'
  <2>1. Agree(c, d)
    BY DEF ChangeInv
  <2>2. CASE c = b \/ d = b
    BY <1>1, <2>2, PlacesApart DEF Agree, Passing, AtWork
  <2>3. CASE c # b /\ d # b
    BY <1>1, <2>1, <2>3 DEF Agree, Passing, AtWork
  <2> QED
    BY <2>2, <2>3
<1> QED
  BY <1>2, <1>3, <1>4, <1>5 DEF ChangeInv

\* What a session at work relies on, at once.
LEMMA AtWorkNow ==
  ASSUME ChangeInv, NEW b \in Browsers, AtWork(b)
  PROVE  /\ Under(session[b].old, session[b].new) /\ Behind(b)
         /\ Shelves /\ Stands /\ session[b] \in Seats
         /\ session[b].old \in Passphrases /\ session[b].new \in Passphrases
         /\ session[b].old # session[b].new
         /\ session[b].old # NoPass /\ session[b].new # NoPass
  BY Seated, ChangeAssumption DEF ChangeInv, Under

LEMMA Still ==
  ASSUME ChangeInv, NEW o, NEW n, Under(o, n), Shelves',
         UNCHANGED <<doc, spaces, entry, current>>
  PROVE  Steady(o, n)
  BY DEF ChangeInv, Steady, Stands, Under

\* The session goes on to the place at.
LEMMA MovesAlong ==
  ASSUME ChangeInv, NEW b \in Browsers, AtWork(b), NEW o, NEW n,
         o = session[b].old, n = session[b].new, Steady(o, n),
         NEW at \in Establish \cup Retirement, Goes(b, at), at # "mark",
         session[b].fate = "atEdit" => at \in {"deleteLate", "record"},
         at = "publish" => n \in spaces',
         at \in Retirement \/ (at = "escrow" /\ ~Enrolled(b)) => current' = n,
         at \in {"rotate", "fanOut", "deleteLate", "record"}
           /\ session[b].fate = "named" => o \notin doc'
  PROVE  ChangeInv'
<1> DEFINE j == [session[b] EXCEPT !.at = at]
<1>1. /\ session' = [session EXCEPT ![b] = j] /\ session'[b] = j /\ j \in Seats
      /\ j.at = at /\ j.kind = session[b].kind /\ j.login = session[b].login
      /\ j.old = o /\ j.new = n /\ j.fate = session[b].fate
  BY Seated DEF Goes, Seats, Places
<1> HIDE DEF j
<1>2. Behind(b)'
  BY <1>1, AtWorkNow DEF Behind, Enrolled
<1> QED
  BY <1>1, <1>2, WorkStep

\* The session is done, or gives up; or its tab closes.
LEMMA StopsWork ==
  ASSUME ChangeInv, NEW b \in Browsers, AtWork(b),
         NEW o, NEW n, o = session[b].old, n = session[b].new, Steady(o, n),
         Rests(b) \/ session' = [session EXCEPT ![b] = Out]
  PROVE  ChangeInv'
<1>1. Out \in Seats /\ Out.at = "out"
  BY DEF Out, Seats, Places, OrNone
<1>2. CASE Rests(b)
  <2> DEFINE j == [session[b] EXCEPT !.at = "ready", !.old = NoPass, !.new = NoPass,
                                     !.fate = "named"]
  <2>1. session' = [session EXCEPT ![b] = j] /\ j \in Seats /\ j.at = "ready"
    BY <1>2, Seated DEF Rests, Seats, Places, OrNone
  <2> HIDE DEF j
  <2> QED
    BY <2>1, WorkStep
<1>3. CASE session' = [session EXCEPT ![b] = Out]
  BY <1>1, <1>3, WorkStep
<1> QED
  BY <1>2, <1>3

-----------------------------------------------------------------------------
\* The login and its passes.

LEMMA LogsInStep ==
  ASSUME GoesOn, ChangeInv, NEW b \in Browsers, NEW p \in Passphrases, LogIn(b, p)
  PROVE  ChangeInv'
<1>1. /\ session[b].at = "out" /\ p \in spaces /\ Awaits(b, p)
      /\ UNCHANGED <<account, local, current, failures>>
  BY DEF LogIn, At
<1>2. PICK kind \in {"enrolled", "ladder"} :
        session' = [session EXCEPT ![b] =
          [Out EXCEPT !.at = IF kind = "enrolled" THEN "sweep" ELSE "cascade",
                      !.kind = kind, !.login = p]]
  BY DEF LogIn
<1> DEFINE at == IF kind = "enrolled" THEN "sweep" ELSE "cascade"
           j == [Out EXCEPT !.at = at, !.kind = kind, !.login = p]
<1>3. at \in Login
  BY DEF Login
<1> HIDE DEF at
<1>4. /\ session' = [session EXCEPT ![b] = j] /\ session'[b] = j /\ j \in Seats
      /\ j.at = at /\ j.login = p /\ j.old = NoPass /\ j.new = NoPass /\ j.fate = "named"
  BY <1>2, <1>3, Seated DEF Out, Seats, Places, OrNone, at
<1> HIDE DEF j
<1>5. Shelves' /\ UNCHANGED <<doc, spaces, entry, current>>
  BY <1>1, Seated DEF Shelves, account
<1>6. p \in {current, entry.names} \/ doc = {current}
  <2>1. Stands /\ (p \in doc \/ Cardinality(doc) = 1)
    BY <1>1 DEF GoesOn, Awaits, ChangeInv
  <2>2. IsFiniteSet(doc)
    <3>1. IsFiniteSet({current} \cup {entry.names})
      BY FS_Singleton, FS_AddElement
    <3>2. doc \in SUBSET ({current} \cup {entry.names})
      BY <2>1 DEF Stands
    <3> QED
      BY <3>1, <3>2, FS_Subset
  <2>3. CASE Cardinality(doc) = 1
    BY <2>1, <2>2, <2>3, FS_Singleton DEF Stands
  <2> QED
    BY <2>1, <2>3 DEF Stands
<1>7. Passes(b)'
  BY <1>4, <1>5, <1>6 DEF Passes
<1>8. ASSUME NEW c \in Browsers \ {b}
      PROVE  /\ Passing(c) => session[c].login = p
             /\ AtWork(c) => p \in {session[c].old, session[c].new}
  <2>1. \/ session[c].at \in {"out", "ready"}
        \/ p \in {session[c].login, session[c].old, session[c].new}
    BY <1>1 DEF GoesOn, Awaits
  <2>2. Passing(c) => Passes(c)
    BY DEF ChangeInv
  <2>3. AtWork(c) => Behind(c)
    BY DEF ChangeInv
  <2>4. p # NoPass
    BY ChangeAssumption
  <2> QED
    BY <2>1, <2>2, <2>3, <2>4, PlacesApart DEF Passing, AtWork, Passes, Behind
<1>9. ~AtWork(b)
  BY <1>1, PlacesApart DEF AtWork
<1> QED
  BY <1>3, <1>4, <1>5, <1>7, <1>8, <1>9, EnterStep

\* A pass moves to the next one.
LEMMA PassesOn ==
  ASSUME ChangeInv, NEW b \in Browsers, Passing(b), NEW at \in Login, Goes(b, at),
         Shelves', UNCHANGED <<doc, spaces, entry, current>>
  PROVE  ChangeInv'
<1> DEFINE j == [session[b] EXCEPT !.at = at]
<1>1. /\ session' = [session EXCEPT ![b] = j] /\ session'[b] = j /\ j \in Seats
      /\ j.at = at /\ j.login = session[b].login /\ j.old = session[b].old
      /\ j.new = session[b].new /\ j.fate = session[b].fate
  BY Seated DEF Goes, Seats, Places
<1> HIDE DEF j
<1>2. Passes(b)'
  BY <1>1 DEF Passes, ChangeInv
<1>3. \A c \in Browsers : Agree(c, b) /\ Agree(b, c)
  BY DEF ChangeInv
<1>4. ~AtWork(b)
  BY PlacesApart DEF Passing, AtWork
<1> QED
  BY <1>1, <1>2, <1>3, <1>4, EnterStep DEF Agree

\* A session that is not at work comes to rest, or its tab closes.
LEMMA Rested ==
  ASSUME ChangeInv, NEW b \in Browsers, ~AtWork(b),
         Rests(b) \/ session' = [session EXCEPT ![b] = Out],
         Shelves', UNCHANGED <<doc, spaces, entry, current>>
  PROVE  ChangeInv'
<1>1. Out \in Seats /\ Out.at = "out"
  BY DEF Out, Seats, Places, OrNone
<1>2. CASE Rests(b)
  <2> DEFINE j == [session[b] EXCEPT !.at = "ready", !.old = NoPass, !.new = NoPass,
                                     !.fate = "named"]
  <2>1. session' = [session EXCEPT ![b] = j] /\ j \in Seats /\ j.at = "ready"
    BY <1>2, Seated DEF Rests, Seats, Places, OrNone
  <2> HIDE DEF j
  <2> QED
    BY <2>1, EnterStep
<1>3. CASE session' = [session EXCEPT ![b] = Out]
  BY <1>1, <1>3, EnterStep
<1> QED
  BY <1>2, <1>3

LEMMA SweepsStep ==
  ASSUME ChangeInv, NEW b \in Browsers, Sweep(b) \/ Cascade(b)
  PROVE  ChangeInv'
<1>1. Passing(b) /\ UNCHANGED <<doc, spaces, entry, current>>
  BY DEF Sweep, Cascade, At, Passing, Login
<1>2. Shelves'
  BY Seated DEF Sweep, Cascade, Shelves, Swept
<1>3. PICK at \in Login : Goes(b, at)
  BY DEF Sweep, Cascade, Login
<1> QED
  BY <1>1, <1>2, <1>3, PassesOn

\* The repair reads who is to go.
LEMMA RepairStep ==
  ASSUME ChangeInv, NEW b \in Browsers, RepairReads(b)
  PROVE  ChangeInv'
<1> DEFINE p == session[b].login
<1>1. /\ session[b].at = "repair" /\ Passing(b) /\ ~AtWork(b)
      /\ UNCHANGED <<account, local, current, failures>>
  BY PlacesApart DEF RepairReads, At, Passing, AtWork, Login
<1>2. Shelves /\ Shelves' /\ Stands /\ UNCHANGED <<doc, spaces, entry, current>>
  BY <1>1, Seated DEF Shelves, account, ChangeInv
<1>3. Passes(b) /\ p \in Passphrases /\ p # NoPass
  BY <1>1, ChangeAssumption DEF ChangeInv, Passes
<1>4. entry.names \in Passphrases /\ entry.marker # entry.names
  BY <1>2 DEF Shelves, Stands, OrNone
<1>5. \A c \in Browsers : Agree(c, b) /\ Agree(b, c)
  BY DEF ChangeInv
<1>6. ASSUME NEW at \in Establish \cup Retirement,
             session' = [session EXCEPT ![b] =
               [@ EXCEPT !.at = at, !.job = "repair", !.old = entry.names, !.new = p]],
             entry.names # p, at \notin {"mark", "publish"},
             at \notin {"rotate", "fanOut", "deleteLate", "record"},
             at \in Retirement \/ (at = "escrow" /\ ~Enrolled(b)) => current = p,
             current \in {p, entry.names},
             \A c \in Browsers : AtWork(c) => session[c].old # p
      PROVE  ChangeInv'
  <2> DEFINE j == [session[b] EXCEPT !.at = at, !.job = "repair", !.old = entry.names,
                                     !.new = p]
  <2>1. /\ session' = [session EXCEPT ![b] = j] /\ session'[b] = j /\ j \in Seats
        /\ j.at = at /\ j.kind = session[b].kind /\ j.login = p
        /\ j.old = entry.names /\ j.new = p /\ j.fate = "named"
    BY <1>3, <1>4, <1>6, Seated DEF Seats, Places, OrNone, Passes
  <2> HIDE DEF j
  <2>2. Under(entry.names, p)
    BY <1>3, <1>4, <1>6 DEF Under
  <2>3. Behind(b)'
    BY <1>2, <1>6, <2>1 DEF Behind, Enrolled
  <2>4. ASSUME NEW c \in Browsers \ {b}, AtWork(c)
        PROVE  session[c].old = entry.names /\ session[c].new = p
    <3>1. p \in {session[c].old, session[c].new} /\ session[c].old # p
      BY <1>1, <1>5, <1>6, <2>4 DEF Agree
    <3>2. entry.names \in {session[c].old, session[c].new}
      BY <2>4 DEF ChangeInv, Under
    <3> QED
      BY <1>6, <3>1, <3>2
  <2>5. \A c \in Browsers \ {b} : Passing(c) => session[c].login = p
    BY <1>1, <1>5 DEF Agree
  <2>6. /\ j.at \in Establish \cup Retirement /\ Under(j.old, j.new)
        /\ \A c \in Browsers \ {b} :
             /\ Passing(c) => session[c].login \in {j.old, j.new}
             /\ AtWork(c) => session[c].old = j.old /\ session[c].new = j.new
    BY <1>6, <2>1, <2>2, <2>4, <2>5
  <2>7. ~AtWork(b) /\ Shelves' /\ UNCHANGED <<doc, spaces, entry, current>>
    BY <1>1, <1>2
  <2> QED
    BY <2>1, <2>3, <2>6, <2>7, EnterStep
<1>7. CASE Pending(p) /\ session' = [session EXCEPT ![b] =
             [@ EXCEPT !.at = "retire", !.job = "repair", !.old = entry.names, !.new = p]]
  <2>1. p \in doc /\ entry.names # p /\ current = p
    BY <1>2, <1>7 DEF Pending, Stands
  <2>2. ASSUME NEW c \in Browsers, AtWork(c), session[c].old = p PROVE FALSE
    BY <2>1, <2>2 DEF ChangeInv, Under
  <2>3. "retire" \in Establish \cup Retirement
    BY DEF Retirement
  <2> QED
    BY <1>6, <1>7, <2>1, <2>2, <2>3
<1>8. ASSUME Torn(p),
             session' = [session EXCEPT ![b] =
               [@ EXCEPT !.at = IF Enrolled(b) THEN "escrow" ELSE "bind", !.job = "repair",
                         !.old = entry.names, !.new = p]]
      PROVE  ChangeInv'
  <2> DEFINE at == IF Enrolled(b) THEN "escrow" ELSE "bind"
  <2>1. /\ entry.names # p /\ p \notin doc /\ entry.marker = p /\ entry.names \in doc
    BY <1>2, <1>8 DEF Torn, MarkerNamesLogin, Stands
  <2>2. current = entry.names
    BY <1>2, <1>3, <2>1 DEF Passes, Stands
  <2>3. ASSUME NEW c \in Browsers, AtWork(c), session[c].old = p PROVE FALSE
    BY <2>1, <2>3 DEF ChangeInv, Under
  <2>4. /\ at \in Establish \cup Retirement /\ at \notin {"mark", "publish"} \cup Retirement
        /\ at = "escrow" => Enrolled(b)
        /\ at \notin {"rotate", "fanOut", "deleteLate", "record"}
    BY DEF Establish, Retirement
  <2> HIDE DEF at
  <2>5. session' = [session EXCEPT ![b] =
               [@ EXCEPT !.at = at, !.job = "repair", !.old = entry.names, !.new = p]]
    BY <1>8 DEF at
  <2> QED
    BY <1>6, <2>1, <2>2, <2>3, <2>4, <2>5
<1>9. CASE Rests(b)
  BY <1>1, <1>2, <1>9, Rested
<1>10. ~Bare(p)
  BY <1>2 DEF Bare, Stands
<1> QED
  BY <1>7, <1>8, <1>9, <1>10 DEF RepairReads

-----------------------------------------------------------------------------
\* The change, and the establishment it shares with the repair.

LEMMA StartsStep ==
  ASSUME GoesOn, ChangeInv, NEW b \in Browsers, NEW new \in Passphrases, StartChange(b, new)
  PROVE  ChangeInv'
<1> DEFINE old == session[b].login
           at == IF Enrolled(b) THEN "mark" ELSE "bind"
           j == [session[b] EXCEPT !.at = at, !.job = "change", !.old = old, !.new = new,
                                   !.fate = "named"]
<1>1. /\ session[b].at = "ready" /\ old \in spaces /\ entry.names \in {old, NoPass}
      /\ MayChoose(b, new) /\ UNCHANGED <<account, local, current, failures>>
  BY DEF StartChange, At, Refused
<1>2. Shelves /\ Stands /\ Shelves' /\ UNCHANGED <<doc, spaces, entry, current>>
  BY <1>1, Seated DEF Shelves, account, ChangeInv
<1>3. entry.names = old /\ old \in Passphrases
  BY <1>1, <1>2 DEF Stands, Shelves
<1>4. new # old
  BY <1>1 DEF MayChoose, Unused
<1>5. /\ doc \subseteq {old, new}
      /\ \A c \in Browsers \ {b} : session[c].at \in {"out", "ready"}
  BY <1>1 DEF MayChoose, GoesOn
<1>6. session' = [session EXCEPT ![b] = j]
  <2>1. session' = [session EXCEPT ![b].at = at, ![b].job = "change", ![b].old = old,
                      ![b].new = new, ![b].fate = "named"]
    BY <1>2 DEF StartChange, Stands
  <2> QED
    BY <2>1, Seated
<1>7. at \in Establish \cup Retirement /\ at \in {"mark", "bind"} /\ at \notin Retirement
  BY DEF Establish, Retirement
<1> HIDE DEF at
<1>8. /\ session'[b] = j /\ j \in Seats /\ j.at = at /\ j.login = old /\ j.old = old
      /\ j.new = new /\ j.fate = "named"
  BY <1>3, <1>6, <1>7, Seated DEF Seats, Places, OrNone
<1> HIDE DEF j
<1>9. Under(old, new)
  BY <1>2, <1>3, <1>4, <1>5, ChangeAssumption DEF Under, Stands, Shelves
<1>10. Behind(b)'
  <2>1. at = "mark" => j.kind = "enrolled"
    BY DEF at, j, Enrolled
  <2> QED
    BY <1>7, <1>8, <2>1 DEF Behind, Enrolled
<1>11. \A c \in Browsers \ {b} : ~Passing(c) /\ ~AtWork(c)
  BY <1>5, PlacesApart DEF Passing, AtWork
<1>12. ~AtWork(b)
  BY <1>1, PlacesApart DEF AtWork
<1> QED
  BY <1>2, <1>6, <1>7, <1>8, <1>9, <1>10, <1>11, <1>12, EnterStep

LEMMA MarkStep ==
  ASSUME ChangeInv, NEW b \in Browsers, Mark(b)
  PROVE  ChangeInv'
<1>0. PICK o, n : o = session[b].old /\ n = session[b].new
  OBVIOUS
<1>1. session[b].at = "mark" /\ AtWork(b)
  BY DEF Mark, At, AtWork, Establish
<1>2. /\ Under(o, n) /\ Behind(b) /\ Shelves /\ Stands /\ o # n /\ n # NoPass
      /\ o \in Passphrases /\ n \in Passphrases
  BY <1>0, <1>1, AtWorkNow
<1>3. /\ entry' \in {entry, [entry EXCEPT !.marker = n]}
      /\ entry' # entry => entry.names = o
      /\ UNCHANGED <<doc, holders, readers, spaces, local, current, failures>>
  BY <1>0, <1>2 DEF Mark, Marks, Stands
<1>4. entry'.names = entry.names /\ entry'.marker \in {entry.marker, n} /\ Shelves'
  BY <1>2, <1>3 DEF Shelves, OrNone
<1>5. Steady(o, n)
  BY <1>2, <1>3, <1>4 DEF Steady, Stands, Under
<1>6. "escrow" \in Establish \cup Retirement /\ "escrow" \notin Retirement
  BY DEF Establish, Retirement
<1>7. Goes(b, "escrow") /\ session[b].fate # "atEdit"
  BY <1>1, <1>2 DEF Mark, Behind
<1>8. Enrolled(b)
  BY <1>1, <1>2 DEF Behind
<1> QED
  BY <1>0, <1>1, <1>5, <1>6, <1>7, <1>8, MovesAlong

LEMMA EscrowStep ==
  ASSUME ChangeInv, NEW b \in Browsers, Escrow(b)
  PROVE  ChangeInv'
<1>0. PICK o, n : o = session[b].old /\ n = session[b].new
  OBVIOUS
<1>1. /\ session[b].at = "escrow" /\ AtWork(b)
      /\ UNCHANGED <<doc, spaces, entry, current, local, failures>>
  BY DEF Escrow, At, AtWork, Establish
<1>2. /\ Under(o, n) /\ Behind(b) /\ Shelves /\ o \in Passphrases /\ n \in Passphrases
  BY <1>0, <1>1, AtWorkNow
<1>3. Shelves'
  BY <1>0, <1>1, <1>2 DEF Escrow, Shelves
<1>4. Steady(o, n)
  BY <1>1, <1>2, <1>3, Still
<1>5. session[b].fate # "atEdit" /\ (~Enrolled(b) => current' = n)
  BY <1>0, <1>1, <1>2 DEF Behind
<1>6. CASE Enrolled(b)
  <2>1. "bind" \in Establish \cup Retirement /\ "bind" \notin Retirement /\ Goes(b, "bind")
    BY <1>6 DEF Escrow, Establish, Retirement
  <2> QED
    BY <1>0, <1>1, <1>4, <1>5, <2>1, MovesAlong
<1>7. CASE ~Enrolled(b)
  <2>1. PICK at \in {"renew", "retire"} : Goes(b, at)
    BY <1>7 DEF Escrow
  <2>2. at \in Establish \cup Retirement
    BY DEF Retirement
  <2> QED
    BY <1>0, <1>1, <1>4, <1>5, <1>7, <2>1, <2>2, MovesAlong
<1> QED
  BY <1>6, <1>7

LEMMA BindsStep ==
  ASSUME ChangeInv, NEW b \in Browsers, Bind(b)
  PROVE  ChangeInv'
<1>0. PICK o, n : o = session[b].old /\ n = session[b].new
  OBVIOUS
<1>1. /\ session[b].at = "bind" /\ AtWork(b) /\ spaces' = spaces \cup {n}
      /\ UNCHANGED <<doc, holders, readers, entry, current, failures>>
  BY <1>0 DEF Bind, At, AtWork, Establish
<1>2. /\ Under(o, n) /\ Behind(b) /\ Shelves /\ Stands
      /\ o \in Passphrases /\ n \in Passphrases
  BY <1>0, <1>1, AtWorkNow
<1>3. local' \in [Browsers -> SUBSET Passphrases]
  BY <1>0, <1>2 DEF Bind, Shelves
<1>4. Steady(o, n)
  BY <1>1, <1>2, <1>3 DEF Steady, Shelves, Stands, Under
<1>5. session[b].fate # "atEdit" /\ n \in spaces' /\ Goes(b, "publish")
  BY <1>1, <1>2 DEF Behind, Bind
<1>6. "publish" \in Establish \cup Retirement /\ "publish" \notin Retirement
  BY DEF Establish, Retirement
<1> QED
  BY <1>0, <1>1, <1>4, <1>5, <1>6, MovesAlong

\* The listing: from here on the new passphrase is the account's.
LEMMA PublishesStep ==
  ASSUME ChangeInv, NEW b \in Browsers, Publish(b)
  PROVE  ChangeInv'
<1>0. PICK o, n : o = session[b].old /\ n = session[b].new
  OBVIOUS
<1>1. /\ session[b].at = "publish" /\ AtWork(b) /\ doc' = doc \cup {n} /\ current' = n
      /\ UNCHANGED <<holders, readers, spaces, entry, local, failures>>
  BY <1>0 DEF Publish, At, AtWork, Establish
<1>2. /\ Under(o, n) /\ Behind(b) /\ Shelves /\ Stands
      /\ o \in Passphrases /\ n \in Passphrases
  BY <1>0, <1>1, AtWorkNow
<1>3. n \in spaces /\ session[b].fate # "atEdit"
  BY <1>0, <1>1, <1>2 DEF Behind
<1>4. doc' \subseteq {current', entry'.names}
  BY <1>1, <1>2 DEF Stands, Under
<1>5. Steady(o, n)
  BY <1>1, <1>2, <1>3, <1>4 DEF Steady, Shelves, Stands, Under
<1>6. PICK at \in {"escrow", "delete", "retire"} : Goes(b, at)
  BY DEF Publish
<1>7. at \in Establish \cup Retirement
  BY DEF Establish, Retirement
<1> QED
  BY <1>0, <1>1, <1>3, <1>5, <1>6, <1>7, MovesAlong

-----------------------------------------------------------------------------
\* The retirement of the old passphrase.

\* The session goes on as the new passphrase, the old Space deleted or not.
LEMMA DeletesStep ==
  ASSUME ChangeInv, NEW b \in Browsers, DeleteOld(b) \/ Renew(b)
  PROVE  ChangeInv'
<1>0. PICK o, n : o = session[b].old /\ n = session[b].new
  OBVIOUS
<1> DEFINE j == [session[b] EXCEPT !.at = "retire", !.login = n]
<1>1. /\ session[b].at \in {"delete", "renew"} /\ AtWork(b) /\ session[b].at \in Retirement
      /\ UNCHANGED <<doc, holders, readers, entry, current, failures>>
      /\ spaces' \in {spaces, spaces \ {o}}
  BY <1>0 DEF DeleteOld, Renew, At, AtWork, Retirement, account
<1>2. /\ Under(o, n) /\ Behind(b) /\ Shelves /\ Stands
      /\ o \in Passphrases /\ n \in Passphrases
  BY <1>0, <1>1, AtWorkNow
<1>3. current = n /\ session[b].fate # "atEdit" /\ o # n
  BY <1>0, <1>1, <1>2 DEF Behind, Under
<1>4. local' \in [Browsers -> SUBSET Passphrases]
  BY <1>0, <1>2 DEF DeleteOld, Renew, Shelves
<1>5. Steady(o, n)
  BY <1>1, <1>2, <1>3, <1>4 DEF Steady, Shelves, Stands, Under
<1>6. /\ session' = [session EXCEPT ![b] = j] /\ session'[b] = j /\ j \in Seats
      /\ j.at = "retire" /\ j.kind = session[b].kind /\ j.login = n
      /\ j.old = o /\ j.new = n /\ j.fate = session[b].fate
  BY <1>0, <1>2, Seated DEF DeleteOld, Renew, Seats, Places, Retirement, OrNone
<1> HIDE DEF j
<1>7. Behind(b)' /\ j.at \in Retirement
  BY <1>1, <1>2, <1>3, <1>6 DEF Behind, Retirement
<1> QED
  BY <1>0, <1>1, <1>5, <1>6, <1>7, WorkStep

\* The document edit: the one passphrase it may strike is not the current one.
LEMMA RetiresStep ==
  ASSUME ChangeInv, NEW b \in Browsers, Retire(b)
  PROVE  ChangeInv'
<1>0. PICK o, n : o = session[b].old /\ n = session[b].new
  OBVIOUS
<1>1. /\ session[b].at = "retire" /\ AtWork(b) /\ session[b].at \in Retirement
      /\ UNCHANGED <<holders, readers, spaces, entry, local, current, failures>>
  BY DEF Retire, At, AtWork, Retirement
<1>2. /\ Under(o, n) /\ Behind(b) /\ Shelves /\ Stands /\ o # NoPass
      /\ o \in Passphrases /\ n \in Passphrases
  BY <1>0, <1>1, AtWorkNow
<1>3. current = n /\ session[b].fate = "named" /\ o # n
  BY <1>0, <1>1, <1>2 DEF Behind, Under
<1>4. doc' \in {doc, doc \ {o}} /\ o \notin doc'
  BY <1>0, <1>2, <1>3 DEF Retire, Names
<1>5. Steady(o, n)
  BY <1>1, <1>2, <1>3, <1>4 DEF Steady, Shelves, Stands, Under
<1>6. PICK at \in {"rotate", "deleteLate", "record"} : Goes(b, at)
  BY DEF Retire, Tail
<1>7. at \in Retirement
  BY DEF Retirement
<1> QED
  BY <1>0, <1>1, <1>3, <1>4, <1>5, <1>6, <1>7, MovesAlong

LEMMA RotatesStep ==
  ASSUME ChangeInv, NEW b \in Browsers, Rotate(b) \/ FanOut(b)
  PROVE  ChangeInv'
<1>0. PICK o, n : o = session[b].old /\ n = session[b].new
  OBVIOUS
<1>1. /\ session[b].at \in {"rotate", "fanOut"} /\ AtWork(b) /\ session[b].at \in Retirement
      /\ UNCHANGED <<doc, spaces, entry, local, current, failures>>
  BY DEF Rotate, FanOut, At, AtWork, Retirement
<1>2. Under(o, n) /\ Behind(b) /\ Shelves
  BY <1>0, <1>1, AtWorkNow
<1>3. Shelves'
  BY <1>1, <1>2 DEF Rotate, FanOut, Shelves
<1>4. Steady(o, n)
  BY <1>1, <1>2, <1>3, Still
<1>5. current' = n /\ session[b].fate = "named" /\ o \notin doc'
  BY <1>0, <1>1, <1>2 DEF Behind
<1>6. PICK at \in {"fanOut", "deleteLate", "record"} : Goes(b, at)
  BY DEF Rotate, FanOut, Tail
<1>7. at \in Retirement
  BY DEF Retirement
<1> QED
  BY <1>0, <1>1, <1>4, <1>5, <1>6, <1>7, MovesAlong

LEMMA DeletesLateStep ==
  ASSUME ChangeInv, NEW b \in Browsers, DeleteLate(b)
  PROVE  ChangeInv'
<1>0. PICK o, n : o = session[b].old /\ n = session[b].new
  OBVIOUS
<1>1. /\ session[b].at = "deleteLate" /\ AtWork(b) /\ session[b].at \in Retirement
      /\ UNCHANGED <<doc, holders, readers, entry, local, current, failures>>
      /\ spaces' \in {spaces, spaces \ {o}}
  BY <1>0 DEF DeleteLate, At, AtWork, Retirement
<1>2. /\ Under(o, n) /\ Behind(b) /\ Shelves /\ Stands
      /\ o \in Passphrases /\ n \in Passphrases
  BY <1>0, <1>1, AtWorkNow
<1>3. current = n /\ o # n /\ (session[b].fate = "named" => o \notin doc)
  BY <1>0, <1>1, <1>2 DEF Behind, Under
<1>4. Steady(o, n)
  BY <1>1, <1>2, <1>3 DEF Steady, Shelves, Stands, Under
<1>5. Goes(b, "record") /\ "record" \in Retirement
  BY DEF DeleteLate, Retirement
<1> QED
  BY <1>0, <1>1, <1>3, <1>4, <1>5, MovesAlong

\* The entry, last: it names who is to go where the edit did not land.
LEMMA RecordsStep ==
  ASSUME ChangeInv, NEW b \in Browsers, Record(b)
  PROVE  ChangeInv'
<1>0. PICK o, n : o = session[b].old /\ n = session[b].new
  OBVIOUS
<1>1. /\ session[b].at = "record" /\ AtWork(b) /\ session[b].at \in Retirement
      /\ UNCHANGED <<doc, holders, readers, spaces, local, current>> /\ Rests(b)
  BY DEF Record, At, AtWork, Retirement
<1>2. /\ Under(o, n) /\ Behind(b) /\ Shelves /\ Stands /\ o # NoPass /\ n # NoPass
      /\ o \in Passphrases /\ n \in Passphrases
  BY <1>0, <1>1, AtWorkNow
<1>3. current = n /\ o # n
  BY <1>0, <1>1, <1>2 DEF Behind, Under
<1>4. CASE UNCHANGED entry /\ failures < MaxFailures /\ failures' = failures + 1
  <2>1. Shelves'
    BY <1>1, <1>2, <1>4, ChangeAssumption DEF Shelves
  <2>2. Steady(o, n)
    BY <1>1, <1>2, <1>4, <2>1, Still
  <2> QED
    BY <1>0, <1>1, <2>2, StopsWork
<1>5. CASE entry' = Upserted(b) /\ UNCHANGED failures
  <2>1. /\ entry' = [names |-> IF session[b].fate = "atEdit" THEN o ELSE n,
                     space |-> n, marker |-> NoPass]
        /\ session[b].fate = "named" => o \notin doc
    BY <1>0, <1>1, <1>2, <1>5 DEF Upserted, Recorded, Behind
  <2>2. /\ entry'.names \in {o, n} /\ entry'.marker = NoPass
        /\ entry'.names = n => o \notin doc
    BY <1>2, <1>3, <2>1 DEF Behind
  <2>3. Shelves'
    BY <1>1, <1>2, <1>5, <2>1 DEF Shelves, OrNone
  <2>4. Steady(o, n)
    BY <1>1, <1>2, <1>3, <2>2, <2>3 DEF Steady, Stands, Under
  <2> QED
    BY <1>0, <1>1, <2>4, StopsWork
<1> QED
  BY <1>4, <1>5 DEF Record

-----------------------------------------------------------------------------
\* What fails, and the tab that closes.

LEMMA GivesUpStep ==
  ASSUME ChangeInv, NEW b \in Browsers, Failure(b)
  PROVE  ChangeInv'
<1>1. /\ failures < MaxFailures /\ failures' = failures + 1
      /\ UNCHANGED <<account, local, current>>
  BY DEF Failure, RenewRefused, RetireFails, RetireRefused, TailFails, Close, Fails
<1>2. Shelves' /\ UNCHANGED <<doc, spaces, entry, current>>
  BY <1>1, Seated, ChangeAssumption DEF Shelves, account
<1>3. CASE ~AtWork(b)
  <2>1. /\ session[b].at \notin Establish \cup Retirement
        /\ Close(b) \/ Fails(b)
    BY <1>3 DEF Failure, RenewRefused, RetireFails, RetireRefused, TailFails, At, AtWork,
         Retirement
  <2>2. CASE Close(b) \/ Rests(b)
    BY <1>2, <1>3, <2>2, Rested DEF Close
  <2>3. CASE Goes(b, "repair") /\ session[b].at \in Login
    <3>1. "repair" \in Login
      BY DEF Login
    <3> QED
      BY <1>2, <2>3, <3>1, PassesOn DEF Passing
  <2> QED
    BY <2>1, <2>2, <2>3 DEF Fails
<1>4. CASE AtWork(b)
  <2>0. PICK o, n : o = session[b].old /\ n = session[b].new
    OBVIOUS
  <2>1. /\ Under(o, n) /\ Behind(b) /\ session[b].at \notin {"sweep", "cascade"}
        /\ o \in Passphrases /\ n \in Passphrases
    BY <1>4, <2>0, AtWorkNow, PlacesApart DEF AtWork, Login
  <2>2. Steady(o, n)
    BY <1>2, <2>1, Still
  <2>3. CASE Rests(b) \/ session' = [session EXCEPT ![b] = Out]
    BY <1>4, <2>0, <2>2, <2>3, StopsWork
  <2>4. CASE session[b].at \in {"rotate", "fanOut"} /\ Goes(b, Tail(b))
    <3>1. /\ session[b].at \in Retirement /\ current' = n /\ session[b].fate = "named"
          /\ o \notin doc'
      BY <1>2, <2>0, <2>1, <2>4 DEF Behind, Retirement
    <3>2. Tail(b) \in {"deleteLate", "record"} /\ Tail(b) \in Retirement
      BY DEF Tail, Retirement
    <3> QED
      BY <1>4, <2>0, <2>2, <2>4, <3>1, <3>2, MovesAlong
  <2>5. CASE /\ session[b].at = "retire"
             /\ session' = [session EXCEPT ![b].at = Tail(b), ![b].fate = "atEdit"]
    <3> DEFINE j == [session[b] EXCEPT !.at = Tail(b), !.fate = "atEdit"]
    <3>1. Tail(b) \in {"deleteLate", "record"} /\ Tail(b) \in Retirement
      BY DEF Tail, Retirement
    <3>2. /\ session' = [session EXCEPT ![b] = j] /\ session'[b] = j /\ j \in Seats
          /\ j.at = Tail(b) /\ j.kind = session[b].kind /\ j.login = session[b].login
          /\ j.old = o /\ j.new = n /\ j.fate = "atEdit"
      BY <2>0, <2>5, <3>1, Seated DEF Seats, Places
    <3> HIDE DEF j
    <3>3. current = n
      BY <2>0, <2>1, <2>5 DEF Behind, Retirement
    <3>4. Behind(b)'
      BY <1>2, <2>0, <2>1, <3>1, <3>2, <3>3 DEF Behind
    <3> QED
      BY <1>4, <2>0, <2>2, <3>1, <3>2, <3>4, WorkStep
  <2> QED
    BY <2>1, <2>3, <2>4, <2>5
    DEF Failure, RenewRefused, RetireFails, RetireRefused, TailFails, Close, Fails, At
<1> QED
  BY <1>3, <1>4

-----------------------------------------------------------------------------
LEMMA ChangeStart == GoesOn /\ Init => ChangeInv
<1> SUFFICES ASSUME GoesOn, Init PROVE ChangeInv
  OBVIOUS
<1>1. Shelves
  BY ChangeAssumption DEF Init, Shelves, OrNone, GoesOn
<1>2. Out \in Seats /\ Out.at = "out"
  BY DEF Out, Seats, Places, OrNone
<1>3. session \in [Browsers -> Seats] /\ \A b \in Browsers : session[b] = Out
  BY <1>2 DEF Init
<1>4. TypeOK
  BY <1>1, <1>3, TypedApart
<1>5. Stands
  BY ChangeAssumption DEF Init, Stands, GoesOn
<1>6. \A b \in Browsers : ~Passing(b) /\ ~AtWork(b)
  BY <1>2, <1>3, PlacesApart DEF Passing, AtWork
<1> QED
  BY <1>4, <1>5, <1>6 DEF ChangeInv, Agree

LEMMA ChangeStutters ==
  ASSUME ChangeInv, UNCHANGED vars PROVE ChangeInv'
<1>1. TypeOK'
  <2>1. TypeOK
    BY DEF ChangeInv
  <2> QED
    BY <2>1 DEF vars, TypeOK
<1>2. UNCHANGED <<doc, spaces, entry, session, current>>
  BY DEF vars
<1>3. Stands' /\ \A b, c \in Browsers : Agree(b, c)'
  BY <1>2 DEF ChangeInv, Stands, Agree, Passing, AtWork
<1>4. \A b \in Browsers : Passing(b)' => Passes(b)'
  BY <1>2 DEF ChangeInv, Passing, Passes
<1>5. \A b \in Browsers :
        AtWork(b)' => Under(session[b].old, session[b].new)' /\ Behind(b)'
  BY <1>2 DEF ChangeInv, AtWork, Under, Behind, Enrolled
<1> QED
  BY <1>1, <1>3, <1>4, <1>5 DEF ChangeInv

LEMMA ChangeInductive ==
  ASSUME GoesOn, ChangeInv, [Next]_vars PROVE ChangeInv'
<1>1. ASSUME NEW b \in Browsers, Step(b) PROVE ChangeInv'
  BY <1>1, SweepsStep, RepairStep, MarkStep, EscrowStep, BindsStep, PublishesStep,
     DeletesStep, RetiresStep, RotatesStep, DeletesLateStep, RecordsStep DEF Step
<1>2. ASSUME NEW b \in Browsers, LogOut(b) PROVE ChangeInv'
  <2>1. /\ ~AtWork(b) /\ session' = [session EXCEPT ![b] = Out]
        /\ UNCHANGED <<account, local, current, failures>>
    BY <1>2, PlacesApart DEF LogOut, At, AtWork
  <2>2. Shelves' /\ UNCHANGED <<doc, spaces, entry, current>>
    BY <2>1, Seated DEF Shelves, account
  <2> QED
    BY <2>1, <2>2, Rested
<1> QED
  BY <1>1, <1>2, LogsInStep, StartsStep, GivesUpStep, ChangeStutters DEF Next

\* For every number of passphrases, browsers and failures, the strengthened
\* invariant holds.
THEOREM ChangeSafety == ASSUME GoesOn PROVE Spec => []ChangeInv
<1>1. Init => ChangeInv
  BY ChangeStart
<1>2. ChangeInv /\ [Next]_vars => ChangeInv'
  BY ChangeInductive
<1> QED
  BY <1>1, <1>2, PTL DEF Spec

\* No repair and no torn change retires the passphrase established last or
\* deletes its record (pendingRetirement's direction guard and its marker), and
\* the one superseded that the document may still list is the one the
\* registry's entry names.
THEOREM StandingIsNamedSafety == ASSUME GoesOn PROVE Spec => []StandingIsNamed
<1>1. ChangeInv => StandingIsNamed
  BY DEF ChangeInv, Stands, StandingIsNamed, CurrentStands
<1> QED
  BY <1>1, ChangeSafety, PTL
====
