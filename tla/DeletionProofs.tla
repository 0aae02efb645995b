---- MODULE DeletionProofs ----
(***************************************************************************)
(* What the deletion walk guarantees for every number of tabs, siblings,   *)
(* annex Spaces and failures: the account that lives can be entered, and   *)
(* every report of a run is true.                                          *)
(***************************************************************************)
EXTENDS AccountDeletion, TLAPS

Places == {"idle", "confirm", "verify", "renew", "registry", "probe", "annex",
           "unlock", "pivot", "reprobe", "log", "acting", "wipe", "done"}
Results == {"none", "wrong-passphrase", "failed", "deleted",
            "deleted-unverified"} \cup Refusals
RunType ==
  [at : Places, todo : SUBSET Spaces, absent : SUBSET Spaces, reg : SUBSET Siblings,
   read : BOOLEAN, gone : BOOLEAN, threw : BOOLEAN, again : BOOLEAN,
   known : SUBSET Siblings, grade : [Spaces -> Grades], landed : BOOLEAN,
   doubt : BOOLEAN, failed : SUBSET (Credentials \cup {Replica}), result : Results]

\* The account's own state: the record of the acting credential outlives the
\* account, and the pointer's past names every annex Space.
Standing ==
  /\ alive \in BOOLEAN /\ struck \in BOOLEAN
  /\ minted \in 1..MaxAnnex /\ annex \subseteq 1..minted
  /\ unlock \subseteq Credentials /\ registry \subseteq Siblings
  /\ local \subseteq Credentials \cup {Replica}
  /\ session \in [Tabs -> 0..minted]
  /\ failures \in 0..MaxFailures
  /\ alive => Acting \in unlock

Unread == {"idle", "confirm", "verify", "renew", "registry"}
Reading == {"probe", "annex", "unlock", "pivot", "reprobe", "log"}
Pivoted == {"pivot", "reprobe", "log", "acting", "wipe"}
Said == {"deleted", "deleted-unverified"}

\* What the place of a walk has behind it.
Place(t) ==
  /\ run[t].result # "none" <=> run[t].at = "done"
  /\ run[t].at \in Unread => ~run[t].read
  /\ run[t].at \in Reading => run[t].read
  /\ ~run[t].read => run[t].reg = {}
  /\ run[t].gone \/ run[t].landed => run[t].at \notin Unread /\ ~alive
  /\ run[t].gone => run[t].at \in {"acting", "wipe", "done"}
  /\ run[t].landed => run[t].at \in {"reprobe", "log", "acting", "wipe", "done"}
  /\ run[t].at \in {"acting", "wipe"} => ~alive
  /\ run[t].at \in {"renew", "registry", "probe", "annex"} => run[t].todo \subseteq 1..minted
  /\ run[t].at = "unlock" => run[t].todo \subseteq run[t].reg
  /\ run[t].reg \subseteq registry /\ run[t].known \subseteq registry
  /\ run[t].read => run[t].known \subseteq run[t].reg

\* What a walk says of the Spaces, and what it says at its end.
True(t) ==
  \A s \in Spaces : run[t].grade[s] = "deleted" =>
    /\ s \notin annex \cup unlock
    /\ s = Account => ~alive
    /\ s \in Int => s <= minted
    /\ s \in Siblings => s \in registry
Covered(t) ==
  /\ run[t].at = "unlock" =>
       \A c \in run[t].reg \ run[t].todo : run[t].grade[c] # "none"
  /\ run[t].at \in Pivoted \/ run[t].result \in Said =>
       \A c \in run[t].reg : run[t].grade[c] # "none"
Ended(t) ==
  /\ run[t].landed /\ run[t].result \in {"failed"} \cup Refusals => run[t].doubt
  /\ run[t].result = "deleted" =>
       /\ run[t].read
       /\ local \cap (run[t].reg \cup {Acting, Replica}) \subseteq run[t].failed

Sound(t) == Place(t) /\ True(t) /\ Covered(t) /\ Ended(t)

Inv ==
  /\ Standing
  /\ run \in [Tabs -> RunType]
  /\ \A t \in Tabs : Sound(t)

\* Nothing a step does to the account revives what a walk took to be gone.
Later ==
  /\ alive' => alive
  /\ minted <= minted' /\ minted' \in Int
  /\ annex' \cap 1..minted \subseteq annex
  /\ registry \subseteq registry'
  /\ unlock' \cap (registry \cup {Acting}) \subseteq unlock
  /\ local' \subseteq local

\* What a walk said of a Space stays true, and what it says anew has to be.
LEMMA TrueStays ==
  ASSUME DeletionAssumption, Inv, Standing', Later, NEW t \in Tabs,
         run'[t].grade = run[t].grade
  PROVE  True(t)'
<1> SUFFICES ASSUME NEW s \in Spaces, run[t].grade[s] = "deleted"
             PROVE  /\ s \notin annex' \cup unlock'
                    /\ s = Account => ~alive'
                    /\ s \in Int => s <= minted'
                    /\ s \in Siblings => s \in registry'
  BY DEF True
<1>0. minted \in Int /\ minted' \in Int /\ minted >= 1 /\ minted' >= minted
  BY DEF Inv, Standing, Later, DeletionAssumption
<1>1. /\ s \notin annex \cup unlock
      /\ s = Account => ~alive
      /\ s \in Int => s <= minted
      /\ s \in Siblings => s \in registry
  BY DEF Inv, Sound, True
<1>2. ASSUME s \in annex' PROVE FALSE
  <2>1. s \in 1..minted'
    BY <1>2 DEF Standing
  <2>2. s \in 1..minted
    BY <1>0, <1>1, <2>1
  <2> QED
    BY <1>1, <1>2, <2>2 DEF Later
<1>3. s \notin unlock'
  BY <1>1 DEF Later, Standing, Credentials
<1> QED
  BY <1>0, <1>1, <1>2, <1>3 DEF Later

LEMMA TrueMarks ==
  ASSUME DeletionAssumption, Inv, Standing', Later, NEW t \in Tabs,
         NEW s \in Spaces, NEW g \in Grades, run'[t].grade = Graded(t, s, g),
         g = "deleted" => /\ s \notin annex' \cup unlock'
                          /\ s = Account => ~alive'
                          /\ s \in Int => s <= minted'
                          /\ s \in Siblings => s \in registry'
  PROVE  True(t)'
<1>1. run[t].grade \in [Spaces -> Grades]
  BY DEF Inv, RunType
<1> SUFFICES ASSUME NEW o \in Spaces, run'[t].grade[o] = "deleted"
             PROVE  /\ o \notin annex' \cup unlock'
                    /\ o = Account => ~alive'
                    /\ o \in Int => o <= minted'
                    /\ o \in Siblings => o \in registry'
  BY DEF True
<1>2. CASE o = s
  BY <1>1, <1>2 DEF Graded
<1>3. CASE o # s
  <2>1. run[t].grade[o] = "deleted"
    BY <1>1, <1>3 DEF Graded
  <2>0. minted \in Int /\ minted' \in Int /\ minted >= 1 /\ minted' >= minted
    BY DEF Inv, Standing, Later, DeletionAssumption
  <2>2. /\ o \notin annex \cup unlock
        /\ o = Account => ~alive
        /\ o \in Int => o <= minted
        /\ o \in Siblings => o \in registry
    BY <2>1 DEF Inv, Sound, True
  <2>3. ASSUME o \in annex' PROVE FALSE
    <3>1. o \in 1..minted'
      BY <2>3 DEF Standing
    <3>2. o \in 1..minted
      BY <2>0, <2>2, <3>1
    <3> QED
      BY <2>2, <2>3, <3>2 DEF Later
  <2>4. o \notin unlock'
    BY <2>2 DEF Later, Standing, Credentials
  <2> QED
    BY <2>0, <2>2, <2>3, <2>4 DEF Later
<1> QED
  BY <1>2, <1>3

\* A walk no step touched says what it said.
LEMMA Stays ==
  ASSUME DeletionAssumption, Inv, Standing', Later, NEW t \in Tabs, run'[t] = run[t]
  PROVE  Sound(t)'
<1>0. minted \in Int /\ minted' \in Int /\ minted >= 1 /\ minted' >= minted
  BY DEF Inv, Standing, Later, DeletionAssumption
<1>1. Place(t)'
  <2>1. 1..minted \subseteq 1..minted'
    <3> SUFFICES ASSUME NEW s \in 1..minted PROVE s \in 1..minted'
      OBVIOUS
    <3> QED
      BY <1>0
  <2> QED
    BY <2>1 DEF Later, Inv, Sound, Place
<1>2. True(t)'
  BY TrueStays
<1>3. Covered(t)'
  BY DEF Inv, Sound, Covered
<1>4. Ended(t)'
  BY DEF Later, Inv, Sound, Ended
<1> QED
  BY <1>1, <1>2, <1>3, <1>4 DEF Sound

\* A step of one tab that leaves the account's state standing, and its own walk
\* sound, keeps the invariant.
LEMMA OneTab ==
  ASSUME DeletionAssumption, Inv, Standing', Later, NEW t \in Tabs,
         NEW r \in RunType, run' = [run EXCEPT ![t] = r], Sound(t)'
  PROVE  Inv'
<1>1. run' \in [Tabs -> RunType]
  BY DEF Inv
<1>2. ASSUME NEW u \in Tabs PROVE Sound(u)'
  <2>1. CASE u # t
    <3>1. run'[u] = run[u]
      BY <2>1 DEF Inv
    <3> QED
      BY <3>1, Stays
  <2> QED
    BY <2>1
<1> QED
  BY <1>1, <1>2 DEF Inv

LEMMA NoTab ==
  ASSUME DeletionAssumption, Inv, Standing', Later, run' = run
  PROVE  Inv'
  BY Stays DEF Inv

\* A walk that is none, or only starts, has said nothing.
New(r) ==
  /\ r.at \in {"idle", "confirm"} /\ r.result = "none" /\ ~r.read /\ r.reg = {}
  /\ ~r.gone /\ ~r.landed /\ r.known \subseteq registry
  /\ \A s \in Spaces : r.grade[s] = "none"

LEMMA Fresh == ASSUME NEW t \in Tabs, New(run[t]) PROVE Sound(t)
  BY DEF New, Unread, Reading, Pivoted, Said, Refusals, Sound, Place, True,
         Covered, Ended

LEMMA NoRunTyped ==
  ASSUME NEW k \in SUBSET Siblings
  PROVE  NoRun \in RunType /\ [NoRun EXCEPT !.at = "confirm", !.known = k] \in RunType
  BY DEF NoRun, RunType, Grades, Places, Results

LEMMA InitInv == DeletionAssumption /\ Init => Inv
<1> SUFFICES ASSUME DeletionAssumption, Init PROVE Inv
  OBVIOUS
<1>1. Standing
  <2>1. 1 \in 1..MaxAnnex /\ {1} \subseteq 1..1 /\ 0 \in 0..1 /\ 0 \in 0..MaxFailures
    BY DEF DeletionAssumption
  <2> QED
    BY <2>1 DEF Init, Standing, Credentials
<1>2. run \in [Tabs -> RunType] /\ \A t \in Tabs : run[t] = NoRun
  BY NoRunTyped DEF Init
<1>3. \A t \in Tabs : New(run[t])
  BY <1>2 DEF NoRun, New
<1>4. \A t \in Tabs : Sound(t)
  BY <1>3, Fresh
<1> QED
  BY <1>1, <1>2, <1>4 DEF Inv

\* The DELETE of any Space but the account, and of any but the acting
\* credential's.
LEMMA DeletedKeeps ==
  ASSUME DeletionAssumption, Inv, NEW s, Deleted(s), s # Account,
         UNCHANGED <<minted, registry, struck>>, session' = session \/ session' \in [Tabs -> 0..minted],
         failures' \in 0..MaxFailures, local' \subseteq local,
         s # Acting \/ ~alive
  PROVE  Standing' /\ Later
<1>1. alive' = alive
  BY Zenon DEF Deleted, Inv, Standing
<1>2. minted <= minted' /\ minted' \in Int
  BY DEF Inv, Standing, DeletionAssumption
<1>3. /\ annex' \subseteq annex /\ unlock' \subseteq unlock
      /\ alive => Acting \in unlock'
  BY DEF Deleted, Inv, Standing
<1>4. session' \in [Tabs -> 0..minted']
  BY DEF Inv, Standing
<1> QED
  BY <1>1, <1>2, <1>3, <1>4 DEF Inv, Standing, Later

LEMMA SpacesKept ==
  ASSUME DeletionAssumption, Inv, UNCHANGED <<spaces, minted, registry>>,
         struck' \in BOOLEAN, session' \in [Tabs -> 0..minted],
         failures' \in 0..MaxFailures, local' \subseteq local
  PROVE  Standing' /\ Later
  BY DEF spaces, Inv, Standing, Later, DeletionAssumption

LEMMA Spent ==
  ASSUME DeletionAssumption, Inv, Spend \/ UNCHANGED failures
  PROVE  failures' \in 0..MaxFailures
  BY DEF Spend, Inv, Standing, DeletionAssumption

\* The steps of the account's other life.
LEMMA EnterStep ==
  ASSUME DeletionAssumption, Inv, NEW t \in Tabs, Enter(t) PROVE Inv'
<1>1. Standing' /\ Later
  <2> USE DEF Enter, Inv, Standing, Later, DeletionAssumption
  <2>1. CASE annex' = annex /\ minted' = minted
    <3>1. session' = [session EXCEPT ![t] = minted] /\ minted \in 0..minted
      BY <2>1 DEF Readies
    <3> QED
      BY <2>1, <3>1
  <2>2. CASE minted < MaxAnnex /\ minted' = minted + 1 /\ annex' = annex \cup {minted'}
             /\ session' = [session EXCEPT ![t] = minted']
    <3>1. /\ minted' \in 1..MaxAnnex /\ minted' \in 0..minted' /\ minted' \notin 1..minted
          /\ \A i : i \in 1..minted => i \in 1..minted'
          /\ \A i : i \in 0..minted => i \in 0..minted'
      BY <2>2
    <3>2. session' \in [Tabs -> 0..minted']
      BY <2>2, <3>1
    <3>3. annex' \subseteq 1..minted' /\ annex' \cap 1..minted \subseteq annex
      BY <2>2, <3>1
    <3> QED
      BY <2>2, <3>1, <3>2, <3>3
  <2> QED
    BY <2>1, <2>2 DEF Readies
<1>2. run' = [run EXCEPT ![t] = NoRun] /\ NoRun \in RunType
  BY NoRunTyped DEF Enter, Goes
<1>3. run'[t] = NoRun
  BY <1>2 DEF Inv
<1>4. Sound(t)'
  BY <1>3 DEF NoRun, Unread, Reading, Pivoted, Said, Refusals, Sound, Place, True,
              Covered, Ended
<1> QED
  BY <1>1, <1>2, <1>4, OneTab

LEMMA CloseStep ==
  ASSUME DeletionAssumption, Inv, NEW t \in Tabs, CloseTab(t) PROVE Inv'
<1>1. Standing' /\ Later
  <2>1. session' \in [Tabs -> 0..minted]
    BY DEF CloseTab, Inv, Standing, DeletionAssumption
  <2> QED
    BY <2>1, Spent, SpacesKept DEF CloseTab, Inv, Standing
<1>2. run' = [run EXCEPT ![t] = NoRun] /\ NoRun \in RunType
  BY NoRunTyped DEF CloseTab, Goes
<1>3. run'[t] = NoRun
  BY <1>2 DEF Inv
<1>4. Sound(t)'
  BY <1>3 DEF NoRun, Unread, Reading, Pivoted, Said, Refusals, Sound, Place, True,
              Covered, Ended
<1> QED
  BY <1>1, <1>2, <1>4, OneTab

LEMMA StartStep ==
  ASSUME DeletionAssumption, Inv, NEW t \in Tabs, Start(t) PROVE Inv'
<1> DEFINE r == [NoRun EXCEPT !.at = "confirm", !.known = registry]
<1>1. Standing' /\ Later
  BY SpacesKept DEF Start, Inv, Standing
<1>2. run' = [run EXCEPT ![t] = r] /\ r \in RunType
  BY NoRunTyped DEF Start, Goes, Inv, Standing
<1>3. run'[t] = r
  BY <1>2 DEF Inv
<1>4. Sound(t)'
  BY <1>3 DEF NoRun, Unread, Reading, Pivoted, Said, Refusals, Sound, Place, True,
              Covered, Ended, Start
<1> QED
  BY <1>1, <1>2, <1>4, OneTab

LEMMA OtherStep ==
  ASSUME DeletionAssumption, Inv,
         \/ \E c \in Credentials : LoginDead(c)
         \/ \E c \in Siblings : AddMethod(c)
         \/ Strike
         \/ UNCHANGED vars
  PROVE  Inv'
<1>1. ASSUME NEW c \in Credentials, LoginDead(c) PROVE Inv'
  <2>1. c # Account
    BY DEF Credentials, DeletionAssumption
  <2>2. failures' \in 0..MaxFailures /\ local' \subseteq local
    BY <1>1, Spent DEF LoginDead
  <2>3. CASE Deleted(c)
    BY <1>1, <2>1, <2>2, <2>3, DeletedKeeps, NoTab DEF LoginDead
  <2>4. CASE UNCHANGED spaces
    BY <1>1, <2>2, <2>4, SpacesKept, NoTab DEF LoginDead, Inv, Standing
  <2> QED
    BY <1>1, <2>3, <2>4 DEF LoginDead
<1>2. ASSUME NEW c \in Siblings, AddMethod(c) PROVE Inv'
  <2>1. Standing' /\ Later
    BY <1>2 DEF AddMethod, Inv, Standing, Later, Credentials, DeletionAssumption
  <2> QED
    BY <1>2, <2>1, NoTab DEF AddMethod
<1>3. CASE Strike
  BY <1>3, SpacesKept, NoTab DEF Strike, Inv, Standing
<1>4. CASE UNCHANGED vars
  BY <1>4, SpacesKept, NoTab DEF vars, Inv, Standing
<1> QED
  BY <1>1, <1>2, <1>3, <1>4

\* What an action of the walk changes beside its own walk.
LEMMA WalkStands ==
  ASSUME DeletionAssumption, Inv, NEW t \in Tabs, Walk(t)
  PROVE  Standing' /\ Later
<1> DEFINE Keeps == UNCHANGED <<spaces, minted, registry, struck, session, local>>
<1>1. ASSUME Keeps, Spend \/ UNCHANGED failures PROVE Standing' /\ Later
  BY <1>1, Spent, SpacesKept DEF Inv, Standing
<1>2. ASSUME NEW s \in Spaces, DeleteSpace(t, s), s # Account, s # Acting,
             UNCHANGED <<minted, registry, struck, local, session>>
      PROVE  Standing' /\ Later
  <2>1. Spend \/ UNCHANGED failures
    BY <1>2 DEF DeleteSpace
  <2>2. Deleted(s) \/ UNCHANGED spaces
    BY <1>2 DEF DeleteSpace
  <2> QED
    BY <1>1, <1>2, <2>1, <2>2, Spent, DeletedKeeps
<1>3. CASE Confirm(t) \/ Verify(t) \/ Renew(t) \/ ReadRegistry(t) \/ Probe(t)
           \/ Reprobe(t) \/ ReadLog(t)
  BY <1>1, <1>3 DEF Confirm, Verify, Renew, ReadRegistry, Probe, Reprobe, ReadLog
<1>4. CASE DeleteAnnex(t)
  <2>1. run[t].todo \subseteq 1..minted /\ minted \in Int
    BY <1>4 DEF DeleteAnnex, Inv, Sound, Place, Standing, DeletionAssumption
  <2>2. \A s \in run[t].todo : s \in Spaces /\ s # Account /\ s # Acting
    BY <2>1 DEF Inv, RunType, DeletionAssumption
  <2> QED
    BY <1>1, <1>2, <1>4, <2>2 DEF DeleteAnnex
<1>5. CASE DeleteSibling(t)
  <2>1. run[t].at = "unlock" /\ run[t].todo \subseteq Siblings
    BY <1>5 DEF DeleteSibling, Inv, Sound, Place, Standing
  <2>2. \A s \in run[t].todo : s \in Spaces /\ s # Account /\ s # Acting
    BY <2>1 DEF Spaces, Credentials, DeletionAssumption
  <2> QED
    BY <1>1, <1>2, <1>5, <2>2 DEF DeleteSibling, At
<1>6. CASE Pivot(t)
  <2>1. CASE Deleted(Account) /\ (Spend \/ UNCHANGED failures)
    <3>1. failures' \in 0..MaxFailures
      BY <2>1, Spent
    <3>2. alive' = FALSE
      BY <2>1, Zenon DEF Deleted
    <3>3. annex' \subseteq annex /\ unlock' \subseteq unlock
      BY <2>1 DEF Deleted
    <3>4. /\ UNCHANGED <<minted, registry, struck, local, session>>
          /\ minted <= minted' /\ minted' \in Int
      BY <1>6 DEF Pivot, Inv, Standing, DeletionAssumption
    <3> QED
      BY <3>1, <3>2, <3>3, <3>4 DEF Inv, Standing, Later
  <2>2. CASE UNCHANGED spaces /\ (Spend \/ UNCHANGED failures)
    BY <1>1, <1>6, <2>2 DEF Pivot
  <2> QED
    BY <1>6, <2>1, <2>2 DEF Pivot
<1>7. CASE DeleteActing(t)
  <2>1. ~alive /\ Acting # Account
    BY <1>7 DEF DeleteActing, Inv, Sound, Place, DeletionAssumption
  <2>2. session' \in [Tabs -> 0..minted]
    BY <1>7 DEF DeleteActing, Inv, Standing, DeletionAssumption
  <2>3. failures' \in 0..MaxFailures
    BY <1>7, Spent DEF DeleteActing
  <2>4. local' \subseteq local
    BY <1>7 DEF DeleteActing
  <2>5. Deleted(Acting) \/ UNCHANGED spaces
    BY <1>7 DEF DeleteActing
  <2>6. UNCHANGED <<minted, registry, struck>>
    BY <1>7 DEF DeleteActing
  <2>7. CASE Deleted(Acting)
    BY <2>1, <2>2, <2>3, <2>4, <2>6, <2>7, DeletedKeeps
  <2>8. CASE UNCHANGED spaces
    BY <2>2, <2>3, <2>4, <2>6, <2>8, SpacesKept DEF Inv, Standing
  <2> QED
    BY <2>5, <2>7, <2>8
<1>8. CASE Wipe(t)
  <2>1. local' \subseteq local
    BY <1>8 DEF Wipe
  <2>2. Spend \/ UNCHANGED failures
    BY <1>8 DEF Wipe
  <2> QED
    BY <1>8, <2>1, <2>2, Spent, SpacesKept DEF Wipe, Inv, Standing
<1> QED
  BY <1>3, <1>4, <1>5, <1>6, <1>7, <1>8 DEF Walk

\* An action of the walk changes no other walk.
LEMMA WalkGoes ==
  ASSUME DeletionAssumption, Inv, NEW t \in Tabs, Walk(t)
  PROVE  \E r \in RunType : run' = [run EXCEPT ![t] = r]
<1> USE DEF Goes, At, Returns, RunType, Places, Results, Refusals
<1>1. /\ run[t] \in RunType /\ Account \in Spaces /\ Acting \in Spaces
      /\ Siblings \subseteq Spaces /\ {} \subseteq Spaces
  BY DEF Inv, Spaces, Credentials
<1>2. \A s \in Spaces, g \in Grades : Graded(t, s, g) \in [Spaces -> Grades]
  BY <1>1 DEF Graded
<1>3. CASE Confirm(t)
  BY <1>1, <1>3 DEF Confirm
<1>4. CASE Verify(t)
  <2>1. 1..minted \subseteq Spaces
    BY DEF Inv, Standing, Spaces, Annexes, DeletionAssumption
  <2>2. "deleted" \in Grades
    BY DEF Grades
  <2> QED
    BY <1>1, <1>2, <1>4, <2>1, <2>2 DEF Verify
<1>5. CASE Renew(t)
  BY <1>1, <1>5 DEF Renew
<1>6. CASE ReadRegistry(t)
  BY <1>1, <1>6 DEF ReadRegistry, Masked, Inv, Standing
<1>7. CASE Probe(t)
  BY <1>1, <1>7 DEF Probe
<1>8. ASSUME NEW s \in Spaces, DeleteSpace(t, s)
      PROVE  \E r \in RunType : run' = [run EXCEPT ![t] = r]
  <2>1. /\ Grade404(run[t], s) # "refuse" => Grade404(run[t], s) \in Grades
        /\ "deleted" \in Grades
    BY DEF Grade404, Grades
  <2> QED
    BY <1>1, <1>2, <1>8, <2>1 DEF DeleteSpace
<1>9. CASE DeleteAnnex(t)
  <2>1. CASE \E s \in run[t].todo : DeleteSpace(t, s)
    BY <1>1, <1>8, <2>1
  <2>2. CASE run' = [run EXCEPT ![t] = [run[t] EXCEPT !.at = "unlock", !.todo = run[t].reg]]
    BY <1>1, <2>2
  <2> QED
    BY <1>9, <2>1, <2>2 DEF DeleteAnnex
<1>10. CASE DeleteSibling(t)
  <2>1. CASE \E s \in run[t].todo : DeleteSpace(t, s)
    BY <1>1, <1>8, <2>1
  <2>2. ASSUME NEW s \in run[t].todo,
               Goes(t, [run[t] EXCEPT !.todo = @ \ {s}, !.grade = Graded(t, s, "unreachable")])
        PROVE  \E r \in RunType : run' = [run EXCEPT ![t] = r]
    BY <1>1, <1>2, <2>2 DEF Grades
  <2>3. CASE At(t, "pivot")
    BY <1>1, <2>3
  <2> QED
    BY <1>10, <2>1, <2>2, <2>3 DEF DeleteSibling
<1>11. ASSUME NEW b \in BOOLEAN, Gone(t, b)
       PROVE  \E r \in RunType : run' = [run EXCEPT ![t] = r]
  <2>1. "deleted" \in Grades
    BY DEF Grades
  <2> QED
    BY <1>1, <1>2, <1>11, <2>1 DEF Gone
<1>12. CASE Pivot(t)
  BY <1>1, <1>11, <1>12 DEF Pivot, PivotThrew
<1>13. CASE Reprobe(t)
  BY <1>1, <1>13 DEF Reprobe, Doubted
<1>14. CASE ReadLog(t)
  <2>1. "unconfirmed" \in Grades
    BY DEF Grades
  <2>2. ASSUME NEW b \in BOOLEAN, Stands(t, b)
        PROVE  \E r \in RunType : run' = [run EXCEPT ![t] = r]
    <3>1. Graded(t, Account, "unconfirmed") \in [Spaces -> Grades]
      BY <1>1, <1>2, <2>1
    <3>2. CASE Goes(t, [run[t] EXCEPT !.at = "done", !.result = "failed", !.doubt = b])
      BY <1>1, <3>2
    <3>3. CASE Goes(t, [run[t] EXCEPT !.at = "done", !.result = "space-delete-failed",
                              !.doubt = b, !.grade = Graded(t, Account, "unconfirmed")])
      BY <1>1, <3>1, <3>3
    <3> QED
      BY <2>2, <3>2, <3>3 DEF Stands
  <2> QED
    BY <1>1, <1>11, <1>14, <2>2 DEF ReadLog
<1>15. CASE DeleteActing(t)
  <2>1. {"deleted", "unconfirmed", "unreachable"} \subseteq Grades
    BY DEF Grades
  <2> QED
    BY <1>1, <1>2, <1>15, <2>1 DEF DeleteActing
<1>16. CASE Wipe(t)
  <2>1. PICK f \in SUBSET local :
          run' = [run EXCEPT ![t] = [run[t] EXCEPT !.at = "done", !.failed = f,
                                                   !.result = WipeResult(run[t], f)]]
    BY <1>16 DEF Wipe
  <2>2. f \subseteq Credentials \cup {Replica}
    BY DEF Inv, Standing
  <2>3. WipeResult(run[t], f) \in {"deleted", "deleted-unverified"}
    BY DEF WipeResult
  <2> QED
    BY <1>1, <2>1, <2>2, <2>3
<1> QED
  BY <1>3, <1>4, <1>5, <1>6, <1>7, <1>9, <1>10, <1>12, <1>13, <1>14, <1>15, <1>16
  DEF Walk

\* Each action of the walk, taken from a sound walk, leaves it sound.
LEMMA WalkSound ==
  ASSUME DeletionAssumption, Inv, NEW t \in Tabs, Walk(t), Standing', Later
  PROVE  Sound(t)'
<1> USE DEF Unread, Reading, Pivoted, Said, Refusals
<1>1. /\ run \in [Tabs -> RunType] /\ run[t] \in RunType
      /\ run[t].grade \in [Spaces -> Grades]
      /\ Account \in Spaces /\ Acting \in Spaces /\ Siblings \subseteq Spaces
      /\ registry' \subseteq Siblings /\ registry \subseteq Siblings
      /\ {"deleted", "unconfirmed", "unreachable"} \subseteq Grades
  BY DEF Inv, Spaces, Credentials, DeletionAssumption, Standing, RunType, Grades
<1>a. /\ \A s \in annex' : s \in Int
      /\ Account \notin annex' \cup unlock' /\ Acting \notin annex'
  <2>1. minted' \in Int /\ annex' \subseteq 1..minted' /\ unlock' \subseteq Credentials
    BY DEF Standing, DeletionAssumption
  <2>2. \A s \in annex' : s \in Int
    BY <2>1
  <2>3. Account \notin Int /\ Acting \notin Int /\ Account \notin Credentials
    BY DEF DeletionAssumption, Credentials
  <2> QED
    BY <2>1, <2>2, <2>3
<1>2. /\ Place(t) /\ True(t) /\ Covered(t) /\ Ended(t)
      /\ registry \subseteq registry' /\ (alive' => alive) /\ local' \subseteq local
      /\ \A s \in 1..minted : s \in 1..minted' /\ s <= minted'
      /\ Acting \notin Int /\ Account \notin Int /\ Acting # Account
      /\ Acting \notin Siblings /\ Account \notin Siblings
      /\ \A s \in Siblings : s \notin Int /\ s # Account
  BY DEF Inv, Sound, Later, Standing, DeletionAssumption
<1>3. ASSUME NEW p,
             \/ run[t].at = "confirm" /\ p = "verify"
             \/ run[t].at = "renew" /\ p = "registry"
             \/ run[t].at \in {"pivot", "reprobe"} /\ p = "log"
             \/ run[t].at = "unlock" /\ run[t].todo = {} /\ p = "pivot",
             run'[t] = [run[t] EXCEPT !.at = p]
      PROVE  Sound(t)'
  <2>1. /\ run'[t].at = p /\ run'[t].todo = run[t].todo
        /\ run'[t].absent = run[t].absent /\ run'[t].reg = run[t].reg
        /\ run'[t].read = run[t].read /\ run'[t].gone = run[t].gone
        /\ run'[t].threw = run[t].threw /\ run'[t].again = run[t].again
        /\ run'[t].known = run[t].known /\ run'[t].grade = run[t].grade
        /\ run'[t].landed = run[t].landed /\ run'[t].doubt = run[t].doubt
        /\ run'[t].failed = run[t].failed /\ run'[t].result = run[t].result
    BY <1>1, <1>3 DEF RunType
  <2>2. Place(t)'
    BY <1>2, <1>3, <2>1 DEF Place
  <2>3. True(t)'
    BY <2>1, TrueStays
  <2>4. Covered(t)'
    BY <1>2, <1>3, <2>1 DEF Place, Covered
  <2>5. Ended(t)'
    BY <1>2, <1>3, <2>1 DEF Place, Ended
  <2> QED
    BY <2>2, <2>3, <2>4, <2>5 DEF Sound
<1>4. ASSUME NEW e \in {"wrong-passphrase", "failed"} \cup Refusals,
             run[t].at \notin {"acting", "wipe", "done"},
             ~run[t].landed,
             run'[t] = [run[t] EXCEPT !.at = "done", !.result = e]
      PROVE  Sound(t)'
  <2>1. /\ run'[t].at = "done" /\ run'[t].todo = run[t].todo
        /\ run'[t].absent = run[t].absent /\ run'[t].reg = run[t].reg
        /\ run'[t].read = run[t].read /\ run'[t].gone = run[t].gone
        /\ run'[t].threw = run[t].threw /\ run'[t].again = run[t].again
        /\ run'[t].known = run[t].known /\ run'[t].grade = run[t].grade
        /\ run'[t].landed = run[t].landed /\ run'[t].doubt = run[t].doubt
        /\ run'[t].failed = run[t].failed /\ run'[t].result = e
    BY <1>1, <1>4 DEF RunType
  <2>2. Place(t)'
    BY <1>2, <1>4, <2>1 DEF Place
  <2>3. True(t)'
    BY <2>1, TrueStays
  <2>4. Covered(t)'
    BY <1>2, <1>4, <2>1 DEF Place, Covered
  <2>5. Ended(t)'
    BY <1>2, <1>4, <2>1 DEF Place, Ended
  <2> QED
    BY <2>2, <2>3, <2>4, <2>5 DEF Sound
<1>5. ASSUME NEW p \in {"registry", "renew"},
             run[t].at = "verify",
             run'[t] = [run[t] EXCEPT !.at = p, !.todo = 1..minted]
      PROVE  Sound(t)'
  <2>1. /\ run'[t].at = p /\ run'[t].todo = 1..minted
        /\ run'[t].absent = run[t].absent /\ run'[t].reg = run[t].reg
        /\ run'[t].read = run[t].read /\ run'[t].gone = run[t].gone
        /\ run'[t].threw = run[t].threw /\ run'[t].again = run[t].again
        /\ run'[t].known = run[t].known /\ run'[t].grade = run[t].grade
        /\ run'[t].landed = run[t].landed /\ run'[t].doubt = run[t].doubt
        /\ run'[t].failed = run[t].failed /\ run'[t].result = run[t].result
    BY <1>1, <1>5 DEF RunType
  <2>2. Place(t)'
    BY <1>2, <1>5, <2>1 DEF Place
  <2>3. True(t)'
    BY <2>1, TrueStays
  <2>4. Covered(t)'
    BY <1>2, <1>5, <2>1 DEF Place, Covered
  <2>5. Ended(t)'
    BY <1>2, <1>5, <2>1 DEF Place, Ended
  <2> QED
    BY <2>2, <2>3, <2>4, <2>5 DEF Sound
<1>6. ASSUME run[t].at = "verify",
             ~alive',
             run'[t] = [run[t] EXCEPT !.at = "acting", !.gone = TRUE, !.grade = Graded(t, Account, "deleted")]
      PROVE  Sound(t)'
  <2>1. /\ run'[t].at = "acting" /\ run'[t].todo = run[t].todo
        /\ run'[t].absent = run[t].absent /\ run'[t].reg = run[t].reg
        /\ run'[t].read = run[t].read /\ run'[t].gone = TRUE
        /\ run'[t].threw = run[t].threw /\ run'[t].again = run[t].again
        /\ run'[t].known = run[t].known /\ run'[t].grade = Graded(t, Account, "deleted")
        /\ run'[t].landed = run[t].landed /\ run'[t].doubt = run[t].doubt
        /\ run'[t].failed = run[t].failed /\ run'[t].result = run[t].result
    BY <1>1, <1>6 DEF RunType
  <2>2. Place(t)'
    BY <1>2, <1>6, <2>1 DEF Place
  <2>3. True(t)'
    <3>1. "deleted" \in Grades /\ Account \notin annex' \cup unlock' /\ ~alive'
      BY <1>1, <1>a, <1>6
    <3>2. Account \notin Int /\ Account \notin Siblings
      BY <1>2
    <3>3. run'[t].grade = Graded(t, Account, "deleted")
      BY <2>1
    <3> QED
      BY <1>1, <3>1, <3>2, <3>3, TrueMarks
  <2>4. Covered(t)'
    BY <1>1, <1>2, <1>6, <2>1 DEF Place, Covered, Graded
  <2>5. Ended(t)'
    BY <1>2, <1>6, <2>1 DEF Place, Ended
  <2> QED
    BY <2>2, <2>3, <2>4, <2>5 DEF Sound
<1>7. ASSUME run[t].at = "registry",
             run'[t] = [run[t] EXCEPT !.at = "probe", !.read = TRUE, !.reg = registry]
      PROVE  Sound(t)'
  <2>1. /\ run'[t].at = "probe" /\ run'[t].todo = run[t].todo
        /\ run'[t].absent = run[t].absent /\ run'[t].reg = registry
        /\ run'[t].read = TRUE /\ run'[t].gone = run[t].gone
        /\ run'[t].threw = run[t].threw /\ run'[t].again = run[t].again
        /\ run'[t].known = run[t].known /\ run'[t].grade = run[t].grade
        /\ run'[t].landed = run[t].landed /\ run'[t].doubt = run[t].doubt
        /\ run'[t].failed = run[t].failed /\ run'[t].result = run[t].result
    BY <1>1, <1>7 DEF RunType
  <2>2. Place(t)'
    BY <1>2, <1>7, <2>1 DEF Place
  <2>3. True(t)'
    BY <2>1, TrueStays
  <2>4. Covered(t)'
    BY <1>2, <1>7, <2>1 DEF Place, Covered
  <2>5. Ended(t)'
    BY <1>2, <1>7, <2>1 DEF Place, Ended
  <2> QED
    BY <2>2, <2>3, <2>4, <2>5 DEF Sound
<1>8. ASSUME NEW A,
             run[t].at = "probe",
             run'[t] = [run[t] EXCEPT !.at = "annex", !.absent = A]
      PROVE  Sound(t)'
  <2>1. /\ run'[t].at = "annex" /\ run'[t].todo = run[t].todo
        /\ run'[t].absent = A /\ run'[t].reg = run[t].reg
        /\ run'[t].read = run[t].read /\ run'[t].gone = run[t].gone
        /\ run'[t].threw = run[t].threw /\ run'[t].again = run[t].again
        /\ run'[t].known = run[t].known /\ run'[t].grade = run[t].grade
        /\ run'[t].landed = run[t].landed /\ run'[t].doubt = run[t].doubt
        /\ run'[t].failed = run[t].failed /\ run'[t].result = run[t].result
    BY <1>1, <1>8 DEF RunType
  <2>2. Place(t)'
    BY <1>2, <1>8, <2>1 DEF Place
  <2>3. True(t)'
    BY <2>1, TrueStays
  <2>4. Covered(t)'
    BY <1>2, <1>8, <2>1 DEF Place, Covered
  <2>5. Ended(t)'
    BY <1>2, <1>8, <2>1 DEF Place, Ended
  <2> QED
    BY <2>2, <2>3, <2>4, <2>5 DEF Sound
<1>9. ASSUME NEW s \in run[t].todo,
             NEW g \in Grades,
             run[t].at \in {"annex", "unlock"},
             s \in Spaces,
             g # "none",
             g = "deleted" => s \notin annex' \cup unlock',
             run'[t] = [run[t] EXCEPT !.todo = @ \ {s}, !.grade = Graded(t, s, g)]
      PROVE  Sound(t)'
  <2>1. /\ run'[t].at = run[t].at /\ run'[t].todo = run[t].todo \ {s}
        /\ run'[t].absent = run[t].absent /\ run'[t].reg = run[t].reg
        /\ run'[t].read = run[t].read /\ run'[t].gone = run[t].gone
        /\ run'[t].threw = run[t].threw /\ run'[t].again = run[t].again
        /\ run'[t].known = run[t].known /\ run'[t].grade = Graded(t, s, g)
        /\ run'[t].landed = run[t].landed /\ run'[t].doubt = run[t].doubt
        /\ run'[t].failed = run[t].failed /\ run'[t].result = run[t].result
    BY <1>1, <1>9 DEF RunType
  <2>2. Place(t)'
    BY <1>2, <1>9, <2>1 DEF Place
  <2>3. True(t)'
    <3>1. s \in Int => s <= minted'
      BY <1>1, <1>2, <1>9 DEF Place
    <3>2. s \in Siblings => s \in registry'
      BY <1>1, <1>2, <1>9 DEF Place
    <3>3. s # Account
      BY <1>1, <1>2, <1>9 DEF Place
    <3> QED
      BY <1>9, <2>1, <3>1, <3>2, <3>3, TrueMarks
  <2>4. Covered(t)'
    BY <1>1, <1>2, <1>9, <2>1 DEF Place, Covered, Graded
  <2>5. Ended(t)'
    BY <1>2, <1>9, <2>1 DEF Place, Ended
  <2> QED
    BY <2>2, <2>3, <2>4, <2>5 DEF Sound
<1>10. ASSUME run[t].at = "annex",
             run[t].todo = {},
             run'[t] = [run[t] EXCEPT !.at = "unlock", !.todo = run[t].reg]
      PROVE  Sound(t)'
  <2>1. /\ run'[t].at = "unlock" /\ run'[t].todo = run[t].reg
        /\ run'[t].absent = run[t].absent /\ run'[t].reg = run[t].reg
        /\ run'[t].read = run[t].read /\ run'[t].gone = run[t].gone
        /\ run'[t].threw = run[t].threw /\ run'[t].again = run[t].again
        /\ run'[t].known = run[t].known /\ run'[t].grade = run[t].grade
        /\ run'[t].landed = run[t].landed /\ run'[t].doubt = run[t].doubt
        /\ run'[t].failed = run[t].failed /\ run'[t].result = run[t].result
    BY <1>1, <1>10 DEF RunType
  <2>2. Place(t)'
    BY <1>2, <1>10, <2>1 DEF Place
  <2>3. True(t)'
    BY <2>1, TrueStays
  <2>4. Covered(t)'
    BY <1>2, <1>10, <2>1 DEF Place, Covered
  <2>5. Ended(t)'
    BY <1>2, <1>10, <2>1 DEF Place, Ended
  <2> QED
    BY <2>2, <2>3, <2>4, <2>5 DEF Sound
<1>11. ASSUME NEW b \in BOOLEAN,
             run[t].at \in {"pivot", "log"},
             ~alive',
             run'[t] = [run[t] EXCEPT !.at = "acting", !.gone = TRUE, !.landed = b, !.grade = Graded(t, Account, "deleted")]
      PROVE  Sound(t)'
  <2>1. /\ run'[t].at = "acting" /\ run'[t].todo = run[t].todo
        /\ run'[t].absent = run[t].absent /\ run'[t].reg = run[t].reg
        /\ run'[t].read = run[t].read /\ run'[t].gone = TRUE
        /\ run'[t].threw = run[t].threw /\ run'[t].again = run[t].again
        /\ run'[t].known = run[t].known /\ run'[t].grade = Graded(t, Account, "deleted")
        /\ run'[t].landed = b /\ run'[t].doubt = run[t].doubt
        /\ run'[t].failed = run[t].failed /\ run'[t].result = run[t].result
    BY <1>1, <1>11 DEF RunType
  <2>2. Place(t)'
    BY <1>2, <1>11, <2>1 DEF Place
  <2>3. True(t)'
    <3>1. "deleted" \in Grades /\ Account \notin annex' \cup unlock' /\ ~alive'
      BY <1>1, <1>a, <1>11
    <3>2. Account \notin Int /\ Account \notin Siblings
      BY <1>2
    <3>3. run'[t].grade = Graded(t, Account, "deleted")
      BY <2>1
    <3> QED
      BY <1>1, <3>1, <3>2, <3>3, TrueMarks
  <2>4. Covered(t)'
    BY <1>1, <1>2, <1>11, <2>1 DEF Place, Covered, Graded
  <2>5. Ended(t)'
    BY <1>2, <1>11, <2>1 DEF Place, Ended
  <2> QED
    BY <2>2, <2>3, <2>4, <2>5 DEF Sound
<1>12. ASSUME NEW b \in BOOLEAN,
             run[t].at = "pivot",
             b => ~alive',
             run'[t] = [run[t] EXCEPT !.at = "reprobe", !.threw = TRUE, !.landed = b]
      PROVE  Sound(t)'
  <2>1. /\ run'[t].at = "reprobe" /\ run'[t].todo = run[t].todo
        /\ run'[t].absent = run[t].absent /\ run'[t].reg = run[t].reg
        /\ run'[t].read = run[t].read /\ run'[t].gone = run[t].gone
        /\ run'[t].threw = TRUE /\ run'[t].again = run[t].again
        /\ run'[t].known = run[t].known /\ run'[t].grade = run[t].grade
        /\ run'[t].landed = b /\ run'[t].doubt = run[t].doubt
        /\ run'[t].failed = run[t].failed /\ run'[t].result = run[t].result
    BY <1>1, <1>12 DEF RunType
  <2>2. Place(t)'
    BY <1>2, <1>12, <2>1 DEF Place
  <2>3. True(t)'
    BY <2>1, TrueStays
  <2>4. Covered(t)'
    BY <1>2, <1>12, <2>1 DEF Place, Covered
  <2>5. Ended(t)'
    BY <1>2, <1>12, <2>1 DEF Place, Ended
  <2> QED
    BY <2>2, <2>3, <2>4, <2>5 DEF Sound
<1>13. ASSUME NEW d \in BOOLEAN,
             run[t].at \in {"reprobe", "log"},
             run[t].landed => d,
             run'[t] = [run[t] EXCEPT !.at = "done", !.result = "failed", !.doubt = d]
      PROVE  Sound(t)'
  <2>1. /\ run'[t].at = "done" /\ run'[t].todo = run[t].todo
        /\ run'[t].absent = run[t].absent /\ run'[t].reg = run[t].reg
        /\ run'[t].read = run[t].read /\ run'[t].gone = run[t].gone
        /\ run'[t].threw = run[t].threw /\ run'[t].again = run[t].again
        /\ run'[t].known = run[t].known /\ run'[t].grade = run[t].grade
        /\ run'[t].landed = run[t].landed /\ run'[t].doubt = d
        /\ run'[t].failed = run[t].failed /\ run'[t].result = "failed"
    BY <1>1, <1>13 DEF RunType
  <2>2. Place(t)'
    BY <1>2, <1>13, <2>1 DEF Place
  <2>3. True(t)'
    BY <2>1, TrueStays
  <2>4. Covered(t)'
    BY <1>2, <1>13, <2>1 DEF Place, Covered
  <2>5. Ended(t)'
    BY <1>2, <1>13, <2>1 DEF Place, Ended
  <2> QED
    BY <2>2, <2>3, <2>4, <2>5 DEF Sound
<1>14. ASSUME NEW d \in BOOLEAN,
             run[t].at = "log",
             run[t].landed => d,
             run'[t] = [run[t] EXCEPT !.at = "done", !.result = "space-delete-failed", !.doubt = d, !.grade = Graded(t, Account, "unconfirmed")]
      PROVE  Sound(t)'
  <2>1. /\ run'[t].at = "done" /\ run'[t].todo = run[t].todo
        /\ run'[t].absent = run[t].absent /\ run'[t].reg = run[t].reg
        /\ run'[t].read = run[t].read /\ run'[t].gone = run[t].gone
        /\ run'[t].threw = run[t].threw /\ run'[t].again = run[t].again
        /\ run'[t].known = run[t].known /\ run'[t].grade = Graded(t, Account, "unconfirmed")
        /\ run'[t].landed = run[t].landed /\ run'[t].doubt = d
        /\ run'[t].failed = run[t].failed /\ run'[t].result = "space-delete-failed"
    BY <1>1, <1>14 DEF RunType
  <2>2. Place(t)'
    BY <1>2, <1>14, <2>1 DEF Place
  <2>3. True(t)'
    <3>1. "unconfirmed" \in Grades /\ "unconfirmed" # "deleted"
      BY <1>1
    <3>2. run'[t].grade = Graded(t, Account, "unconfirmed")
      BY <2>1
    <3> QED
      BY <1>1, <3>1, <3>2, TrueMarks
  <2>4. Covered(t)'
    BY <1>1, <1>2, <1>14, <2>1 DEF Place, Covered, Graded
  <2>5. Ended(t)'
    BY <1>2, <1>14, <2>1 DEF Place, Ended
  <2> QED
    BY <2>2, <2>3, <2>4, <2>5 DEF Sound
<1>15. ASSUME NEW g \in {"deleted", "unconfirmed", "unreachable"},
             run[t].at = "acting",
             g = "deleted" => Acting \notin unlock',
             run'[t] = [run[t] EXCEPT !.at = "wipe", !.grade = Graded(t, Acting, g)]
      PROVE  Sound(t)'
  <2>1. /\ run'[t].at = "wipe" /\ run'[t].todo = run[t].todo
        /\ run'[t].absent = run[t].absent /\ run'[t].reg = run[t].reg
        /\ run'[t].read = run[t].read /\ run'[t].gone = run[t].gone
        /\ run'[t].threw = run[t].threw /\ run'[t].again = run[t].again
        /\ run'[t].known = run[t].known /\ run'[t].grade = Graded(t, Acting, g)
        /\ run'[t].landed = run[t].landed /\ run'[t].doubt = run[t].doubt
        /\ run'[t].failed = run[t].failed /\ run'[t].result = run[t].result
    BY <1>1, <1>15 DEF RunType
  <2>2. Place(t)'
    BY <1>2, <1>15, <2>1 DEF Place
  <2>3. True(t)'
    <3>1. g \in Grades /\ (g = "deleted" => Acting \notin annex' \cup unlock')
      BY <1>1, <1>a, <1>15
    <3>2. Acting \notin Int /\ Acting \notin Siblings /\ Acting # Account
      BY <1>2
    <3>3. run'[t].grade = Graded(t, Acting, g)
      BY <2>1
    <3> QED
      BY <1>1, <3>1, <3>2, <3>3, TrueMarks
  <2>4. Covered(t)'
    BY <1>1, <1>2, <1>15, <2>1 DEF Place, Covered, Graded
  <2>5. Ended(t)'
    BY <1>2, <1>15, <2>1 DEF Place, Ended
  <2> QED
    BY <2>2, <2>3, <2>4, <2>5 DEF Sound
<1>16. ASSUME run[t].at = "acting",
             run'[t] = [run[t] EXCEPT !.again = TRUE]
      PROVE  Sound(t)'
  <2>1. /\ run'[t].at = run[t].at /\ run'[t].todo = run[t].todo
        /\ run'[t].absent = run[t].absent /\ run'[t].reg = run[t].reg
        /\ run'[t].read = run[t].read /\ run'[t].gone = run[t].gone
        /\ run'[t].threw = run[t].threw /\ run'[t].again = TRUE
        /\ run'[t].known = run[t].known /\ run'[t].grade = run[t].grade
        /\ run'[t].landed = run[t].landed /\ run'[t].doubt = run[t].doubt
        /\ run'[t].failed = run[t].failed /\ run'[t].result = run[t].result
    BY <1>1, <1>16 DEF RunType
  <2>2. Place(t)'
    BY <1>2, <1>16, <2>1 DEF Place
  <2>3. True(t)'
    BY <2>1, TrueStays
  <2>4. Covered(t)'
    BY <1>2, <1>16, <2>1 DEF Place, Covered
  <2>5. Ended(t)'
    BY <1>2, <1>16, <2>1 DEF Place, Ended
  <2> QED
    BY <2>2, <2>3, <2>4, <2>5 DEF Sound
<1>17. ASSUME NEW f,
             NEW w \in Said,
             run[t].at = "wipe",
             w = "deleted" => run[t].read,
             local' = (local \ (run[t].reg \cup {Acting, Replica})) \cup f,
             run'[t] = [run[t] EXCEPT !.at = "done", !.failed = f, !.result = w]
      PROVE  Sound(t)'
  <2>1. /\ run'[t].at = "done" /\ run'[t].todo = run[t].todo
        /\ run'[t].absent = run[t].absent /\ run'[t].reg = run[t].reg
        /\ run'[t].read = run[t].read /\ run'[t].gone = run[t].gone
        /\ run'[t].threw = run[t].threw /\ run'[t].again = run[t].again
        /\ run'[t].known = run[t].known /\ run'[t].grade = run[t].grade
        /\ run'[t].landed = run[t].landed /\ run'[t].doubt = run[t].doubt
        /\ run'[t].failed = f /\ run'[t].result = w
    BY <1>1, <1>17 DEF RunType
  <2>2. Place(t)'
    BY <1>2, <1>17, <2>1 DEF Place
  <2>3. True(t)'
    BY <2>1, TrueStays
  <2>4. Covered(t)'
    BY <1>2, <1>17, <2>1 DEF Place, Covered
  <2>5. Ended(t)'
    BY <1>2, <1>17, <2>1 DEF Place, Ended
  <2> QED
    BY <2>2, <2>3, <2>4, <2>5 DEF Sound
<1>20. \A r : Goes(t, r) => run'[t] = r
  BY <1>1 DEF Goes
<1>21. CASE Confirm(t)
  <2>1. run[t].at = "confirm" /\ ~run[t].landed
    BY <1>2, <1>21 DEF Confirm, Place
  <2> QED
    BY <1>3, <1>4, <1>20, <1>21, <2>1 DEF Confirm, At, Returns
<1>22. CASE Verify(t)
  <2>1. run[t].at = "verify" /\ ~run[t].landed
    BY <1>2, <1>22 DEF Verify, Place
  <2> QED
    BY <1>2, <1>4, <1>5, <1>6, <1>20, <1>22, <2>1 DEF Verify, Returns
<1>23. CASE Renew(t)
  <2>1. run[t].at = "renew" /\ ~run[t].landed
    BY <1>2, <1>23 DEF Renew, Place
  <2> QED
    BY <1>3, <1>4, <1>20, <1>23, <2>1 DEF Renew, At, Returns
<1>24. CASE ReadRegistry(t)
  <2>1. run[t].at = "registry" /\ ~run[t].landed
    BY <1>2, <1>24 DEF ReadRegistry, Place
  <2> QED
    BY <1>4, <1>7, <1>20, <1>24, <2>1 DEF ReadRegistry, Masked, Returns
<1>25. CASE Probe(t)
  <2>1. run[t].at = "probe" /\ ~run[t].landed
    BY <1>2, <1>25 DEF Probe, Place
  <2> QED
    BY <1>4, <1>8, <1>20, <1>25, <2>1 DEF Probe, Returns
<1>26. ASSUME NEW s \in run[t].todo, run[t].at \in {"annex", "unlock"},
              DeleteSpace(t, s)
       PROVE  Sound(t)'
  <2>1. s \in Spaces /\ ~run[t].landed /\ ~run[t].gone /\ run[t].read
    BY <1>1, <1>2, <1>26 DEF Place, RunType
  <2>2. Grade404(run[t], s) \in {"refuse", "unconfirmed"}
    BY <2>1 DEF Grade404
  <2>3. CASE /\ Deleted(s)
             /\ Goes(t, [run[t] EXCEPT !.todo = @ \ {s}, !.grade = Graded(t, s, "deleted")])
    <3>1. s \notin annex' \cup unlock'
      BY <2>3 DEF Deleted
    <3> QED
      BY <1>1, <1>9, <1>20, <1>26, <2>1, <2>3, <3>1
  <2>4. CASE /\ Grade404(run[t], s) # "refuse"
             /\ Goes(t, [run[t] EXCEPT !.todo = @ \ {s},
                                       !.grade = Graded(t, s, Grade404(run[t], s))])
    BY <1>1, <1>9, <1>20, <1>26, <2>1, <2>2, <2>4
  <2>5. CASE Returns(t, "space-delete-failed")
    BY <1>4, <1>20, <1>26, <2>1, <2>5 DEF Returns
  <2> QED
    BY <1>26, <2>3, <2>4, <2>5 DEF DeleteSpace
<1>27. CASE DeleteAnnex(t)
  BY <1>10, <1>20, <1>26, <1>27 DEF DeleteAnnex
<1>28. CASE DeleteSibling(t)
  <2>1. ASSUME NEW s \in run[t].todo,
               Goes(t, [run[t] EXCEPT !.todo = @ \ {s},
                                      !.grade = Graded(t, s, "unreachable")])
        PROVE  Sound(t)'
    <3>1. s \in Spaces /\ run[t].at = "unlock"
      BY <1>1, <1>28 DEF DeleteSibling, RunType
    <3> QED
      BY <1>1, <1>9, <1>20, <2>1, <3>1
  <2> QED
    BY <1>3, <1>20, <1>26, <1>28, <2>1 DEF DeleteSibling, At
<1>29. CASE Pivot(t)
  <2>1. Deleted(Account) => ~alive'
    BY DEF Deleted
  <2> QED
    BY <1>3, <1>11, <1>12, <1>20, <1>29, <2>1 DEF Pivot, Gone, PivotThrew, At
<1>30. CASE Reprobe(t)
  <2>1. run[t].at = "reprobe" /\ (Holds(t) => ~run[t].landed)
    BY <1>2, <1>30 DEF Reprobe, Place, Holds
  <2> QED
    BY <1>3, <1>4, <1>13, <1>20, <1>30, <2>1 DEF Reprobe, Doubted, At, Returns
<1>31. CASE ReadLog(t)
  <2>1. run[t].at = "log" /\ run[t].landed \in BOOLEAN /\ (alive => ~run[t].landed)
    BY <1>1, <1>2, <1>31 DEF ReadLog, Place, RunType
  <2>2. CASE ~alive /\ Gone(t, run[t].landed)
    BY <1>2, <1>11, <1>20, <2>1, <2>2 DEF Gone
  <2>3. ASSUME NEW d \in BOOLEAN, Stands(t, d), run[t].landed => d PROVE Sound(t)'
    BY <1>13, <1>14, <1>20, <2>1, <2>3 DEF Stands
  <2> QED
    BY <1>31, <2>1, <2>2, <2>3 DEF ReadLog
<1>32. CASE DeleteActing(t)
  <2>1. run[t].at = "acting"
    BY <1>32 DEF DeleteActing
  <2>2. CASE /\ Deleted(Acting)
             /\ Goes(t, [run[t] EXCEPT !.at = "wipe", !.grade = Graded(t, Acting, "deleted")])
    BY <1>15, <1>20, <2>1, <2>2 DEF Deleted
  <2>3. CASE /\ ~Finds(t, Acting) /\ UNCHANGED spaces
             /\ Goes(t, [run[t] EXCEPT !.at = "wipe",
                  !.grade = Graded(t, Acting, IF Grade404(run[t], Acting) = "deleted"
                                              THEN "deleted" ELSE "unconfirmed")])
    <3>1. Acting \notin unlock'
      BY <2>3 DEF Finds, spaces
    <3> QED
      BY <1>15, <1>20, <2>1, <2>3, <3>1
  <2>4. CASE Goes(t, [run[t] EXCEPT !.again = TRUE])
    BY <1>16, <1>20, <2>1, <2>4
  <2>5. CASE Goes(t, [run[t] EXCEPT !.at = "wipe", !.grade = Graded(t, Acting, "unreachable")])
    BY <1>15, <1>20, <2>1, <2>5
  <2> QED
    BY <1>32, <2>2, <2>3, <2>4, <2>5 DEF DeleteActing
<1>33. CASE Wipe(t)
  <2>1. PICK f \in SUBSET local :
          /\ local' = (local \ (run[t].reg \cup {Acting, Replica})) \cup f
          /\ Goes(t, [run[t] EXCEPT !.at = "done", !.failed = f,
                                    !.result = WipeResult(run[t], f)])
    BY <1>33 DEF Wipe
  <2>2. /\ WipeResult(run[t], f) \in Said
        /\ WipeResult(run[t], f) = "deleted" => run[t].read
    BY DEF WipeResult
  <2> QED
    BY <1>17, <1>20, <1>33, <2>1, <2>2 DEF Wipe
<1> QED
  BY <1>21, <1>22, <1>23, <1>24, <1>25, <1>27, <1>28, <1>29, <1>30, <1>31, <1>32,
     <1>33 DEF Walk

LEMMA InvInductive == DeletionAssumption /\ Inv /\ [Next]_vars => Inv'
<1> SUFFICES ASSUME DeletionAssumption, Inv, [Next]_vars PROVE Inv'
  OBVIOUS
<1>1. ASSUME NEW t \in Tabs, Walk(t) PROVE Inv'
  <2>1. Standing' /\ Later
    BY <1>1, WalkStands
  <2>2. PICK r \in RunType : run' = [run EXCEPT ![t] = r]
    BY <1>1, WalkGoes
  <2>3. Sound(t)'
    BY <1>1, <2>1, WalkSound
  <2> QED
    BY <2>1, <2>2, <2>3, OneTab
<1> QED
  BY <1>1, EnterStep, CloseStep, StartStep, OtherStep DEF Next

\* The deletion's inductive invariant: what stands, and what each walk has behind
\* it at its place.
THEOREM DeletionSafety == Spec => []Inv
  BY DeletionAssumption, InitInv, InvInductive, PTL DEF Spec

\* No walk, however many tabs run one, takes the acting credential's record from
\* an account that lives.
THEOREM EnterableSafety == Spec => []Enterable
<1>1. Inv => Enterable
  <2> SUFFICES ASSUME Inv PROVE Enterable
    OBVIOUS
  <2>1. alive => Acting \in unlock
    BY DEF Inv, Standing
  <2>2. TypeOK
    BY DEF Inv, Standing, TypeOK, Sound, Place, RunType, Places, Results, Reading
  <2> QED
    BY <2>1, <2>2 DEF Enterable
<1> QED
  BY <1>1, DeletionSafety, PTL

\* What a run of the walk tells its user holds, however many runs there are and
\* however the account lives on beside them.
THEOREM ReportsSafety == Spec => []RunsReportTrue
<1>1. Inv => RunsReportTrue
  <2> SUFFICES ASSUME Inv PROVE RunsReportTrue
    OBVIOUS
  <2>1. ReportsAreTrue
    BY DEF Inv, Sound, True, ReportsAreTrue
  <2>2. PivotIsReported
    BY DEF Inv, Sound, Ended, PivotIsReported
  <2>3. NoStrandedSibling
    BY DEF Inv, Sound, Place, Covered, Said, NoStrandedSibling
  <2>4. DeletedIsWiped
    BY DEF Inv, Sound, Place, Ended, DeletedIsWiped
  <2> QED
    BY <2>1, <2>2, <2>3, <2>4 DEF RunsReportTrue
<1> QED
  BY <1>1, DeletionSafety, PTL
====
