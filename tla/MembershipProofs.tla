---- MODULE MembershipProofs ----
(***************************************************************************)
(* What becoming, staying and stopping to be a client guarantees for every *)
(* number of browsers and clients, with one tab open in each browser.      *)
(***************************************************************************)
EXTENDS ClientMembership, TLAPS

OneTabEach == \A t, u \in Tabs : BrowserOf[t] = BrowserOf[u] => t = u

Ats ==
  {"out", "ready"} \cup Enrollment \cup LoginPasses \cup Forgetting \cup Disconnecting
Sessions ==
  [at : Ats, client : OrNone, target : OrNone, resumed : BOOLEAN, last : BOOLEAN]
Registrations == {"none", "due", "listed"}

\* The account's side, and the types.
Shape ==
  /\ doc \subseteq published /\ published \subseteq Clients
  /\ wraps \subseteq Clients /\ readers \subseteq Clients
  /\ entry \in [Clients -> {"none", "live", "retired"}]
  /\ \A c \in Clients : entry[c] # "none" => c \in published
  /\ disowned \subseteq Clients
  /\ failures \in 0..MaxFailures

\* A tab at session s, registration g and loaded copy k, in a browser whose
\* record is r, before the listed clients D and the once listed ones P.
Sound(s, g, k, r, D, P) ==
  /\ r.shape = "none" <=> r.client = NoClient
  /\ k.shape = "none" <=> k.client = NoClient
  /\ s.at = "out" => s.client = NoClient
  /\ s.client = NoClient => g = "none"
  /\ s.client = NoClient /\ s.at # "out" =>
       s.at \in {"ready"} \cup Disconnecting /\ r = NoRecord /\ k = NoRecord
  /\ s.client # NoClient => {r.client, k.client} \subseteq {s.client, NoClient}
  /\ k # NoRecord => r.client \in {k.client, NoClient}
  /\ s.at \in Enrollment \cup LoginPasses => k = NoRecord
  /\ s.at \in Enrollment => g = "none"
  /\ s.at = "commit" =>
       /\ s.client \notin P
       /\ IF s.resumed THEN r.client = s.client ELSE r = NoRecord
  /\ s.at = "publish" => s.client \notin P /\ r.client = s.client
  /\ s.at = "wipe" => s.client \notin D
  /\ s.at \in Forgetting \ {"await"} => g = "none"

Keys(s, k, r) == {s.client, k.client, r.client} \ {NoClient}
Held(t) == Keys(session[t], copy[t], Mine(t))

\* No key set is two tabs'; every listed client is a standing record's or a
\* disowned browser's; and a browser no tab is in has no record.
Distinct == \A t, u \in Tabs : t # u => Held(t) \cap Held(u) = {}
Backed == \A c \in doc \ disowned : \E t \in Tabs : Mine(t).client = c
Bare == \A b \in Browsers : record[b] # NoRecord => \E t \in Tabs : BrowserOf[t] = b

Inv ==
  /\ Shape
  /\ record \in [Browsers -> Records] /\ session \in [Tabs -> Sessions]
  /\ registering \in [Tabs -> Registrations] /\ copy \in [Tabs -> Records]
  /\ \A t \in Tabs :
       Sound(session[t], registering[t], copy[t], Mine(t), doc, published)
  /\ Distinct /\ Backed /\ Bare

\* Another tab's step does not disturb a tab whose key set it does not touch.
LEMMA Undisturbed ==
  ASSUME NEW s \in Sessions, NEW g, NEW k, NEW r, NEW D, NEW P, NEW D2, NEW P2,
         Sound(s, g, k, r, D, P),
         s.client # NoClient => (s.client \in P2 => s.client \in P)
                             /\ (s.client \in D2 => s.client \in D)
  PROVE  Sound(s, g, k, r, D2, P2)
<1>1. s.at \in {"commit", "publish", "wipe"} => s.client # NoClient
  BY DEF Sound, Disconnecting
<1> QED
  BY <1>1 DEF Sound

\* A step of one tab: it leaves its own tab sound, takes no key set but a fresh
\* one, and drops no record of a client that stays listed.
LEMMA Moves ==
  ASSUME MembershipAssumption, OneTabEach, Inv, NEW t \in Tabs,
         NEW s \in Sessions, NEW g \in Registrations, NEW k \in Records,
         NEW r \in Records,
         session' = [session EXCEPT ![t] = s],
         registering' = [registering EXCEPT ![t] = g],
         copy' = [copy EXCEPT ![t] = k],
         record' = [record EXCEPT ![BrowserOf[t]] = r],
         published' \subseteq published \cup {Own(t)}, doc' \subseteq doc \cup {Own(t)},
         Shape',
         Sound(s, g, k, r, doc', published'),
         \A c \in Keys(s, k, r) : c \in Held(t) \/ Fresh(c),
         disowned \subseteq disowned',
         \A c \in doc' \ disowned' : c = Mine(t).client \/ c \notin doc => c = r.client
  PROVE  Inv'
<1>1. /\ record \in [Browsers -> Records] /\ session \in [Tabs -> Sessions]
      /\ registering \in [Tabs -> Registrations] /\ copy \in [Tabs -> Records]
      /\ BrowserOf \in [Tabs -> Browsers] /\ Distinct /\ Backed /\ Bare
  BY DEF Inv, MembershipAssumption
<1>2. /\ record' \in [Browsers -> Records] /\ session' \in [Tabs -> Sessions]
      /\ registering' \in [Tabs -> Registrations] /\ copy' \in [Tabs -> Records]
      /\ session'[t] = s /\ registering'[t] = g /\ copy'[t] = k /\ Mine(t)' = r
  BY <1>1 DEF Mine
<1>3. ASSUME NEW u \in Tabs, u # t
      PROVE  /\ session'[u] = session[u] /\ registering'[u] = registering[u]
             /\ copy'[u] = copy[u] /\ Mine(u)' = Mine(u) /\ Held(u)' = Held(u)
  <2>1. BrowserOf[u] # BrowserOf[t] /\ BrowserOf[u] \in Browsers
    BY <1>1, <1>3 DEF OneTabEach
  <2>2. /\ session'[u] = session[u] /\ registering'[u] = registering[u]
        /\ copy'[u] = copy[u] /\ Mine(u)' = Mine(u)
    BY <1>1, <1>3, <2>1 DEF Mine
  <2> QED
    BY <2>2 DEF Held
<1>4. Held(t)' = Keys(s, k, r)
  BY <1>2 DEF Held
<1>5. \A u \in Tabs :
        Sound(session'[u], registering'[u], copy'[u], Mine(u)', doc', published')
  <2> SUFFICES ASSUME NEW u \in Tabs, u # t
               PROVE  Sound(session[u], registering[u], copy[u], Mine(u), doc', published')
    BY <1>2, <1>3
  <2>1. session[u].client # NoClient => session[u].client # Own(t)
    BY <1>1 DEF Distinct, Held, Keys, Own
  <2>2. Sound(session[u], registering[u], copy[u], Mine(u), doc, published)
    BY DEF Inv
  <2>3. session[u] \in Sessions
    BY <1>1
  <2> QED
    BY <2>1, <2>2, <2>3, Undisturbed
<1>6. Distinct'
  <2>1. ASSUME NEW u \in Tabs, u # t PROVE Held(t)' \cap Held(u)' = {}
    <3>1. ASSUME NEW c \in Keys(s, k, r), c \in Held(u) PROVE FALSE
      <4>1. c \notin Held(t)
        BY <1>1, <2>1, <3>1 DEF Distinct
      <4>2. Fresh(c)
        BY <3>1, <4>1
      <4> QED
        BY <1>1, <3>1, <4>2 DEF Fresh, Held, Keys, Mine
    <3> QED
      BY <1>3, <1>4, <2>1, <3>1
  <2>2. ASSUME NEW u \in Tabs, NEW w \in Tabs, u # w PROVE Held(u)' \cap Held(w)' = {}
    <3>1. CASE u # t /\ w # t
      BY <1>1, <1>3, <2>2, <3>1 DEF Distinct
    <3>2. CASE u = t
      BY <2>1, <2>2, <3>2
    <3>3. CASE w = t
      BY <2>1, <2>2, <3>3
    <3> QED
      BY <3>1, <3>2, <3>3
  <2> QED
    BY <2>2 DEF Distinct
<1>7. Backed'
  <2> SUFFICES ASSUME NEW c \in doc' \ disowned' PROVE \E u \in Tabs : Mine(u)' .client = c
    BY DEF Backed
  <2>1. CASE c = Mine(t).client \/ c \notin doc
    BY <1>2, <2>1
  <2>2. CASE c # Mine(t).client /\ c \in doc
    <3>1. PICK u \in Tabs : Mine(u).client = c
      BY <1>1, <2>2 DEF Backed
    <3> QED
      BY <1>3, <2>2, <3>1
  <2> QED
    BY <2>1, <2>2
<1>8. Bare'
  <2> SUFFICES ASSUME NEW b \in Browsers, record'[b] # NoRecord
               PROVE  \E u \in Tabs : BrowserOf[u] = b
    BY DEF Bare
  <2>1. CASE b # BrowserOf[t]
    BY <1>1, <2>1 DEF Bare
  <2> QED
    BY <2>1
<1> QED
  BY <1>2, <1>5, <1>6, <1>7, <1>8 DEF Inv, Mine

LEMMA ShapeKept ==
  ASSUME MembershipAssumption, Inv, doc' \subseteq doc, UNCHANGED published,
         wraps' \subseteq Clients, readers' \subseteq Clients,
         entry' \in [Clients -> {"none", "live", "retired"}],
         \A c \in Clients : entry'[c] # "none" => c \in published,
         disowned' \subseteq Clients,
         failures' = failures \/ (failures < MaxFailures /\ failures' = failures + 1)
  PROVE  Shape'
<1>1. failures \in 0..MaxFailures /\ MaxFailures \in Nat
  BY DEF Inv, Shape, MembershipAssumption
<1>2. failures' \in 0..MaxFailures
  BY <1>1
<1> QED
  BY <1>2 DEF Inv, Shape

\* What the invariant says of one tab.
LEMMA Here ==
  ASSUME MembershipAssumption, Inv, NEW t \in Tabs
  PROVE  /\ session[t] \in Sessions /\ registering[t] \in Registrations
         /\ copy[t] \in Records /\ Mine(t) \in Records
         /\ session = [session EXCEPT ![t] = session[t]]
         /\ registering = [registering EXCEPT ![t] = registering[t]]
         /\ copy = [copy EXCEPT ![t] = copy[t]]
         /\ record = [record EXCEPT ![BrowserOf[t]] = Mine(t)]
         /\ Sound(session[t], registering[t], copy[t], Mine(t), doc, published)
         /\ Mine(t).client = NoClient => Mine(t) = NoRecord
         /\ copy[t].client = NoClient => copy[t] = NoRecord
<1>1. /\ record \in [Browsers -> Records] /\ session \in [Tabs -> Sessions]
      /\ registering \in [Tabs -> Registrations] /\ copy \in [Tabs -> Records]
      /\ BrowserOf[t] \in Browsers
  BY DEF Inv, MembershipAssumption
<1>2. Sound(session[t], registering[t], copy[t], Mine(t), doc, published)
  BY DEF Inv
<1>3. \A r \in Records : r.shape = "none" /\ r.client = NoClient => r = NoRecord
  BY DEF Records, NoRecord
<1>4. Mine(t) \in Records /\ copy[t] \in Records
  BY <1>1 DEF Mine
<1> QED
  BY <1>1, <1>2, <1>3, <1>4 DEF Mine, Sound

\* A session that goes on, with what the browser holds left alone.
LEMMA Onward ==
  ASSUME MembershipAssumption, OneTabEach, Inv, NEW t \in Tabs, NEW z \in Sessions,
         session' = [session EXCEPT ![t] = z], z.client = Own(t),
         session[t].at # "out", z.at \notin {"out", "commit", "publish"},
         z.at = "wipe" => Own(t) \notin doc',
         z.at \in Enrollment \cup LoginPasses => copy[t] = NoRecord,
         z.at \in Enrollment \cup (Forgetting \ {"await"}) => registering[t] = "none",
         Own(t) = NoClient => z.at \in {"ready"} \cup Disconnecting,
         doc' \subseteq doc, Shape'
  PROVE  UNCHANGED <<record, registering, copy, published, disowned>> => Inv'
<1>1. \A P : Sound(z, registering[t], copy[t], Mine(t), doc', P)
  BY Here DEF Sound, Own
<1>2. \A c \in Keys(z, copy[t], Mine(t)) : c \in Held(t) \/ Fresh(c)
  BY DEF Keys, Held, Own
<1>3. \A c \in doc' \ disowned' : c = Mine(t).client \/ c \notin doc => c = Mine(t).client
  OBVIOUS
<1>4. registering[t] \in Registrations /\ copy[t] \in Records /\ Mine(t) \in Records
  BY Here
<1>5. UNCHANGED <<record, registering, copy, published, disowned>> =>
        /\ registering' = [registering EXCEPT ![t] = registering[t]]
        /\ copy' = [copy EXCEPT ![t] = copy[t]]
        /\ record' = [record EXCEPT ![BrowserOf[t]] = Mine(t)]
        /\ published' \subseteq published \cup {Own(t)}
        /\ disowned \subseteq disowned'
  BY Here
<1>6. doc' \subseteq doc \cup {Own(t)}
  OBVIOUS
<1> QED
  BY <1>1, <1>2, <1>3, <1>4, <1>5, <1>6, Moves

\* A tab that ends, or ends up, out of a session; a record it drops is of no
\* client that stays listed.
LEMMA Leaves ==
  ASSUME MembershipAssumption, OneTabEach, Inv, NEW t \in Tabs, NEW z \in Sessions,
         NEW k \in {copy[t], NoRecord}, NEW r \in {Mine(t), NoRecord},
         session' = [session EXCEPT ![t] = z], z.at = "out", z.client = NoClient,
         registering' = [registering EXCEPT ![t] = "none"],
         copy' = [copy EXCEPT ![t] = k],
         record' = [record EXCEPT ![BrowserOf[t]] = r],
         UNCHANGED <<doc, published>>, disowned \subseteq disowned',
         r = NoRecord => Mine(t).client \notin doc \ disowned',
         Shape'
  PROVE  Inv'
<1>1. NoRecord \in Records /\ NoRecord.shape = "none" /\ NoRecord.client = NoClient
  BY DEF NoRecord, Records, OrNone
<1>2. k \in Records /\ r \in Records /\ "none" \in Registrations
  BY <1>1, Here DEF Registrations
<1>3. Sound(z, "none", k, r, doc', published')
  <2>1. k # NoRecord => r.client \in {k.client, NoClient}
    BY <1>1, Here DEF Sound
  <2> QED
    BY <1>1, <2>1, Here DEF Sound, Enrollment, LoginPasses, Forgetting
<1>4. \A c \in Keys(z, k, r) : c \in Held(t) \/ Fresh(c)
  BY <1>1 DEF Keys, Held
<1>5. \A c \in doc' \ disowned' : c = Mine(t).client \/ c \notin doc => c = r.client
  OBVIOUS
<1>6. published' \subseteq published \cup {Own(t)} /\ doc' \subseteq doc \cup {Own(t)}
  OBVIOUS
<1> QED
  BY <1>2, <1>3, <1>4, <1>5, <1>6, Moves

\* A login, which enters with no client, with the record's or with a fresh one.
LEMMA Opens ==
  ASSUME MembershipAssumption, OneTabEach, Inv, NEW t \in Tabs, NEW a \in Ats,
         NEW c \in OrNone, NEW b \in BOOLEAN, NEW g \in Registrations,
         MayLogIn(t), Enters(t, a, c, b),
         registering' = [registering EXCEPT ![t] = g],
         a \in {"ready", "commit", "escrow", "sweep"},
         c = NoClient => a = "ready" /\ Mine(t) = NoRecord /\ g = "none",
         c # NoClient => Mine(t).client \in {c, NoClient}
                         /\ (c = Mine(t).client \/ Fresh(c)),
         a \in Enrollment => g = "none",
         a = "commit" => c \notin published
                         /\ IF b THEN Mine(t).client = c ELSE Mine(t) = NoRecord,
         UNCHANGED <<account, record, copy, disowned>>,
         failures' = failures \/ (failures < MaxFailures /\ failures' = failures + 1)
  PROVE  Inv'
<1> USE DEF account
<1> DEFINE z == [Out EXCEPT !.at = a, !.client = c, !.resumed = b]
<1>1. /\ z \in Sessions /\ z.at = a /\ z.client = c /\ z.resumed = b
  BY DEF Out, Sessions, OrNone, Ats
<1>2. session' = [session EXCEPT ![t] = z] /\ copy[t] = NoRecord
  BY DEF Enters, MayLogIn
<1>3. NoRecord.shape = "none" /\ NoRecord.client = NoClient
  BY DEF NoRecord
<1>4. Sound(z, g, copy[t], Mine(t), doc', published')
  <2>1. a = "commit" =>
          /\ c \notin published'
          /\ IF b THEN Mine(t).client = c ELSE Mine(t) = NoRecord
    OBVIOUS
  <2>2. a \notin Forgetting /\ a \notin {"out", "publish", "wipe"}
    BY DEF Forgetting
  <2>3. Mine(t).shape = "none" <=> Mine(t).client = NoClient
    BY Here DEF Sound
  <2> HIDE DEF z
  <2> QED
    BY <1>1, <1>2, <1>3, <2>1, <2>2, <2>3 DEF Sound
<1>5. \A d \in Keys(z, copy[t], Mine(t)) : d \in Held(t) \/ Fresh(d)
  BY <1>1, <1>2, <1>3 DEF Keys, Held
<1>6. Shape'
  BY ShapeKept DEF Inv, Shape
<1>7. /\ published' \subseteq published \cup {Own(t)} /\ doc' \subseteq doc \cup {Own(t)}
      /\ disowned \subseteq disowned'
      /\ \A d \in doc' \ disowned' : d = Mine(t).client \/ d \notin doc => d = Mine(t).client
  OBVIOUS
<1>8. /\ copy' = [copy EXCEPT ![t] = copy[t]]
      /\ record' = [record EXCEPT ![BrowserOf[t]] = Mine(t)]
      /\ copy[t] \in Records /\ Mine(t) \in Records
  BY Here
<1>9. z \in Sessions /\ session' = [session EXCEPT ![t] = z]
  BY <1>1, <1>2
<1> HIDE DEF z
<1> QED
  BY <1>4, <1>5, <1>6, <1>7, <1>8, <1>9, Moves

\* A step's failure is the bound's.
LEMMA Counted ==
  ASSUME Spend \/ UNCHANGED failures
  PROVE  failures' = failures \/ (failures < MaxFailures /\ failures' = failures + 1)
  BY DEF Spend

\* A tab's session at another place, the rest of it as it was or at rest.
LEMMA Fields ==
  ASSUME NEW s \in Sessions, NEW a \in Ats
  PROVE  LET z == [s EXCEPT !.at = a] IN z \in Sessions /\ z.at = a /\ z.client = s.client
  BY DEF Sessions

LEMMA LogInKeeps ==
  ASSUME MembershipAssumption, OneTabEach, Inv, NEW t \in Tabs, LogIn(t)
  PROVE  Inv'
<1> USE DEF account
<1>1. /\ Sound(session[t], registering[t], copy[t], Mine(t), doc, published)
      /\ Mine(t) \in Records /\ doc \subseteq published
      /\ session[t] \in Sessions /\ copy[t] \in Records
      /\ registering = [registering EXCEPT ![t] = registering[t]]
      /\ registering[t] \in Registrations
      /\ session = [session EXCEPT ![t] = session[t]]
      /\ copy = [copy EXCEPT ![t] = copy[t]]
      /\ Mine(t).client = NoClient => Mine(t) = NoRecord
  BY Here DEF Inv, Shape
<1>2. Mine(t).client \in OrNone /\ NoClient \in OrNone /\ NoRecord.client = NoClient
      /\ NoRecord.shape = "none"
  BY <1>1 DEF Records, OrNone, NoRecord
<1>3. {"ready", "commit", "escrow", "sweep"} \subseteq Ats /\ {"none", "due"} \subseteq Registrations
  BY DEF Ats, Enrollment, LoginPasses, Registrations
<1>4. Mine(t).shape # "none" => Mine(t).client # NoClient
  BY <1>1 DEF Sound
<1>5. CASE LogInTransient(t)
  <2>1. registering' = [registering EXCEPT ![t] = "none"]
    BY <1>1, <1>5 DEF LogInTransient, MayLogIn
  <2> QED
    BY <1>2, <1>3, <1>5, <2>1, Opens DEF LogInTransient, Enrollment
<1>6. ASSUME NEW c \in Clients, LogInEnrolling(t, c) PROVE Inv'
  <2>1. registering' = [registering EXCEPT ![t] = "none"]
    BY <1>1, <1>6 DEF LogInEnrolling, MayLogIn
  <2>2. c \in OrNone /\ c # NoClient /\ c \notin published
    BY <1>6 DEF OrNone, MembershipAssumption, LogInEnrolling, Fresh
  <2> QED
    BY <1>2, <1>3, <1>6, <2>1, <2>2, Opens DEF LogInEnrolling
<1>7. CASE LogInEnrolled(t) \/ LogInUnverified(t)
  <2>1. MayLogIn(t) /\ Mine(t).shape = "enrolled"
    BY <1>7 DEF LogInEnrolled, LogInUnverified
  <2>2. /\ Enters(t, "sweep", Mine(t).client, FALSE)
        /\ UNCHANGED <<account, record, copy, disowned>> /\ (Spend \/ UNCHANGED failures)
    BY <1>7 DEF LogInEnrolled, LogInUnverified
  <2>3. \/ registering' = [registering EXCEPT ![t] = "due"]
        \/ registering' = [registering EXCEPT ![t] = "none"]
    BY <1>1, <1>7 DEF LogInEnrolled, LogInUnverified, MayLogIn
  <2> QED
    BY <1>2, <1>3, <1>4, <2>1, <2>2, <2>3, Counted, Opens DEF Enrollment
<1>8. CASE ResumeCompletes(t)
  <2>1. registering' = [registering EXCEPT ![t] = "none"]
    BY <1>1, <1>8 DEF ResumeCompletes, MayLogIn
  <2> QED
    BY <1>2, <1>3, <1>4, <1>8, <2>1, Opens DEF ResumeCompletes
<1>9. CASE ResumeReruns(t)
  <2>1. registering' = [registering EXCEPT ![t] = "none"]
    BY <1>1, <1>9 DEF ResumeReruns, MayLogIn
  <2> QED
    BY <1>2, <1>3, <1>4, <1>9, <2>1, Opens DEF ResumeReruns, EverListed
<1>10. CASE DetectForgotten(t) \/ ResumeWipes(t)
  <2>1. /\ MayLogIn(t) /\ Mine(t).client \notin doc /\ Wipes(t)
        /\ UNCHANGED <<account, session, registering, copy, disowned>>
    BY <1>10 DEF DetectForgotten, ResumeWipes, Forgotten
  <2>2. session[t].at = "out" /\ session[t].client = NoClient /\ registering[t] = "none"
    BY <1>1, <2>1 DEF MayLogIn, At, Sound
  <2>3. /\ session' = [session EXCEPT ![t] = session[t]]
        /\ registering' = [registering EXCEPT ![t] = "none"]
        /\ copy' = [copy EXCEPT ![t] = copy[t]]
    BY <1>1, <2>1, <2>2
  <2>4. /\ \/ record' = [record EXCEPT ![BrowserOf[t]] = NoRecord]
           \/ record' = [record EXCEPT ![BrowserOf[t]] = Mine(t)]
        /\ Spend \/ UNCHANGED failures
    BY <2>1, Here DEF Wipes, Keeps
  <2>5. Shape'
    BY <2>1, <2>4, Counted, ShapeKept DEF Inv, Shape
  <2>6. /\ UNCHANGED <<doc, published>> /\ disowned \subseteq disowned'
        /\ Mine(t).client \notin doc \ disowned'
    BY <2>1
  <2> QED
    BY <1>1, <2>2, <2>3, <2>4, <2>5, <2>6, Leaves
<1> QED
  BY <1>5, <1>6, <1>7, <1>8, <1>9, <1>10 DEF LogIn

\* The steps that move a session on and touch only the account.
LEMMA PassesKeep ==
  ASSUME MembershipAssumption, OneTabEach, Inv, NEW t \in Tabs,
         \/ Escrow(t) \/ Sweep(t) \/ Cascade(t) \/ StartForget(t)
         \/ AwaitRegistration(t) \/ RetireOwn(t) \/ RotateOff(t) \/ FanOut(t) \/ Remove(t)
         \/ (\E c \in Clients : StartDisconnect(t, c))
         \/ Strike(t) \/ Rekey(t) \/ Spread(t) \/ RetireRevoked(t)
         \/ Fails(t) \/ PassFails(t)
  PROVE  Inv'
<1> USE DEF account
<1>1. /\ session[t] \in Sessions /\ session \in [Tabs -> Sessions]
      /\ Sound(session[t], registering[t], copy[t], Mine(t), doc, published)
      /\ session[t].client = Own(t) /\ Own(t) \in OrNone /\ NoClient \in OrNone
  BY Here DEF Inv, Own, Sessions, OrNone
<1>2. /\ doc \subseteq published /\ published \subseteq Clients /\ wraps \subseteq Clients
      /\ readers \subseteq Clients /\ entry \in [Clients -> {"none", "live", "retired"}]
      /\ \A c \in Clients : entry[c] # "none" => c \in published
      /\ disowned \subseteq Clients /\ MaxFailures \in Nat
      /\ session[t].at \in Enrollment => Own(t) \in Clients
  BY <1>1 DEF Inv, Shape, MembershipAssumption, Sound, OrNone, Enrollment, Disconnecting
<1>3. ASSUME NEW c, Retires(c)
      PROVE  /\ entry' \in [Clients -> {"none", "live", "retired"}]
             /\ \A d \in Clients : entry'[d] # "none" => d \in published
  BY <1>2, <1>3 DEF Retires
<1>4. ASSUME NEW a \in Ats,
             session' = [session EXCEPT ![t].at = a],
             session[t].at # "out", a \notin {"out", "commit", "publish"},
             a = "wipe" => Own(t) \notin doc',
             a \in Enrollment \cup LoginPasses => copy[t] = NoRecord,
             a \in Enrollment \cup (Forgetting \ {"await"}) => registering[t] = "none",
             Own(t) = NoClient => a \in {"ready"} \cup Disconnecting,
             doc' \subseteq doc, Shape',
             UNCHANGED <<record, registering, copy, published, disowned>>
      PROVE  Inv'
  <2> DEFINE z == [session[t] EXCEPT !.at = a]
  <2>1. z \in Sessions /\ z.at = a /\ z.client = Own(t)
    BY <1>1, Fields
  <2>2. session' = [session EXCEPT ![t] = z]
    BY <1>4
  <2> HIDE DEF z
  <2> QED
    BY <1>4, <2>1, <2>2, Onward
<1>5. ASSUME NEW a \in {"ready", "await", "strike"}, NEW c \in OrNone, NEW b \in BOOLEAN,
             \/ session' = [session EXCEPT ![t].at = a, ![t].target = c, ![t].last = b]
             \/ session' = [session EXCEPT ![t].at = a, ![t].target = c]
             \/ session' = [session EXCEPT ![t].at = a, ![t].last = b],
             session[t].at # "out", Own(t) = NoClient => a # "await",
             UNCHANGED <<doc, record, registering, copy, published, disowned>>, Shape'
      PROVE  Inv'
  <2>1. PICK z \in Sessions :
          session' = [session EXCEPT ![t] = z] /\ z.at = a /\ z.client = Own(t)
    <3>1. a \in Ats
      BY DEF Ats, Forgetting, Disconnecting
    <3> DEFINE x == [session[t] EXCEPT !.at = a, !.target = c, !.last = b]
               y == [session[t] EXCEPT !.at = a, !.target = c]
               w == [session[t] EXCEPT !.at = a, !.last = b]
    <3>2. /\ x \in Sessions /\ x.at = a /\ x.client = Own(t)
          /\ y \in Sessions /\ y.at = a /\ y.client = Own(t)
          /\ w \in Sessions /\ w.at = a /\ w.client = Own(t)
      BY <1>1, <3>1 DEF Sessions
    <3>3. \/ session' = [session EXCEPT ![t] = x] \/ session' = [session EXCEPT ![t] = y]
          \/ session' = [session EXCEPT ![t] = w]
      BY <1>5
    <3> HIDE DEF x, y, w
    <3> QED
      BY <3>2, <3>3
  <2>2. /\ a \notin Enrollment \cup LoginPasses \cup (Forgetting \ {"await"})
        /\ a \notin {"out", "commit", "publish", "wipe"}
        /\ Own(t) = NoClient => a \in {"ready"} \cup Disconnecting
    BY <1>5 DEF Enrollment, LoginPasses, Forgetting, Disconnecting
  <2>3. doc' \subseteq doc
    BY <1>5
  <2> QED
    BY <1>5, <2>1, <2>2, <2>3, Onward
<1>6. "out" \notin Enrollment \cup LoginPasses \cup Forgetting \cup Disconnecting
  BY DEF Enrollment, LoginPasses, Forgetting, Disconnecting
<1>7. ASSUME Rests(t), session[t].at # "out",
             UNCHANGED <<doc, record, registering, copy, published, disowned>>, Shape'
      PROVE  Inv'
  <2>1. session' = [session EXCEPT ![t].at = "ready", ![t].target = NoClient, ![t].last = FALSE]
    BY <1>7 DEF Rests
  <2> QED
    BY <1>1, <1>5, <1>7, <2>1
<1>8. CASE Escrow(t)
  <2>1. /\ doc' \subseteq doc
        /\ wraps' \subseteq Clients /\ readers' \subseteq Clients
        /\ UNCHANGED <<doc, published, entry, disowned, failures>>
    BY <1>1, <1>2, <1>8 DEF Escrow, Goes, At, Enrollment
  <2>2. Shape'
    BY <1>2, <2>1, ShapeKept
  <2>3. /\ session[t].at = "escrow" /\ session' = [session EXCEPT ![t].at = "complete"]
        /\ UNCHANGED <<record, registering, copy, published, disowned>>
        /\ copy[t] = NoRecord /\ registering[t] = "none" /\ Own(t) # NoClient
    BY <1>1, <1>8 DEF Escrow, Goes, At, Enrollment, At, Sound, Enrollment, LoginPasses, Forgetting, Disconnecting
  <2>4. /\ "complete" \in Ats /\ session[t].at # "out"
    BY <1>6, <2>3 DEF Ats, Enrollment, LoginPasses, Forgetting, Disconnecting
  <2> QED
    BY <1>4, <2>1, <2>2, <2>3, <2>4
<1>9. CASE Sweep(t)
  <2>1. /\ doc' \subseteq doc
        /\ wraps' \subseteq Clients /\ UNCHANGED <<doc, published, readers, entry, disowned, failures>>
    BY <1>1, <1>2, <1>9 DEF Sweep, Goes, Converged
  <2>2. Shape'
    BY <1>2, <2>1, ShapeKept
  <2>3. /\ session[t].at = "sweep" /\ session' = [session EXCEPT ![t].at = "cascade"]
        /\ UNCHANGED <<record, registering, copy, published, disowned>>
        /\ copy[t] = NoRecord /\ Own(t) # NoClient
    BY <1>1, <1>9 DEF Sweep, Goes, Converged, At, Sound, Enrollment, LoginPasses, Forgetting, Disconnecting
  <2>4. /\ "cascade" \notin Enrollment \cup (Forgetting \ {"await"})
        /\ "cascade" \in Ats /\ session[t].at # "out"
    BY <1>6, <2>3 DEF Ats, Enrollment, LoginPasses, Forgetting, Disconnecting
  <2> QED
    BY <1>4, <2>1, <2>2, <2>3, <2>4
<1>10. CASE Cascade(t)
  <2>1. /\ doc' \subseteq doc
        /\ readers' \subseteq Clients /\ UNCHANGED <<doc, published, wraps, entry, disowned, failures>>
    BY <1>1, <1>2, <1>10 DEF Cascade, Goes
  <2>2. Shape'
    BY <1>2, <2>1, ShapeKept
  <2>3. /\ session[t].at = "cascade" /\ session' = [session EXCEPT ![t].at = "ready"]
        /\ UNCHANGED <<record, registering, copy, published, disowned>>
    BY <1>1, <1>10 DEF Cascade, Goes, At, Sound, Enrollment, LoginPasses, Forgetting, Disconnecting
  <2>4. /\ "ready" \notin Enrollment \cup LoginPasses
        /\ "ready" \notin Enrollment \cup (Forgetting \ {"await"})
        /\ "ready" \in {"ready"} \cup Disconnecting
        /\ "ready" \in Ats /\ session[t].at # "out"
    BY <1>6, <2>3 DEF Ats, Enrollment, LoginPasses, Forgetting, Disconnecting
  <2> QED
    BY <1>4, <2>1, <2>2, <2>3, <2>4
<1>11. CASE AwaitRegistration(t)
  <2>1. /\ doc' \subseteq doc
        /\ UNCHANGED <<doc, published, wraps, readers, entry, disowned, failures>>
    BY <1>1, <1>2, <1>11 DEF AwaitRegistration, Goes, RegistrationSettled
  <2>2. Shape'
    BY <1>2, <2>1, ShapeKept
  <2>3. /\ session[t].at = "await" /\ session' = [session EXCEPT ![t].at = "retireOwn"]
        /\ UNCHANGED <<record, registering, copy, published, disowned>>
        /\ registering[t] = "none" /\ Own(t) # NoClient
    BY <1>1, <1>11 DEF AwaitRegistration, Goes, RegistrationSettled, At, Sound, Enrollment, LoginPasses, Forgetting, Disconnecting
  <2>4. /\ "retireOwn" \notin Enrollment \cup LoginPasses
        /\ "retireOwn" \in Ats /\ session[t].at # "out"
    BY <1>6, <2>3 DEF Ats, Enrollment, LoginPasses, Forgetting, Disconnecting
  <2> QED
    BY <1>4, <2>1, <2>2, <2>3, <2>4
<1>12. CASE RetireOwn(t)
  <2>1. /\ doc' \subseteq doc
        /\ UNCHANGED <<doc, published, wraps, readers, disowned>>
        /\ (\E c \in OrNone : Retires(c)) \/ UNCHANGED entry
        /\ Spend \/ UNCHANGED failures
    BY <1>1, <1>2, <1>12 DEF RetireOwn, Goes
  <2>2. Shape'
    BY <1>2, <1>3, <2>1, Counted, ShapeKept
  <2>3. /\ session[t].at = "retireOwn" /\ session' = [session EXCEPT ![t].at = "rotateOff"]
        /\ UNCHANGED <<record, registering, copy, published, disowned>>
        /\ registering[t] = "none" /\ Own(t) # NoClient
    BY <1>1, <1>12 DEF RetireOwn, Goes, At, Sound, Enrollment, LoginPasses, Forgetting, Disconnecting
  <2>4. /\ "rotateOff" \notin Enrollment \cup LoginPasses
        /\ "rotateOff" \in Ats /\ session[t].at # "out"
    BY <1>6, <2>3 DEF Ats, Enrollment, LoginPasses, Forgetting, Disconnecting
  <2> QED
    BY <1>4, <2>1, <2>2, <2>3, <2>4
<1>13. CASE FanOut(t)
  <2>1. /\ doc' \subseteq doc
        /\ readers' \subseteq Clients /\ UNCHANGED <<doc, published, wraps, entry, disowned, failures>>
    BY <1>1, <1>2, <1>13 DEF FanOut, Goes
  <2>2. Shape'
    BY <1>2, <2>1, ShapeKept
  <2>3. /\ session[t].at = "fanOut" /\ session' = [session EXCEPT ![t].at = "remove"]
        /\ UNCHANGED <<record, registering, copy, published, disowned>>
        /\ registering[t] = "none" /\ Own(t) # NoClient
    BY <1>1, <1>13 DEF FanOut, Goes, At, Sound, Enrollment, LoginPasses, Forgetting, Disconnecting
  <2>4. /\ "remove" \notin Enrollment \cup LoginPasses
        /\ "remove" \in Ats /\ session[t].at # "out"
    BY <1>6, <2>3 DEF Ats, Enrollment, LoginPasses, Forgetting, Disconnecting
  <2> QED
    BY <1>4, <2>1, <2>2, <2>3, <2>4
<1>14. CASE Remove(t)
  <2>1. /\ doc' \subseteq doc
        /\ UNCHANGED <<published, wraps, readers, entry, disowned, failures>>
    BY <1>1, <1>2, <1>14 DEF Remove, Goes
  <2>2. Shape'
    BY <1>2, <2>1, ShapeKept
  <2>3. /\ session[t].at = "remove" /\ session' = [session EXCEPT ![t].at = "wipe"]
        /\ UNCHANGED <<record, registering, copy, published, disowned>>
        /\ registering[t] = "none" /\ Own(t) # NoClient /\ Own(t) \notin doc'
    BY <1>1, <1>14 DEF Remove, Goes, At, Sound, Enrollment, LoginPasses, Forgetting, Disconnecting
  <2>4. /\ "wipe" \notin Enrollment \cup LoginPasses
        /\ "wipe" \in Ats /\ session[t].at # "out"
    BY <1>6, <2>3 DEF Ats, Enrollment, LoginPasses, Forgetting, Disconnecting
  <2> QED
    BY <1>4, <2>1, <2>2, <2>3, <2>4
<1>15. CASE Strike(t)
  <2>1. /\ doc' \subseteq doc
        /\ UNCHANGED <<published, wraps, readers, entry, disowned, failures>>
    BY <1>1, <1>2, <1>15 DEF Strike, Goes
  <2>2. Shape'
    BY <1>2, <2>1, ShapeKept
  <2>3. /\ session[t].at = "strike" /\ session' = [session EXCEPT ![t].at = "rekey"]
        /\ UNCHANGED <<record, registering, copy, published, disowned>>
    BY <1>1, <1>15 DEF Strike, Goes, At, Sound, Enrollment, LoginPasses, Forgetting, Disconnecting
  <2>4. /\ "rekey" \notin Enrollment \cup LoginPasses
        /\ "rekey" \notin Enrollment \cup (Forgetting \ {"await"})
        /\ "rekey" \in {"ready"} \cup Disconnecting
        /\ "rekey" \in Ats /\ session[t].at # "out"
    BY <1>6, <2>3 DEF Ats, Enrollment, LoginPasses, Forgetting, Disconnecting
  <2> QED
    BY <1>4, <2>1, <2>2, <2>3, <2>4
<1>16. CASE Rekey(t)
  <2>1. /\ doc' \subseteq doc
        /\ wraps' \subseteq Clients /\ UNCHANGED <<doc, published, readers, entry, disowned, failures>>
    BY <1>1, <1>2, <1>16 DEF Rekey, Goes
  <2>2. Shape'
    BY <1>2, <2>1, ShapeKept
  <2>3. /\ session[t].at = "rekey" /\ session' = [session EXCEPT ![t].at = "spread"]
        /\ UNCHANGED <<record, registering, copy, published, disowned>>
    BY <1>1, <1>16 DEF Rekey, Goes, At, Sound, Enrollment, LoginPasses, Forgetting, Disconnecting
  <2>4. /\ "spread" \notin Enrollment \cup LoginPasses
        /\ "spread" \notin Enrollment \cup (Forgetting \ {"await"})
        /\ "spread" \in {"ready"} \cup Disconnecting
        /\ "spread" \in Ats /\ session[t].at # "out"
    BY <1>6, <2>3 DEF Ats, Enrollment, LoginPasses, Forgetting, Disconnecting
  <2> QED
    BY <1>4, <2>1, <2>2, <2>3, <2>4
<1>17. CASE Spread(t)
  <2>1. /\ doc' \subseteq doc
        /\ readers' \subseteq Clients /\ UNCHANGED <<doc, published, wraps, entry, disowned, failures>>
    BY <1>1, <1>2, <1>17 DEF Spread, Goes
  <2>2. Shape'
    BY <1>2, <2>1, ShapeKept
  <2>3. /\ session[t].at = "spread" /\ session' = [session EXCEPT ![t].at = "retire"]
        /\ UNCHANGED <<record, registering, copy, published, disowned>>
    BY <1>1, <1>17 DEF Spread, Goes, At, Sound, Enrollment, LoginPasses, Forgetting, Disconnecting
  <2>4. /\ "retire" \notin Enrollment \cup LoginPasses
        /\ "retire" \notin Enrollment \cup (Forgetting \ {"await"})
        /\ "retire" \in {"ready"} \cup Disconnecting
        /\ "retire" \in Ats /\ session[t].at # "out"
    BY <1>6, <2>3 DEF Ats, Enrollment, LoginPasses, Forgetting, Disconnecting
  <2> QED
    BY <1>4, <2>1, <2>2, <2>3, <2>4
<1>18. CASE PassFails(t)
  <2>1. /\ doc' \subseteq doc
        /\ UNCHANGED <<doc, published, wraps, readers, entry, disowned>> /\ Spend
    BY <1>1, <1>2, <1>18 DEF PassFails, Goes
  <2>2. Shape'
    BY <1>2, <2>1, Counted, ShapeKept
  <2>3. /\ session[t].at \in LoginPasses /\ session' = [session EXCEPT ![t].at = "ready"]
        /\ UNCHANGED <<record, registering, copy, published, disowned>>
    BY <1>1, <1>18 DEF PassFails, Goes, At, Sound, Enrollment, LoginPasses, Forgetting, Disconnecting
  <2>4. /\ "ready" \notin Enrollment \cup LoginPasses
        /\ "ready" \notin Enrollment \cup (Forgetting \ {"await"})
        /\ "ready" \in {"ready"} \cup Disconnecting
        /\ "ready" \in Ats /\ session[t].at # "out"
    BY <1>6, <2>3 DEF Ats, Enrollment, LoginPasses, Forgetting, Disconnecting
  <2> QED
    BY <1>4, <2>1, <2>2, <2>3, <2>4
<1>19. CASE StartForget(t)
  <2>1. Shape' /\ session[t].at # "out" /\ Own(t) # NoClient
    BY <1>2, <1>19, ShapeKept DEF StartForget, At, Ladder
  <2>2. session' = [session EXCEPT ![t].at = "await", ![t].last = (doc = {Own(t)})]
    BY <1>19 DEF StartForget
  <2>3. UNCHANGED <<doc, record, registering, copy, published, disowned>>
    BY <1>19 DEF StartForget
  <2> QED
    BY <1>1, <1>5, <2>1, <2>2, <2>3
<1>20. ASSUME NEW c \in Clients, StartDisconnect(t, c) PROVE Inv'
  <2>1. Shape' /\ session[t].at # "out" /\ c \in OrNone
    BY <1>2, <1>20, ShapeKept DEF StartDisconnect, At, OrNone
  <2>2. session' = [session EXCEPT ![t].at = "strike", ![t].target = c]
    BY <1>20 DEF StartDisconnect
  <2>3. UNCHANGED <<doc, record, registering, copy, published, disowned>>
    BY <1>20 DEF StartDisconnect
  <2> QED
    BY <1>5, <2>1, <2>2, <2>3
<1>21. CASE RotateOff(t)
  <2>1. /\ wraps' \subseteq Clients /\ session[t].at = "rotateOff"
        /\ UNCHANGED <<doc, published, readers, entry, disowned, failures>>
        /\ UNCHANGED <<record, registering, copy>>
        /\ Rests(t) \/ session' = [session EXCEPT ![t].at = "fanOut"]
    BY <1>2, <1>21 DEF RotateOff, At, Goes
  <2>2. Shape'
    BY <1>2, <2>1, ShapeKept
  <2>3. registering[t] = "none" /\ Own(t) # NoClient
    BY <1>1, <2>1 DEF Sound, Forgetting, Disconnecting
  <2>4. "fanOut" \in Ats /\ "fanOut" \notin Enrollment \cup LoginPasses
    BY DEF Ats, Enrollment, LoginPasses, Forgetting
  <2>5. CASE Rests(t)
    BY <1>7, <2>1, <2>2, <2>5
  <2>6. CASE session' = [session EXCEPT ![t].at = "fanOut"]
    BY <1>4, <2>1, <2>2, <2>3, <2>4, <2>6
  <2> QED
    BY <2>1, <2>5, <2>6
<1>22. CASE RetireRevoked(t)
  <2>1. /\ (\E c \in OrNone : Retires(c)) \/ UNCHANGED entry
        /\ Spend \/ UNCHANGED failures
        /\ UNCHANGED <<doc, published, wraps, readers, record, registering, copy, disowned>>
        /\ Rests(t) /\ session[t].at # "out"
    BY <1>1, <1>22 DEF RetireRevoked, At, Sessions
  <2>2. Shape'
    BY <1>2, <1>3, <2>1, Counted, ShapeKept
  <2> QED
    BY <1>7, <2>1, <2>2
<1>23. CASE Fails(t)
  <2>1. /\ Spend \/ UNCHANGED failures
        /\ UNCHANGED <<doc, published, wraps, readers, entry, disowned>>
        /\ UNCHANGED <<record, registering, copy>>
        /\ Rests(t) /\ session[t].at # "out"
    BY <1>6, <1>23 DEF Fails
  <2>2. Shape'
    BY <1>2, <2>1, Counted, ShapeKept
  <2> QED
    BY <1>7, <2>1, <2>2
<1> QED
  BY <1>8, <1>9, <1>10, <1>11, <1>12, <1>13, <1>14, <1>15, <1>16, <1>17, <1>18, <1>19, <1>20, <1>21, <1>22, <1>23

\* The steps that write the browser's own record: each leaves a record of the
\* client it is about, and the entry that publishes a client is behind one.
LEMMA RecordsKeep ==
  ASSUME MembershipAssumption, OneTabEach, Inv, NEW t \in Tabs,
         \/ Commit(t) \/ Publish(t) \/ Complete(t) \/ AdoptionLoads(t) \/ AdoptionSaves(t)
  PROVE  Inv'
<1> USE DEF account
<1>1. /\ session[t] \in Sessions /\ session \in [Tabs -> Sessions]
      /\ registering[t] \in Registrations /\ copy[t] \in Records /\ Mine(t) \in Records
      /\ Sound(session[t], registering[t], copy[t], Mine(t), doc, published)
      /\ session[t].client = Own(t) /\ Own(t) \in OrNone
      /\ Mine(t).client = NoClient => Mine(t) = NoRecord
      /\ copy[t].client = NoClient => copy[t] = NoRecord
      /\ NoRecord \in Records /\ NoRecord.client = NoClient /\ NoRecord.shape = "none"
  BY Here DEF Inv, Own, Sessions, OrNone, NoRecord, Records
<1>2. /\ session = [session EXCEPT ![t] = session[t]]
      /\ registering = [registering EXCEPT ![t] = registering[t]]
      /\ copy = [copy EXCEPT ![t] = copy[t]]
      /\ record = [record EXCEPT ![BrowserOf[t]] = Mine(t)]
  BY Here
<1>3. Own(t) # NoClient => Own(t) \in Clients
  BY <1>1 DEF OrNone
<1>4. /\ doc \subseteq published /\ published \subseteq Clients /\ wraps \subseteq Clients
      /\ readers \subseteq Clients /\ entry \in [Clients -> {"none", "live", "retired"}]
      /\ \A c \in Clients : entry[c] # "none" => c \in published
      /\ disowned \subseteq Clients /\ failures \in 0..MaxFailures
  BY DEF Inv, Shape
<1>5. ASSUME NEW x \in Records, NEW shape \in {"pending", "enrolled"}, x # NoRecord
      PROVE  [x EXCEPT !.shape = shape] \in Records
             /\ [x EXCEPT !.shape = shape].client = x.client
             /\ [x EXCEPT !.shape = shape].shape = shape
  BY DEF Records
<1>6. CASE Commit(t)
  <2>1. /\ session[t].at = "commit" /\ Own(t) # NoClient /\ Own(t) \notin published
        /\ registering[t] = "none" /\ copy[t] = NoRecord
        /\ IF session[t].resumed THEN Mine(t).client = Own(t) ELSE Mine(t) = NoRecord
    BY <1>1, <1>6 DEF Commit, At, Sound, Enrollment, Disconnecting
  <2> DEFINE r == Committed(t)
             z == [session[t] EXCEPT !.at = "publish"]
  <2>2. r \in Records /\ r.client = Own(t) /\ r.shape = "pending"
    <3>1. CASE session[t].resumed
      BY <1>1, <1>5, <2>1, <3>1 DEF Committed, Persisted
    <3>2. CASE ~session[t].resumed
      BY <1>1, <2>1, <3>2 DEF Committed, Records
    <3> QED
      BY <3>1, <3>2
  <2>3. "publish" \in Ats
    BY DEF Ats, Enrollment
  <2>4. z \in Sessions /\ z.at = "publish" /\ z.client = Own(t)
    BY <1>1, <2>3, Fields
  <2>5. /\ session' = [session EXCEPT ![t] = z] /\ record' = [record EXCEPT ![BrowserOf[t]] = r]
        /\ UNCHANGED <<doc, published, wraps, readers, entry, disowned, failures>>
    BY <1>6 DEF Commit, Goes, Keeps
  <2>6. /\ registering' = [registering EXCEPT ![t] = registering[t]]
        /\ copy' = [copy EXCEPT ![t] = copy[t]]
    BY <1>2, <1>6 DEF Commit
  <2> HIDE DEF r, z
  <2>7. Shape'
    BY <1>4, <2>5 DEF Shape
  <2>8. Sound(z, registering[t], copy[t], r, doc', published')
    BY <1>1, <2>1, <2>2, <2>4, <2>5
       DEF Sound, Forgetting, LoginPasses
  <2>9. \A c \in Keys(z, copy[t], r) : c \in Held(t) \/ Fresh(c)
    BY <2>1, <2>2, <2>4, <1>1 DEF Keys, Held
  <2>10. \A c \in doc' \ disowned' : c = Mine(t).client \/ c \notin doc => c = r.client
    BY <1>1, <1>4, <2>1, <2>2, <2>5 DEF MembershipAssumption
  <2>11. /\ published' \subseteq published \cup {Own(t)} /\ doc' \subseteq doc \cup {Own(t)}
         /\ disowned \subseteq disowned'
    BY <2>5
  <2> QED
    BY <1>1, <2>2, <2>4, <2>5, <2>6, <2>7, <2>8, <2>9, <2>10, <2>11, Moves
<1>7. CASE Publish(t)
  <2>1. /\ session[t].at = "publish" /\ Own(t) # NoClient /\ Own(t) \notin published
        /\ registering[t] = "none" /\ copy[t] = NoRecord /\ Mine(t).client = Own(t)
    BY <1>1, <1>7 DEF Publish, At, Sound, Enrollment, Disconnecting
  <2> DEFINE z == [session[t] EXCEPT !.at = "escrow"]
  <2>2. "escrow" \in Ats
    BY DEF Ats, Enrollment
  <2>3. z \in Sessions /\ z.at = "escrow" /\ z.client = Own(t)
    BY <1>1, <2>2, Fields
  <2>4. /\ doc' = doc \cup {Own(t)} /\ published' = published \cup {Own(t)}
        /\ UNCHANGED <<wraps, readers, entry, disowned, failures>>
    BY <1>7 DEF Publish, Goes
  <2>11. session' = [session EXCEPT ![t] = z]
    BY <1>7 DEF Publish, Goes
  <2>5. /\ registering' = [registering EXCEPT ![t] = registering[t]]
        /\ copy' = [copy EXCEPT ![t] = copy[t]]
        /\ record' = [record EXCEPT ![BrowserOf[t]] = Mine(t)]
    BY <1>2, <1>7 DEF Publish
  <2> HIDE DEF z
  <2>6. Shape'
    BY <1>3, <1>4, <2>1, <2>4 DEF Shape
  <2>7. Sound(z, registering[t], copy[t], Mine(t), doc', published')
    BY <1>1, <2>1, <2>3 DEF Sound, Forgetting, LoginPasses
  <2>8. \A c \in Keys(z, copy[t], Mine(t)) : c \in Held(t) \/ Fresh(c)
    BY <2>3, <1>1 DEF Keys, Held
  <2>9. \A c \in doc' \ disowned' : c = Mine(t).client \/ c \notin doc => c = Mine(t).client
    BY <2>1, <2>4
  <2>10. /\ published' \subseteq published \cup {Own(t)} /\ doc' \subseteq doc \cup {Own(t)}
         /\ disowned \subseteq disowned'
    BY <2>4
  <2> QED
    BY <1>1, <2>3, <2>5, <2>6, <2>7, <2>8, <2>9, <2>10, <2>11, Moves
<1>8. CASE Complete(t)
  <2>1. /\ session[t].at = "complete" /\ Own(t) # NoClient
        /\ registering[t] = "none" /\ copy[t] = NoRecord
        /\ Mine(t).client \in {Own(t), NoClient}
    BY <1>1, <1>8 DEF Complete, At, Sound, Enrollment, Disconnecting
  <2> DEFINE r == Persisted(t, "enrolled")
             z == [session[t] EXCEPT !.at = "sweep"]
  <2>2. r \in Records /\ r.client = Mine(t).client /\ (r.shape = "none" <=> r.client = NoClient)
    <3>1. CASE Mine(t) = NoRecord
      BY <1>1, <3>1 DEF Persisted
    <3>2. CASE Mine(t) # NoRecord
      BY <1>1, <1>5, <3>2 DEF Persisted
    <3> QED
      BY <3>1, <3>2
  <2>3. "sweep" \in Ats /\ "due" \in Registrations
    BY DEF Ats, LoginPasses, Registrations
  <2>4. z \in Sessions /\ z.at = "sweep" /\ z.client = Own(t)
    BY <1>1, <2>3, Fields
  <2>5. /\ session' = [session EXCEPT ![t] = z] /\ record' = [record EXCEPT ![BrowserOf[t]] = r]
        /\ registering' = [registering EXCEPT ![t] = "due"]
        /\ UNCHANGED <<doc, published, wraps, readers, entry, disowned, failures>>
    BY <1>8 DEF Complete, Goes, Keeps
  <2>6. copy' = [copy EXCEPT ![t] = copy[t]]
    BY <1>2, <1>8 DEF Complete
  <2> HIDE DEF r, z
  <2>7. Shape'
    BY <1>4, <2>5 DEF Shape
  <2>8. Sound(z, "due", copy[t], r, doc', published')
    BY <1>1, <2>1, <2>2, <2>4 DEF Sound, Forgetting, Enrollment
  <2>9. \A c \in Keys(z, copy[t], r) : c \in Held(t) \/ Fresh(c)
    BY <2>2, <2>4, <1>1 DEF Keys, Held
  <2>10. \A c \in doc' \ disowned' : c = Mine(t).client \/ c \notin doc => c = r.client
    BY <2>2, <2>5
  <2>11. /\ published' \subseteq published \cup {Own(t)} /\ doc' \subseteq doc \cup {Own(t)}
         /\ disowned \subseteq disowned'
    BY <2>5
  <2> QED
    BY <1>1, <2>2, <2>3, <2>4, <2>5, <2>6, <2>7, <2>8, <2>9, <2>10, <2>11, Moves
<1>9. CASE AdoptionLoads(t)
  <2>1. /\ session[t].at = "ready" /\ Own(t) # NoClient /\ Mine(t).shape = "enrolled"
        /\ Mine(t).client \in {Own(t), NoClient}
    BY <1>1, <1>9 DEF AdoptionLoads, At, Ladder, Sound
  <2>2. /\ copy' = [copy EXCEPT ![t] = Mine(t)]
        /\ UNCHANGED <<doc, published, wraps, readers, entry, disowned, failures>>
    BY <1>9 DEF AdoptionLoads
  <2>3. /\ registering' = [registering EXCEPT ![t] = registering[t]]
        /\ session' = [session EXCEPT ![t] = session[t]]
        /\ record' = [record EXCEPT ![BrowserOf[t]] = Mine(t)]
    BY <1>2, <1>9 DEF AdoptionLoads
  <2>4. Shape'
    BY <1>4, <2>2 DEF Shape
  <2>5. Sound(session[t], registering[t], Mine(t), Mine(t), doc', published')
    BY <1>1, <2>1, <2>2 DEF Sound, Enrollment, LoginPasses, Forgetting
  <2>6. \A c \in Keys(session[t], Mine(t), Mine(t)) : c \in Held(t) \/ Fresh(c)
    BY DEF Keys, Held
  <2>7. /\ published' \subseteq published \cup {Own(t)} /\ doc' \subseteq doc \cup {Own(t)}
        /\ disowned \subseteq disowned'
        /\ \A c \in doc' \ disowned' : c = Mine(t).client \/ c \notin doc => c = Mine(t).client
    BY <2>2
  <2> QED
    BY <1>1, <2>2, <2>3, <2>4, <2>5, <2>6, <2>7, Moves
<1>10. CASE AdoptionSaves(t)
  <2>1. /\ copy[t] # NoRecord /\ Mine(t).client \in {copy[t].client, NoClient}
        /\ copy' = [copy EXCEPT ![t] = NoRecord]
        /\ record' = [record EXCEPT ![BrowserOf[t]] = copy[t]]
        /\ UNCHANGED <<doc, published, wraps, readers, entry, disowned, failures>>
    BY <1>1, <1>10 DEF AdoptionSaves, Keeps, Sound
  <2>2. /\ registering' = [registering EXCEPT ![t] = registering[t]]
        /\ session' = [session EXCEPT ![t] = session[t]]
    BY <1>2, <1>10 DEF AdoptionSaves
  <2>3. Shape'
    BY <1>4, <2>1 DEF Shape
  <2>4. Sound(session[t], registering[t], NoRecord, copy[t], doc', published')
    BY <1>1, <2>1 DEF Sound, Enrollment
  <2>5. \A c \in Keys(session[t], NoRecord, copy[t]) : c \in Held(t) \/ Fresh(c)
    BY <1>1 DEF Keys, Held
  <2>6. /\ published' \subseteq published \cup {Own(t)} /\ doc' \subseteq doc \cup {Own(t)}
        /\ disowned \subseteq disowned'
        /\ \A c \in doc' \ disowned' : c = Mine(t).client \/ c \notin doc => c = copy[t].client
    <3>1. NoClient \notin doc
      BY <1>4 DEF MembershipAssumption
    <3> QED
      BY <2>1, <3>1
  <2> QED
    BY <1>1, <2>1, <2>2, <2>3, <2>4, <2>5, <2>6, Moves
<1> QED
  BY <1>6, <1>7, <1>8, <1>9, <1>10

\* The writer registration beside the session.
LEMMA RegistrationKeeps ==
  ASSUME MembershipAssumption, OneTabEach, Inv, NEW t \in Tabs,
         RegistrationReads(t) \/ RegistrationWrites(t) \/ RegistrationFails(t)
  PROVE  Inv'
<1> USE DEF account
<1>1. /\ session[t] \in Sessions /\ copy[t] \in Records /\ Mine(t) \in Records
      /\ registering[t] \in Registrations
      /\ Sound(session[t], registering[t], copy[t], Mine(t), doc, published)
  BY Here
<1>2. /\ doc \subseteq published /\ published \subseteq Clients /\ wraps \subseteq Clients
      /\ readers \subseteq Clients /\ entry \in [Clients -> {"none", "live", "retired"}]
      /\ \A c \in Clients : entry[c] # "none" => c \in published
      /\ disowned \subseteq Clients
  BY DEF Inv, Shape
<1>3. registering[t] # "none" => Own(t) # NoClient /\ session[t].at \notin Enrollment
                                 /\ session[t].at \notin Forgetting \ {"await"}
  BY <1>1 DEF Sound, Own
<1>4. PICK g \in Registrations :
        /\ registering' = [registering EXCEPT ![t] = g]
        /\ registering[t] # "none"
  BY DEF RegistrationReads, RegistrationWrites, RegistrationFails, Registrations
<1>5. /\ UNCHANGED <<doc, published, wraps, readers, record, session, copy, disowned>>
      /\ Spend \/ UNCHANGED failures
  BY DEF RegistrationReads, RegistrationWrites, RegistrationFails
<1>6. /\ entry' \in [Clients -> {"none", "live", "retired"}]
      /\ \A c \in Clients : entry'[c] # "none" => c \in published
  <2>1. CASE entry' = entry
    BY <1>2, <2>1
  <2>2. CASE RegistrationWrites(t)
    <3>1. PICK e \in Registered(t) : entry' = [entry EXCEPT ![Own(t)] = e]
      BY <2>2 DEF RegistrationWrites
    <3>2. Own(t) \in Clients
      BY <1>1, <1>3, <1>4 DEF Own, Sessions, OrNone
    <3>3. e \in {"none", "live", "retired"} /\ (e # "none" => Own(t) \in published)
      <4>1. CASE Own(t) \in doc
        BY <1>2, <1>3, <1>4, <3>1, <4>1 DEF Registered, Authorised, Ladder
      <4>2. CASE Own(t) \notin doc
        <5>1. ~Authorised(t)
          BY <1>3, <1>4, <4>2 DEF Authorised, Ladder
        <5>2. e = entry[Own(t)]
          BY <3>1, <5>1 DEF Registered
        <5> QED
          BY <1>2, <3>2, <5>2
      <4> QED
        BY <4>1, <4>2
    <3> QED
      BY <1>2, <3>1, <3>2, <3>3
  <2> QED
    BY <2>1, <2>2 DEF RegistrationReads, RegistrationWrites, RegistrationFails
<1>7. Shape'
  BY <1>2, <1>5, <1>6, Counted, ShapeKept
<1>8. Sound(session[t], g, copy[t], Mine(t), doc', published')
  BY <1>1, <1>3, <1>4, <1>5 DEF Sound, Own
<1>9. /\ session' = [session EXCEPT ![t] = session[t]]
      /\ copy' = [copy EXCEPT ![t] = copy[t]]
      /\ record' = [record EXCEPT ![BrowserOf[t]] = Mine(t)]
  BY <1>5, Here
<1>10. /\ published' \subseteq published \cup {Own(t)} /\ doc' \subseteq doc \cup {Own(t)}
       /\ disowned \subseteq disowned'
       /\ \A c \in doc' \ disowned' : c = Mine(t).client \/ c \notin doc => c = Mine(t).client
  BY <1>5
<1>11. \A c \in Keys(session[t], copy[t], Mine(t)) : c \in Held(t) \/ Fresh(c)
  BY DEF Keys, Held
<1> HIDE DEF account
<1> QED
  BY <1>1, <1>4, <1>7, <1>8, <1>9, <1>10, <1>11, Moves

\* What ends a session, or takes the browser's record.
LEMMA EndsKeep ==
  ASSUME MembershipAssumption, OneTabEach, Inv, NEW t \in Tabs,
         Wipe(t) \/ LogOut(t) \/ ForgetBrowserData(t) \/ Close(t) \/ EnrollmentFails(t)
  PROVE  Inv'
<1> USE DEF account
<1>1. /\ session[t] \in Sessions /\ copy[t] \in Records /\ Mine(t) \in Records
      /\ registering[t] \in Registrations
      /\ Sound(session[t], registering[t], copy[t], Mine(t), doc, published)
      /\ session = [session EXCEPT ![t] = session[t]]
      /\ registering = [registering EXCEPT ![t] = registering[t]]
      /\ copy = [copy EXCEPT ![t] = copy[t]]
      /\ record = [record EXCEPT ![BrowserOf[t]] = Mine(t)]
      /\ Mine(t).client = NoClient => Mine(t) = NoRecord
  BY Here
<1>2. /\ doc \subseteq published /\ published \subseteq Clients /\ wraps \subseteq Clients
      /\ readers \subseteq Clients /\ entry \in [Clients -> {"none", "live", "retired"}]
      /\ \A c \in Clients : entry[c] # "none" => c \in published
      /\ disowned \subseteq Clients /\ NoClient \notin doc
  BY DEF Inv, Shape, MembershipAssumption
<1>3. Out \in Sessions /\ Out.at = "out" /\ Out.client = NoClient
  BY DEF Out, Sessions, OrNone, Ats
<1>4. ASSUME Spend \/ UNCHANGED failures, disowned' \subseteq Clients,
             UNCHANGED <<doc, published, wraps, readers, entry>>
      PROVE  Shape'
  BY <1>2, <1>4, Counted, ShapeKept
<1>5. CASE Wipe(t)
  <2>1. /\ session' = [session EXCEPT ![t] = Out]
        /\ registering' = [registering EXCEPT ![t] = "none"]
        /\ UNCHANGED <<doc, published, wraps, readers, entry, disowned>>
        /\ \/ record' = [record EXCEPT ![BrowserOf[t]] = NoRecord]
           \/ record' = [record EXCEPT ![BrowserOf[t]] = Mine(t)]
        /\ Spend \/ UNCHANGED failures
    BY <1>1, <1>5 DEF Wipe, Wipes, Keeps
  <2>2. copy' = [copy EXCEPT ![t] = copy[t]]
    BY <1>1, <1>5 DEF Wipe
  <2>3. Mine(t).client \notin doc
    BY <1>1, <1>2, <1>5 DEF Wipe, At, Sound, Disconnecting
  <2> QED
    BY <1>3, <1>4, <1>2, <2>1, <2>2, <2>3, Leaves
<1>6. CASE LogOut(t)
  <2>1. /\ session' = [session EXCEPT ![t] = Out]
        /\ UNCHANGED <<doc, published, wraps, readers, entry, disowned, failures>>
        /\ registering[t] = "none"
    BY <1>6 DEF LogOut
  <2>2. /\ copy' = [copy EXCEPT ![t] = copy[t]]
        /\ record' = [record EXCEPT ![BrowserOf[t]] = Mine(t)]
        /\ registering' = [registering EXCEPT ![t] = "none"]
    BY <1>1, <1>6, <2>1 DEF LogOut
  <2>3. Mine(t) = NoRecord => Mine(t).client \notin doc \ disowned'
    BY <1>2 DEF NoRecord
  <2> QED
    BY <1>2, <1>3, <1>4, <2>1, <2>2, <2>3, Leaves
<1>7. CASE ForgetBrowserData(t)
  <2>1. /\ session[t].at = "out" /\ Mine(t) # NoRecord
        /\ disowned' = disowned \cup {Mine(t).client}
        /\ record' = [record EXCEPT ![BrowserOf[t]] = NoRecord]
        /\ UNCHANGED <<doc, published, wraps, readers, entry, failures>>
    BY <1>7 DEF ForgetBrowserData, At, Keeps
  <2>2. /\ session[t].client = NoClient /\ registering[t] = "none"
        /\ Mine(t).client \in Clients
    BY <1>1, <2>1 DEF Sound, Records, OrNone
  <2>3. /\ session' = [session EXCEPT ![t] = session[t]]
        /\ registering' = [registering EXCEPT ![t] = "none"]
        /\ copy' = [copy EXCEPT ![t] = copy[t]]
    BY <1>1, <1>7, <2>2 DEF ForgetBrowserData
  <2>4. Shape'
    BY <1>2, <1>4, <2>1, <2>2
  <2>5. disowned \subseteq disowned' /\ Mine(t).client \notin doc \ disowned'
    BY <2>1
  <2> QED
    BY <1>1, <2>1, <2>2, <2>3, <2>4, <2>5, Leaves
<1>8. CASE Close(t)
  <2>1. /\ session' = [session EXCEPT ![t] = Out] /\ Spend
        /\ registering' = [registering EXCEPT ![t] = "none"]
        /\ copy' = [copy EXCEPT ![t] = NoRecord]
        /\ UNCHANGED <<doc, published, wraps, readers, entry, disowned>>
    BY <1>8 DEF Close
  <2>2. record' = [record EXCEPT ![BrowserOf[t]] = Mine(t)]
    BY <1>1, <1>8 DEF Close
  <2>3. Mine(t) = NoRecord => Mine(t).client \notin doc \ disowned'
    BY <1>2 DEF NoRecord
  <2> QED
    BY <1>2, <1>3, <1>4, <2>1, <2>2, <2>3, Leaves
<1>9. CASE EnrollmentFails(t)
  <2>1. /\ session' = [session EXCEPT ![t] = Out] /\ Spend
        /\ session[t].at \in Enrollment
        /\ UNCHANGED <<doc, published, wraps, readers, entry, disowned>>
    BY <1>9 DEF EnrollmentFails
  <2>2. registering[t] = "none"
    BY <1>1, <2>1 DEF Sound
  <2>3. /\ copy' = [copy EXCEPT ![t] = copy[t]]
        /\ record' = [record EXCEPT ![BrowserOf[t]] = Mine(t)]
        /\ registering' = [registering EXCEPT ![t] = "none"]
    BY <1>1, <1>9, <2>2 DEF EnrollmentFails
  <2>4. Mine(t) = NoRecord => Mine(t).client \notin doc \ disowned'
    BY <1>2 DEF NoRecord
  <2> QED
    BY <1>2, <1>3, <1>4, <2>1, <2>3, <2>4, Leaves
<1> QED
  BY <1>5, <1>6, <1>7, <1>8, <1>9

LEMMA InitInv == MembershipAssumption /\ Init => Inv
<1> SUFFICES ASSUME MembershipAssumption, Init PROVE Inv
  OBVIOUS
<1>1. Out \in Sessions /\ Out.at = "out" /\ Out.client = NoClient
  BY DEF Out, Sessions, OrNone, Ats
<1>2. NoRecord \in Records /\ NoRecord.shape = "none" /\ NoRecord.client = NoClient
  BY DEF NoRecord, Records, OrNone
<1>3. \A t \in Tabs : /\ session[t] = Out /\ registering[t] = "none" /\ copy[t] = NoRecord
                      /\ Mine(t) = NoRecord
  BY DEF Init, Mine, MembershipAssumption
<1>4. /\ record \in [Browsers -> Records] /\ session \in [Tabs -> Sessions]
      /\ registering \in [Tabs -> Registrations] /\ copy \in [Tabs -> Records]
  BY <1>1, <1>2 DEF Init, Registrations
<1>5. Shape
  BY DEF Init, Shape, MembershipAssumption
<1>6. \A t \in Tabs :
        Sound(session[t], registering[t], copy[t], Mine(t), doc, published)
  BY <1>1, <1>2, <1>3 DEF Sound, Enrollment, LoginPasses, Forgetting
<1>7. Distinct
  BY <1>1, <1>2, <1>3 DEF Distinct, Held, Keys
<1>8. Backed /\ Bare
  BY DEF Init, Backed, Bare
<1> QED
  BY <1>4, <1>5, <1>6, <1>7, <1>8 DEF Inv

LEMMA InvInductive == MembershipAssumption /\ OneTabEach /\ Inv /\ [Next]_vars => Inv'
<1> SUFFICES ASSUME MembershipAssumption, OneTabEach, Inv, [Next]_vars PROVE Inv'
  OBVIOUS
<1>1. CASE UNCHANGED vars
  <2>1. \A t : Own(t)' = Own(t) /\ Mine(t)' = Mine(t) /\ Held(t)' = Held(t)
    BY <1>1 DEF vars, Own, Mine, Held
  <2> QED
    BY <1>1, <2>1 DEF vars, account, Inv, Shape, Distinct, Backed, Bare
<1>2. CASE Next
  BY <1>2, LogInKeeps, PassesKeep, RecordsKeep, RegistrationKeeps, EndsKeep
     DEF Next, Step, Registers
<1> QED
  BY <1>1, <1>2

\* Inv is an invariant when each browser has one tab.
THEOREM MembershipSafety == ASSUME OneTabEach PROVE Spec => []Inv
<1>1. MembershipAssumption /\ OneTabEach
  BY MembershipAssumption
<1> QED
  BY <1>1, InitInv, InvInductive, PTL DEF Spec

LEMMA InvTypes == MembershipAssumption /\ Inv => TypeOK
<1> SUFFICES ASSUME MembershipAssumption, Inv PROVE TypeOK
  OBVIOUS
<1>1. ASSUME NEW b \in Browsers PROVE record[b].shape = "none" <=> record[b].client = NoClient
  <2>1. CASE record[b] = NoRecord
    BY <2>1 DEF NoRecord
  <2>2. CASE record[b] # NoRecord
    <3>1. PICK t \in Tabs : BrowserOf[t] = b
      BY <2>2 DEF Inv, Bare
    <3> QED
      BY <3>1, Here DEF Mine, Sound
  <2> QED
    BY <2>1, <2>2
<1>2. ASSUME NEW b \in Browsers, NEW d \in Browsers, record[b].client = record[d].client,
             record[b] # NoRecord, b # d
      PROVE  FALSE
  <2>1. record[b] \in Records /\ record[d] \in Records
    BY DEF Inv
  <2>2. record[b].client # NoClient
    BY <1>1, <1>2, <2>1 DEF Records, NoRecord
  <2>3. record[d] # NoRecord
    BY <1>2, <2>2 DEF NoRecord
  <2>4. PICK t \in Tabs, u \in Tabs : BrowserOf[t] = b /\ BrowserOf[u] = d
    BY <1>2, <2>3 DEF Inv, Bare
  <2>5. record[b].client \in Held(t) \cap Held(u)
    BY <1>2, <2>2, <2>4 DEF Held, Keys, Mine
  <2> QED
    BY <1>2, <2>4, <2>5 DEF Inv, Distinct
<1> QED
  BY <1>1, <1>2 DEF Inv, Shape, TypeOK, Sessions, Ats, Registrations

\* No phantom: every client the document lists is one whose keys some browser's
\* record holds, but for the browsers told to drop everything.
THEOREM NoPhantomSafety == ASSUME OneTabEach PROVE Spec => []NoPhantom
<1>1. Inv => NoPhantom
  <2> SUFFICES ASSUME Inv PROVE NoPhantom
    OBVIOUS
  <2>1. TypeOK
    BY InvTypes, MembershipAssumption
  <2>2. \A t \in Tabs : BrowserOf[t] \in Browsers
    BY MembershipAssumption DEF MembershipAssumption
  <2> QED
    BY <2>1, <2>2 DEF NoPhantom, Inv, Backed, Mine
<1> QED
  BY <1>1, MembershipSafety, PTL

\* No step reverses a removal.
LEMMA RemovalStep ==
  ASSUME MembershipAssumption, Inv, [Next]_vars
  PROVE  /\ \A c \in published \ doc : c \notin doc'
         /\ \A t \in Tabs :
              /\ session[t].at \in {"rotateOff", "fanOut", "remove"}
              /\ session'[t].at \in {"fanOut", "remove", "wipe"}
              /\ entry[Own(t)] = "retired"
              => entry'[Own(t)] = "retired"
<1> USE DEF account
<1>1. \A t \in Tabs :
        /\ Sound(session[t], registering[t], copy[t], Mine(t), doc, published)
        /\ session[t] \in Sessions
  BY Here
<1>2. ASSUME NEW c \in published \ doc PROVE c \notin doc'
  <2>1. CASE \E t \in Tabs : Publish(t)
    BY <1>1, <1>2, <2>1 DEF Publish, At, Own, Sound
  <2>2. CASE ~\E t \in Tabs : Publish(t)
    <3>1. doc' \subseteq doc
      BY <2>2 DEF Next, LogIn, LogInTransient, LogInEnrolling, LogInEnrolled, LogInUnverified,
         DetectForgotten, ResumeCompletes, ResumeWipes, ResumeReruns, LogOut, Step, Commit,
         Escrow, Complete, Sweep, Cascade, AwaitRegistration, RetireOwn, RotateOff, FanOut,
         Remove, Wipe, Strike, Rekey, Spread, RetireRevoked, Registers, RegistrationReads,
         RegistrationWrites, AdoptionLoads, AdoptionSaves, StartForget, StartDisconnect,
         ForgetBrowserData, RegistrationFails, Close, Fails, PassFails, EnrollmentFails, vars
    <3> QED
      BY <1>2, <3>1
  <2> QED
    BY <2>1, <2>2
<1>3. ASSUME NEW t \in Tabs, session[t].at \in {"rotateOff", "fanOut", "remove"},
             entry[Own(t)] = "retired"
      PROVE  entry'[Own(t)] = "retired"
  <2>1. entry \in [Clients -> {"none", "live", "retired"}]
    BY DEF Inv, Shape
  <2>2. Own(t) # NoClient /\ registering[t] = "none" /\ Own(t) \in Clients
    BY <1>1, <1>3 DEF Sound, Own, Forgetting, Disconnecting, Sessions, OrNone
  <2>3. CASE \E u \in Tabs : RegistrationWrites(u)
    <3>1. PICK u \in Tabs : RegistrationWrites(u)
      BY <2>3
    <3>2. PICK e : entry' = [entry EXCEPT ![Own(u)] = e]
      BY <3>1 DEF RegistrationWrites
    <3>3. u # t
      BY <2>2, <3>1 DEF RegistrationWrites
    <3>4. Own(u) # Own(t)
      BY <2>2, <3>3 DEF Inv, Distinct, Held, Keys, Own
    <3> QED
      BY <1>3, <2>1, <2>2, <3>2, <3>4
  <2>4. ASSUME NEW c, Retires(c) PROVE entry'[Own(t)] = "retired"
    BY <1>3, <2>1, <2>2, <2>4 DEF Retires
  <2>5. CASE \E u \in Tabs : RetireOwn(u) \/ RetireRevoked(u)
    BY <1>3, <2>4, <2>5 DEF RetireOwn, RetireRevoked
  <2>6. CASE ~\E u \in Tabs : RetireOwn(u) \/ RetireRevoked(u) \/ RegistrationWrites(u)
    <3>1. entry' = entry
      BY <2>6 DEF Next, LogIn, LogInTransient, LogInEnrolling, LogInEnrolled, LogInUnverified,
         DetectForgotten, ResumeCompletes, ResumeWipes, ResumeReruns, LogOut, Step, Commit,
         Publish, Escrow, Complete, Sweep, Cascade, AwaitRegistration, RotateOff, FanOut,
         Remove, Wipe, Strike, Rekey, Spread, Registers, RegistrationReads,
         AdoptionLoads, AdoptionSaves, StartForget, StartDisconnect,
         ForgetBrowserData, RegistrationFails, Close, Fails, PassFails, EnrollmentFails, vars
    <3> QED
      BY <1>3, <3>1
  <2> QED
    BY <2>3, <2>5, <2>6
<1> QED
  BY <1>2, <1>3

\* A client struck from the document is never listed again, and an entry a forget
\* retired stays retired while the forget goes on.
THEOREM RemovalsStandSafety == ASSUME OneTabEach PROVE Spec => RemovalsStand
<1>1. Inv /\ [Next]_vars =>
        [/\ \A c \in published \ doc : c \notin doc'
         /\ \A t \in Tabs :
              /\ session[t].at \in {"rotateOff", "fanOut", "remove"}
              /\ session'[t].at \in {"fanOut", "remove", "wipe"}
              /\ entry[Own(t)] = "retired"
              => entry'[Own(t)] = "retired"]_vars
  BY MembershipAssumption, RemovalStep
<1> QED
  BY <1>1, MembershipSafety, PTL DEF Spec, RemovalsStand
====
