---- MODULE ClientMembership ----
(***************************************************************************)
(* How a browser becomes, stays and stops being one of the account's       *)
(* clients: the self-enrollment of a remembered login, the resume of one   *)
(* that tore, the disconnect and the forget, the wipe of the browser's own *)
(* record, and the login passes that finish what tore.  The other half of  *)
(* the picture is the account's: its document, whom the current user key   *)
(* is wrapped to, and the client's entry in the connections directory.     *)
(* One standing credential logs in everywhere, so a browser has one record.*)
(***************************************************************************)
EXTENDS FiniteSets, Naturals

CONSTANTS
  Browsers,
  Tabs,
  BrowserOf,   \* [Tabs -> Browsers]
  Remembering, \* the tabs whose user asks to be remembered
  Adopting,    \* the tabs a user key is adopted in
  Clients,     \* the client key sets an enrollment may mint
  NoClient,
  MaxFailures  \* bound: failed calls and closed tabs

ASSUME MembershipAssumption ==
  /\ BrowserOf \in [Tabs -> Browsers]
  /\ Remembering \subseteq Tabs /\ Adopting \subseteq Tabs
  /\ NoClient \notin Clients
  /\ MaxFailures \in Nat

VARIABLES
  doc,         \* the clients the account document lists
  published,   \* those some version of its log lists
  wraps,       \* those the roster wraps the current user key to
  readers,     \* those that open the collections' current epochs
  entry,       \* each client's entry in the connections directory
  record,      \* each browser's client-key record
  session,     \* each tab's session and where it stands
  registering, \* each tab's writer registration
  copy,        \* the record a tab's background save has loaded
  disowned,    \* the clients whose browser dropped all its data (history)
  failures     \* the failures so far

account == <<doc, published, wraps, readers, entry>>
vars == <<account, record, session, registering, copy, disowned, failures>>

OrNone == Clients \cup {NoClient}
Enrollment == {"commit", "publish", "escrow", "complete"}
LoginPasses == {"sweep", "cascade"}
Forgetting == {"await", "retireOwn", "rotateOff", "fanOut", "remove", "wipe"}
Disconnecting == {"strike", "rekey", "spread", "retire"}
Records == [client : OrNone, shape : {"none", "pending", "enrolled"}]
NoRecord == [client |-> NoClient, shape |-> "none"]
Out == [at |-> "out", client |-> NoClient, target |-> NoClient,
        resumed |-> FALSE, last |-> FALSE]

\* The types; a record has a client exactly when there is one, no key set is two
\* browsers', and only listed or formerly listed clients hold an entry.
TypeOK ==
  /\ doc \subseteq published /\ published \subseteq Clients
  /\ wraps \subseteq Clients /\ readers \subseteq Clients
  /\ entry \in [Clients -> {"none", "live", "retired"}]
  /\ \A c \in Clients : entry[c] # "none" => c \in published
  /\ record \in [Browsers -> Records]
  /\ \A b \in Browsers : record[b].shape = "none" <=> record[b].client = NoClient
  /\ \A b, d \in Browsers : record[b].client = record[d].client => record[b] = NoRecord \/ b = d
  /\ session \in [Tabs ->
       [at : {"out", "ready"} \cup Enrollment \cup LoginPasses \cup Forgetting
             \cup Disconnecting,
        client : OrNone, target : OrNone, resumed : BOOLEAN, last : BOOLEAN]]
  /\ registering \in [Tabs -> {"none", "due", "listed"}]
  /\ copy \in [Tabs -> Records]
  /\ disowned \subseteq Clients
  /\ failures \in 0..MaxFailures

Init ==
  /\ doc = {} /\ published = {} /\ wraps = {} /\ readers = {}
  /\ entry = [c \in Clients |-> "none"]
  /\ record = [b \in Browsers |-> NoRecord]
  /\ session = [t \in Tabs |-> Out]
  /\ registering = [t \in Tabs |-> "none"]
  /\ copy = [t \in Tabs |-> NoRecord]
  /\ disowned = {}
  /\ failures = 0

At(t, at) == session[t].at = at
Goes(t, at) == session' = [session EXCEPT ![t].at = at]
Mine(t) == record[BrowserOf[t]]
Keeps(t, r) == record' = [record EXCEPT ![BrowserOf[t]] = r]
Own(t) == session[t].client

\* A session without a client acts through its credential's ladder; one with a
\* client has authority as long as the document lists it.
Ladder(t) == Own(t) = NoClient
Authorised(t) == Ladder(t) \/ Own(t) \in doc

\* A client just minted is nobody's yet.
Fresh(c) ==
  /\ c \notin published
  /\ \A b \in Browsers : record[b].client # c
  /\ \A t \in Tabs : session[t].client # c /\ copy[t].client # c

Spend == failures < MaxFailures /\ failures' = failures + 1

(***************************************************************************)
(* A login, by the record the browser holds.                               *)
(***************************************************************************)
Enters(t, at, c, resumed) ==
  session' = [session EXCEPT ![t] =
                [Out EXCEPT !.at = at, !.client = c, !.resumed = resumed]]

\* A local save takes no longer than a login's calls to the server.
MayLogIn(t) == At(t, "out") /\ copy[t] = NoRecord /\ registering[t] = "none"

\* Not remembered: the session has no client, and writes no record.
LogInTransient(t) ==
  /\ MayLogIn(t) /\ Mine(t) = NoRecord
  /\ Enters(t, "ready", NoClient, FALSE)
  /\ UNCHANGED <<account, record, registering, copy, disowned, failures>>

\* Remembered without a record: the credential enrolls the browser.
LogInEnrolling(t, c) ==
  /\ MayLogIn(t) /\ t \in Remembering /\ Mine(t) = NoRecord /\ Fresh(c)
  /\ Enters(t, "commit", c, FALSE)
  /\ UNCHANGED <<account, record, registering, copy, disowned, failures>>

\* The wipe deletes the record, best effort.
Wipes(t) ==
  \/ Keeps(t, NoRecord) /\ UNCHANGED failures
  \/ Spend /\ UNCHANGED record

\* The detector, over an enrolled record: a verified document that does not
\* list the client ends in the wipe.
Forgotten(c) == c \notin doc

LogInEnrolled(t) ==
  /\ MayLogIn(t) /\ Mine(t).shape = "enrolled" /\ ~Forgotten(Mine(t).client)
  /\ Enters(t, "sweep", Mine(t).client, FALSE)
  /\ registering' = [registering EXCEPT ![t] = "due"]
  /\ UNCHANGED <<account, record, copy, disowned, failures>>

\* A log that cannot be verified stands the detector down, and the login goes
\* on over what it holds.
LogInUnverified(t) ==
  /\ MayLogIn(t) /\ Mine(t).shape = "enrolled" /\ Forgotten(Mine(t).client)
  /\ Spend
  /\ Enters(t, "sweep", Mine(t).client, FALSE)
  /\ UNCHANGED <<account, record, registering, copy, disowned>>

DetectForgotten(t) ==
  /\ MayLogIn(t) /\ Mine(t).shape = "enrolled" /\ Forgotten(Mine(t).client)
  /\ Wipes(t)
  /\ UNCHANGED <<account, session, registering, copy, disowned>>

\* The resume, over a pending record and the verified history of the log.
\* Mutant of EverListed: only the document's head is asked.
EverListedNow(c) == c \in doc
EverListed(c) == c \in published

ResumeCompletes(t) ==
  /\ MayLogIn(t) /\ Mine(t).shape = "pending" /\ Mine(t).client \in doc
  /\ Enters(t, "escrow", Mine(t).client, TRUE)
  /\ UNCHANGED <<account, record, registering, copy, disowned, failures>>

ResumeWipes(t) ==
  /\ MayLogIn(t) /\ Mine(t).shape = "pending"
  /\ Mine(t).client \notin doc /\ EverListed(Mine(t).client)
  /\ Wipes(t)
  /\ UNCHANGED <<account, session, registering, copy, disowned>>

ResumeReruns(t) ==
  /\ MayLogIn(t) /\ Mine(t).shape = "pending"
  /\ Mine(t).client \notin doc /\ ~EverListed(Mine(t).client)
  /\ Enters(t, "commit", Mine(t).client, TRUE)
  /\ UNCHANGED <<account, record, registering, copy, disowned, failures>>

LogIn(t) ==
  \/ LogInTransient(t) \/ \E c \in Clients : LogInEnrolling(t, c)
  \/ LogInEnrolled(t) \/ LogInUnverified(t) \/ DetectForgotten(t)
  \/ ResumeCompletes(t) \/ ResumeWipes(t) \/ ResumeReruns(t)

(***************************************************************************)
(* The self-enrollment (selfEnrollStandingClient).                         *)
(***************************************************************************)
\* The persister reads the stored record and writes it back with the change;
\* with no record it writes nothing.
Persisted(t, shape) ==
  IF Mine(t) = NoRecord THEN NoRecord ELSE [Mine(t) EXCEPT !.shape = shape]

\* The record stands before the entry that publishes its client.  A fresh run
\* writes it whole, a resume through the persister.
\* Mutant of Committed: the record waits for the completion.
CommittedLate(t) == Mine(t)
Committed(t) ==
  IF session[t].resumed THEN Persisted(t, "pending")
  ELSE [client |-> Own(t), shape |-> "pending"]

Commit(t) ==
  /\ At(t, "commit")
  /\ Keeps(t, Committed(t))
  /\ Goes(t, "publish")
  /\ UNCHANGED <<account, registering, copy, disowned, failures>>

\* The add entry, through the credential's bridge.
Publish(t) ==
  /\ At(t, "publish")
  /\ doc' = doc \cup {Own(t)}
  /\ published' = published \cup {Own(t)}
  /\ Goes(t, "escrow")
  /\ UNCHANGED <<wraps, readers, entry, record, registering, copy, disowned,
                 failures>>

Escrow(t) ==
  /\ At(t, "escrow")
  /\ wraps' = wraps \cup {Own(t)}
  /\ readers' = readers \cup {Own(t)}
  /\ Goes(t, "complete")
  /\ UNCHANGED <<doc, published, entry, record, registering, copy, disowned,
                 failures>>

Complete(t) ==
  /\ At(t, "complete")
  /\ Keeps(t, Persisted(t, "enrolled"))
  /\ Goes(t, "sweep")
  /\ registering' = [registering EXCEPT ![t] = "due"]
  /\ UNCHANGED <<account, copy, disowned, failures>>

(***************************************************************************)
(* The login passes of a session with a client.                            *)
(***************************************************************************)
\* The roster's recipients become the document's.
\* Mutant of Converged: the roster keeps whom it has.
ConvergedNever == wraps \cup doc
Converged == doc

Sweep(t) ==
  /\ At(t, "sweep")
  /\ wraps' = IF Authorised(t) THEN Converged ELSE wraps
  /\ Goes(t, "cascade")
  /\ UNCHANGED <<doc, published, readers, entry, record, registering, copy,
                 disowned, failures>>

Cascade(t) ==
  /\ At(t, "cascade")
  /\ readers' = IF Authorised(t) THEN wraps ELSE readers
  /\ Goes(t, "ready")
  /\ UNCHANGED <<doc, published, wraps, entry, record, registering, copy,
                 disowned, failures>>

\* The writer registration runs beside them.  It reads the document well
\* before it writes; an entry a torn forget retired is put back, and one not
\* there yet is registered from the client's second session on.
RegistrationReads(t) ==
  /\ registering[t] = "due"
  /\ registering' = [registering EXCEPT ![t] =
                       IF Own(t) \in doc THEN "listed" ELSE "none"]
  /\ UNCHANGED <<account, record, session, copy, disowned, failures>>

Registered(t) ==
  IF ~Authorised(t) THEN {entry[Own(t)]}
  ELSE IF entry[Own(t)] = "none" THEN {"none", "live"} ELSE {"live"}

RegistrationWrites(t) ==
  /\ registering[t] = "listed"
  /\ registering' = [registering EXCEPT ![t] = "none"]
  /\ \E e \in Registered(t) : entry' = [entry EXCEPT ![Own(t)] = e]
  /\ UNCHANGED <<doc, published, wraps, readers, record, session, copy, disowned,
                 failures>>

RegistrationFails(t) ==
  /\ registering[t] # "none" /\ Spend
  /\ registering' = [registering EXCEPT ![t] = "none"]
  /\ UNCHANGED <<account, record, session, copy, disowned>>

\* An adopted user key goes into the browser's record: loaded while the
\* session is not disposed, and saved whole.
AdoptionLoads(t) ==
  /\ t \in Adopting /\ At(t, "ready") /\ ~Ladder(t) /\ copy[t] = NoRecord
  /\ Mine(t).shape = "enrolled"
  /\ copy' = [copy EXCEPT ![t] = Mine(t)]
  /\ UNCHANGED <<account, record, session, registering, disowned, failures>>

AdoptionSaves(t) ==
  /\ copy[t] # NoRecord
  /\ Keeps(t, copy[t])
  /\ copy' = [copy EXCEPT ![t] = NoRecord]
  /\ UNCHANGED <<account, session, registering, disowned, failures>>

(***************************************************************************)
(* The forget of this browser (forgetThisBrowser).                         *)
(***************************************************************************)
Rests(t) ==
  session' = [session EXCEPT ![t].at = "ready", ![t].target = NoClient,
                             ![t].last = FALSE]

\* The user confirms the last-client transition or the ordinary forget, as the
\* listing says.
StartForget(t) ==
  /\ At(t, "ready") /\ ~Ladder(t)
  /\ session' = [session EXCEPT ![t].at = "await", ![t].last = (doc = {Own(t)})]
  /\ UNCHANGED <<account, record, registering, copy, disowned, failures>>

RegistrationSettled(t) == registering[t] = "none"

AwaitRegistration(t) ==
  /\ At(t, "await") /\ RegistrationSettled(t)
  /\ Goes(t, "retireOwn")
  /\ UNCHANGED <<account, record, registering, copy, disowned, failures>>

Retires(c) ==
  entry' = [entry EXCEPT ![c] = IF @ = "live" THEN "retired" ELSE @]

\* Best effort.
RetireOwn(t) ==
  /\ At(t, "retireOwn")
  /\ \/ Authorised(t) /\ Retires(Own(t)) /\ UNCHANGED failures
     \/ ~Authorised(t) /\ UNCHANGED <<entry, failures>>
     \/ Spend /\ UNCHANGED entry
  /\ Goes(t, "rotateOff")
  /\ UNCHANGED <<doc, published, wraps, readers, record, registering, copy, disowned>>

\* The ceremony's first read refuses a view that has gone stale.
StaleView(t) == (doc = {Own(t)}) # session[t].last

RotateOff(t) ==
  /\ At(t, "rotateOff") /\ Authorised(t)
  /\ IF StaleView(t) THEN wraps' = wraps /\ Rests(t)
     ELSE wraps' = wraps \ {Own(t)} /\ Goes(t, "fanOut")
  /\ UNCHANGED <<doc, published, readers, entry, record, registering, copy,
                 disowned, failures>>

FanOut(t) ==
  /\ At(t, "fanOut") /\ Authorised(t)
  /\ readers' = wraps
  /\ Goes(t, "remove")
  /\ UNCHANGED <<doc, published, wraps, entry, record, registering, copy, disowned,
                 failures>>

\* The removal entry, by the credential's ladder.
Remove(t) ==
  /\ At(t, "remove")
  /\ doc' = doc \ {Own(t)}
  /\ Goes(t, "wipe")
  /\ UNCHANGED <<published, wraps, readers, entry, record, registering, copy,
                 disowned, failures>>

\* The session is disposed, and the wipe is last.  A registration still under
\* way is refused by the server from here on.
Wipe(t) ==
  /\ At(t, "wipe")
  /\ Wipes(t)
  /\ session' = [session EXCEPT ![t] = Out]
  /\ registering' = [registering EXCEPT ![t] = "none"]
  /\ UNCHANGED <<account, copy, disowned>>

(***************************************************************************)
(* The disconnect of another client (revokeEnrolledClient).                *)
(***************************************************************************)
StartDisconnect(t, c) ==
  /\ At(t, "ready") /\ c \in doc /\ c # Own(t)
  /\ session' = [session EXCEPT ![t].at = "strike", ![t].target = c]
  /\ UNCHANGED <<account, record, registering, copy, disowned, failures>>

\* The document edit first; what is behind it may tear.
Strike(t) ==
  /\ At(t, "strike") /\ Authorised(t)
  /\ doc' = doc \ {session[t].target}
  /\ Goes(t, "rekey")
  /\ UNCHANGED <<published, wraps, readers, entry, record, registering, copy,
                 disowned, failures>>

Rekey(t) ==
  /\ At(t, "rekey") /\ Authorised(t)
  /\ wraps' = wraps \ {session[t].target}
  /\ Goes(t, "spread")
  /\ UNCHANGED <<doc, published, readers, entry, record, registering, copy,
                 disowned, failures>>

Spread(t) ==
  /\ At(t, "spread") /\ Authorised(t)
  /\ readers' = wraps
  /\ Goes(t, "retire")
  /\ UNCHANGED <<doc, published, wraps, entry, record, registering, copy, disowned,
                 failures>>

RetireRevoked(t) ==
  /\ At(t, "retire")
  /\ \/ Authorised(t) /\ Retires(session[t].target) /\ UNCHANGED failures
     \/ ~Authorised(t) /\ UNCHANGED <<entry, failures>>
     \/ Spend /\ UNCHANGED entry
  /\ Rests(t)
  /\ UNCHANGED <<doc, published, wraps, readers, record, registering, copy, disowned>>

(***************************************************************************)
(* What ends a session or a step of it.                                    *)
(***************************************************************************)
LogOut(t) ==
  /\ At(t, "ready") /\ registering[t] = "none"
  /\ session' = [session EXCEPT ![t] = Out]
  /\ UNCHANGED <<account, record, registering, copy, disowned, failures>>

\* The no-unlock-material grade, from the login page.
ForgetBrowserData(t) ==
  /\ At(t, "out")
  /\ \A u \in Tabs : BrowserOf[u] = BrowserOf[t] => At(u, "out") /\ copy[u] = NoRecord
  /\ Mine(t) # NoRecord
  /\ disowned' = disowned \cup {Mine(t).client}
  /\ Keeps(t, NoRecord)
  /\ UNCHANGED <<account, session, registering, copy, failures>>

\* A closed tab takes everything it was doing with it.
Close(t) ==
  /\ ~At(t, "out") /\ Spend
  /\ session' = [session EXCEPT ![t] = Out]
  /\ registering' = [registering EXCEPT ![t] = "none"]
  /\ copy' = [copy EXCEPT ![t] = NoRecord]
  /\ UNCHANGED <<account, record, disowned>>

\* A ceremony's call fails, or the client lost its authority under it; a login
\* pass is best effort, and an enrollment ends the login.
Fails(t) ==
  /\ session[t].at \in (Forgetting \ {"await", "retireOwn", "wipe"})
                       \cup (Disconnecting \ {"retire"})
  /\ \/ ~Authorised(t) /\ UNCHANGED failures
     \/ Spend
  /\ Rests(t)
  /\ UNCHANGED <<account, record, registering, copy, disowned>>

PassFails(t) ==
  /\ session[t].at \in LoginPasses /\ Spend
  /\ Goes(t, "ready")
  /\ UNCHANGED <<account, record, registering, copy, disowned>>

EnrollmentFails(t) ==
  /\ session[t].at \in Enrollment /\ Spend
  /\ session' = [session EXCEPT ![t] = Out]
  /\ UNCHANGED <<account, record, registering, copy, disowned>>

Step(t) ==
  \/ Commit(t) \/ Publish(t) \/ Escrow(t) \/ Complete(t)
  \/ Sweep(t) \/ Cascade(t)
  \/ AwaitRegistration(t) \/ RetireOwn(t) \/ RotateOff(t) \/ FanOut(t)
  \/ Remove(t) \/ Wipe(t)
  \/ Strike(t) \/ Rekey(t) \/ Spread(t) \/ RetireRevoked(t)

Registers(t) == RegistrationReads(t) \/ RegistrationWrites(t)

Next ==
  \E t \in Tabs :
    \/ LogIn(t) \/ LogOut(t)
    \/ Step(t) \/ Registers(t)
    \/ AdoptionLoads(t) \/ AdoptionSaves(t) \/ StartForget(t)
    \/ \E c \in Clients : StartDisconnect(t, c)
    \/ ForgetBrowserData(t)
    \/ RegistrationFails(t) \/ Close(t) \/ Fails(t) \/ PassFails(t)
    \/ EnrollmentFails(t)

Spec == Init /\ [][Next]_vars

\* What is in flight goes on: every step of the session's ceremony, and of what
\* runs beside it, awaits a call that returns or fails.
FairSpec ==
  /\ Spec
  /\ \A t \in Tabs :
       /\ WF_vars(Step(t)) /\ WF_vars(Fails(t))
       /\ WF_vars(Registers(t)) /\ WF_vars(AdoptionSaves(t))

(***************************************************************************)
(* Properties.                                                             *)
(***************************************************************************)
\* No phantom: a client the document lists is one whose keys some browser's
\* record still holds (persist before publish, wipe behind the removal), but
\* for the browsers told to drop everything.  Every variable keeps its shape.
NoPhantom ==
  TypeOK /\ doc \ disowned \subseteq {record[b].client : b \in Browsers}

\* Nothing beside it reverses a removal.  A client that was struck from the
\* document is never listed again, by a torn enrollment the login runs again
\* neither; and an entry a forget retired is not put back while the forget goes
\* on to its removal entry, since nothing would ever retire it again.
RemovalsStand ==
  [][/\ \A c \in published \ doc : c \notin doc'
     /\ \A t \in Tabs :
          /\ session[t].at \in {"rotateOff", "fanOut", "remove"}
          /\ session'[t].at \in {"fanOut", "remove", "wipe"}
          /\ entry[Own(t)] = "retired"
          => entry'[Own(t)] = "retired"]_vars

\* Wherever a disconnect or a forget tore, the client it struck ends up off the
\* user key and off every collection, as long as some other client's login
\* comes again.
RemovedReadsNoMore ==
  ([]<>\E t \in Tabs : At(t, "sweep") /\ Authorised(t)) =>
    \A c \in Clients : c \in published \ doc ~> c \notin wraps \cup readers

====
