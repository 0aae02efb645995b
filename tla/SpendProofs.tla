---- MODULE SpendProofs ----
(***************************************************************************)
(* What spending a recovery code guarantees for every choice of            *)
(* passphrases, every number of runs and failures, and whatever another    *)
(* client does meanwhile, with one tab open.                               *)
(***************************************************************************)
EXTENDS RecoverySpend, TLAPS

OneTab == \A t, u \in Tabs : t = u

(***************************************************************************)
(* The inductive invariant.                                                *)
(***************************************************************************)
Entry == [lists : SUBSET Creds, revealed : BOOLEAN, ladder : 0..MaxRuns]
Registries == [sealed : Nat \ {0}, names : SUBSET Creds,
               phrase : Phrases \cup {NoPhrase}, standing : BOOLEAN]
Records == [run : 0..MaxRuns, code : 0..MaxRuns, head : Nat, pending : BOOLEAN]
Jobs == [at : Stages, phase : {"tail", "again", "resume", "confirm"},
         p : Phrases \cup {NoPhrase}, run : 0..MaxRuns, code : 0..MaxRuns,
         doc : Nat, head : Nat, from : Nat, key : Nat, standing : BOOLEAN,
         reg : {"written", "not-owed", "failed"},
         arm : {"backfill", "upgrade", "drop", "none"},
         drop : SUBSET Creds, live : BOOLEAN]

\* Every variable keeps its shape, as a value rather than field by field.
AccountTyped ==
  /\ remember \in BOOLEAN
  /\ log \in Seq(Entry) /\ Len(log) >= 2
  /\ epochs \in Seq(SUBSET Creds) /\ Len(epochs) >= 1
  /\ served \in [Phrases -> 0..MaxRuns]
  /\ spaces \in SUBSET Creds
  /\ registry \in Registries /\ registry.sealed <= Len(epochs)
  /\ local \in [Phrases -> Records]
  /\ \A p \in Phrases : local[p].head <= Len(log)
  /\ saved \in SUBSET {Code(r) : r \in Runs}
  /\ runs \in 0..MaxRuns /\ acts \in 0..MaxActs /\ failures \in 0..MaxFailures
Typed ==
  /\ AccountTyped
  /\ job \in [Tabs -> Jobs]
  /\ \A t \in Tabs :
       /\ job[t].doc <= Len(log) /\ job[t].head <= Len(log)
       /\ job[t].from <= Len(epochs) /\ job[t].key <= Len(epochs)

\* The code is struck; a credential the document listed at some entry.
Pivoted == Spent \notin Doc.lists
Was(c) == EverListed(c, Len(log))

\* The log.  One entry strikes the code, for good, and adds the one client and
\* the one replacement code there ever are; a client that is out stays out.
Before == Standing \cup {Spent}
LogInv ==
  /\ log[1].lists = Standing
  /\ \A i \in 1..Len(log) :
       /\ Spent \in log[i].lists => log[i].lists = Before /\ log[i].ladder = 0
       /\ i >= 2 /\ Spent \notin log[i].lists =>
            /\ Pivoted
            /\ \A r \in Runs : Was(Client(r)) => EverListed(Client(r), i)
       /\ \A r \in Runs : Client(r) \notin log[i].lists /\ EverListed(Client(r), i)
                            => Client(r) \notin Doc.lists
  /\ \A r, s \in Runs :
       /\ Was(Client(r)) /\ Was(Client(s)) => r = s
       /\ Was(Code(r)) /\ Was(Code(s)) => r = s
  /\ remember /\ Pivoted => \E r \in Runs : Was(Client(r))

\* Before it the account is as it was.
Untouched ==
  /\ epochs = <<Before>>
  /\ registry.sealed = 1 /\ registry.names = {Old, Spent}
  /\ {Old, Spent} \subseteq spaces

\* What stage a tab is at tells what its other fields may be.
HookStages == {"record", "keep", "code", "pivot"}
TailStages == {"escrow", "escrowCode", "wrap", "stand", "rotate", "reseal", "append",
               "prepare", "registry", "delete", "spentSpace", "shown", "settle", "saved",
               "read", "readCode", "session"}
OpenStages == TailStages \ {"escrow", "read", "append", "saved", "session"}
RememberedStages == {"keep", "escrow", "escrowCode", "wrap", "stand", "rotate", "reseal",
                     "prepare", "read", "readCode", "session"}
KeyStages == {"reseal", "registry", "delete", "spentSpace", "shown"}
Staged(j) ==
  /\ j.at # "idle" => j.p \in Phrases /\ j.run \in 1..runs
  /\ j.at \in {"reveal"} \cup HookStages \cup (TailStages \ {"session"}) => j.code \in Runs
  /\ j.at \in RememberedStages => remember
  /\ j.at = "append" => ~remember
  /\ j.at \in {"idle", "probe", "reveal", "escrow", "escrowCode"} \cup HookStages
       => j.phase = "tail" /\ ~j.live
  /\ j.at \in {"read", "readCode"} => j.phase = "resume" /\ j.from = 0
  /\ j.at \in {"wrap", "stand"} => (j.live <=> j.phase = "resume")
  /\ j.at = "rotate" => ~j.live
  /\ j.at = "prepare" => j.live
  /\ j.live => remember /\ j.from = 0 /\ j.key >= 1
  /\ j.from <= j.key
  /\ j.at \in KeyStages => j.key >= 1
  /\ j.arm = "none" => j.at \in {"shown", "settle", "saved"} /\ j.reg = "failed"
  /\ j.reg # "failed" => j.at \in {"delete", "spentSpace", "shown", "settle", "saved"}

\* A tab before the log and the browser's records: up to the entry its run is
\* its own; behind the entry the record under its passphrase is the one its run
\* left, and its client is on the roster once the first escrow is behind it.
OnLog(t) ==
  LET j == job[t] IN
  /\ j.at \in HookStages => ~Pivoted /\ j.head >= 2
  /\ j.at \in HookStages \ {"record"} => served[j.p] = j.run
  /\ remember /\ j.at \in {"code", "pivot"} => local[j.p] = PendingRecord(t)
  /\ j.at \in {"probe", "reveal"} \cup HookStages =>
       \A q \in Phrases : local[q].run = j.run => q = j.p
  /\ j.at \in TailStages => Pivoted
  /\ remember /\ j.at \in TailStages =>
       /\ local[j.p] # NoRecord /\ local[j.p].run = j.run /\ Was(Client(j.run))
       /\ j.at # "session" => Was(Code(j.code))
  /\ remember /\ j.at \in OpenStages /\ Client(j.run) \in Doc.lists
       => Client(j.run) \in Current
  /\ j.at = "append" => Doc.lists \subseteq {Other} \cup Successors(t)

\* A tab before the registry.
OnRegistry(t) ==
  LET j == job[t] IN
  /\ registry.sealed = j.from => j.key \in {j.from, Len(epochs)}
  /\ j.arm \in {"upgrade", "drop"} => Spent \notin registry.names /\ registry.phrase = j.p
  /\ j.reg # "failed" => registry.names \cap {Old, Spent} = {} /\ registry.phrase = j.p
  /\ j.drop \subseteq {Old} /\ (Old \in j.drop => Old \notin registry.names)

\* The browser's records.
RecordInv ==
  /\ \A p \in Phrases : local[p] # NoRecord =>
       /\ remember
       /\ local[p].run \in 1..runs /\ local[p].head >= 2
       /\ local[p].pending => local[p].code \in Runs
       /\ local[p].pending /\ Was(Client(local[p].run)) => Was(Code(local[p].code))
       /\ ~local[p].pending =>
            /\ Was(Client(local[p].run))
            /\ registry.names \cap {Old, Spent} = {} /\ registry.phrase = p
  /\ \A p, q \in Phrases : local[p].run = local[q].run /\ local[p].run # 0 => p = q

\* The roster lets in nobody who is out, and not the spent code once its
\* successor is; a passphrase let in before it is listed opens every epoch.
RosterInv ==
  /\ \A r \in Runs :
       /\ Client(r) \in Current => Client(r) \in Doc.lists
       /\ StruckOut(Client(r)) => Spent \notin Current
  /\ \A p \in Phrases : Phrase(p) \in Current /\ Phrase(p) \notin Doc.lists => Opens(Phrase(p))

\* Past the entry one record reaches the account and keeps the code.
SpendInv ==
  remember /\ Pivoted /\ ~Disconnected =>
    \E p \in Phrases :
      /\ Listed(p) /\ served[p] # 0
      /\ Client(local[p].run) \in Current \/ (local[p].pending /\ Opens(Spent))
      /\ \A c \in Runs : Was(Code(c)) =>
           Code(c) \in saved \/ (local[p].pending /\ local[p].code = c)

RegistryInv ==
  /\ \A r \in Runs : Code(r) \in registry.names => Spent \notin registry.names
  /\ Old \in registry.names => Old \in spaces
  /\ LET opening == (Doc.lists \cap Current) \ {Spent, Other} IN
       opening # {} => opening \cap epochs[registry.sealed] # {}
  /\ Doc.ladder # 0 =>
       \E p \in Phrases : Phrase(p) \in Doc.lists /\ served[p] = Doc.ladder

AccountInv ==
  /\ LogInv /\ (~Pivoted => Untouched)
  /\ RecordInv /\ RosterInv /\ SpendInv /\ RegistryInv
JobInv(t) == Staged(job[t]) /\ OnLog(t) /\ OnRegistry(t)
Inv == Typed /\ AccountInv /\ \A t \in Tabs : JobInv(t)

-----------------------------------------------------------------------------
(***************************************************************************)
(* Credentials, the log and the roster.                                    *)
(***************************************************************************)
\* No credential is another of a different kind, and what is listed by
\* commitment and what the entry strikes goes by the kind.
LEMMA CredsApart ==
  /\ Old # Spent /\ Old # Other /\ Spent # Other
  /\ \A r \in Nat : {Client(r), Code(r)} \cap {Old, Spent, Other} = {}
  /\ \A p : Phrase(p) \notin {Old, Spent, Other}
  /\ \A r, s \in Nat : Client(r) # Code(s)
  /\ \A r, s \in Nat : (Client(r) = Client(s) => r = s) /\ (Code(r) = Code(s) => r = s)
  /\ \A p : \A r \in Nat : Phrase(p) # Client(r) /\ Phrase(p) # Code(r)
  /\ \A p, q : Phrase(p) = Phrase(q) => p = q
  BY DEF Old, Spent, Other, Client, Code, Phrase

LEMMA CredKinds ==
  /\ ByCommitment(Old) /\ ~ByCommitment(Spent) /\ ~ByCommitment(Other)
  /\ \A r \in Nat : ~ByCommitment(Client(r)) /\ ~ByCommitment(Code(r))
  /\ \A p : ByCommitment(Phrase(p))
  BY DEF ByCommitment, Old, Spent, Other, Client, Code, Phrase

LEMMA CredsStruck ==
  /\ {Old, Spent} \subseteq Struck /\ Other \notin Struck
  /\ \A r \in Nat : Client(r) \notin Struck /\ Code(r) \notin Struck
  /\ \A p \in Phrases : Phrase(p) \in Struck
  BY DEF Struck, Creds, Old, Spent, Other, Client, Code, Phrase

LEMMA CredsTyped ==
  /\ {Old, Spent, Other} \subseteq Creds
  /\ \A r \in Runs : Client(r) \in Creds /\ Code(r) \in Creds
  /\ \A p \in Phrases : Phrase(p) \in Creds
  /\ Standing \subseteq {Old, Other} /\ Old \in Standing
  BY DEF Creds, Standing

LEMMA Bounds ==
  /\ MaxRuns \in Nat /\ MaxActs \in Nat /\ MaxFailures \in Nat
  /\ Runs = 1..MaxRuns /\ Runs \subseteq Nat
  BY SpendAssumption DEF Runs

\* What the types say of the account document and the roster's current epoch.
LEMMA Shapes ==
  ASSUME Typed
  PROVE  /\ Doc \in Entry /\ Doc.lists \in SUBSET Creds /\ Doc.ladder \in 0..MaxRuns
         /\ Current \in SUBSET Creds
         /\ Len(log) \in Nat /\ Len(log) >= 2 /\ Len(epochs) \in Nat /\ Len(epochs) >= 1
         /\ \A i \in 1..Len(log) : log[i] \in Entry
         /\ \A i \in 1..Len(epochs) : epochs[i] \in SUBSET Creds
<1>1. Len(log) \in Nat /\ Len(log) >= 2 /\ Len(epochs) \in Nat /\ Len(epochs) >= 1
  BY DEF Typed, AccountTyped
<1>2. \A i \in 1..Len(log) : log[i] \in Entry
  BY DEF Typed, AccountTyped
<1>3. \A i \in 1..Len(epochs) : epochs[i] \in SUBSET Creds
  BY DEF Typed, AccountTyped
<1>4. Doc \in Entry
  BY <1>1, <1>2 DEF Doc
<1>5. Current \in SUBSET Creds
  BY <1>1, <1>3 DEF Current
<1> QED
  BY <1>1, <1>2, <1>3, <1>4, <1>5 DEF Entry

LEMMA Published ==
  ASSUME Typed, NEW d \in Entry, Publishes(d)
  PROVE  /\ log' \in Seq(Entry) /\ Len(log') = Len(log) + 1
         /\ \A i \in 1..Len(log) : log'[i] = log[i]
         /\ log'[Len(log) + 1] = d /\ Doc' = d
<1>1. Len(log) \in Nat
  BY Shapes
<1>2. log' = Append(log, d) /\ log \in Seq(Entry)
  BY DEF Typed, AccountTyped, Publishes
<1>3. /\ log' \in Seq(Entry) /\ Len(log') = Len(log) + 1
      /\ \A i \in 1..Len(log) : log'[i] = log[i]
      /\ log'[Len(log) + 1] = d
  BY <1>1, <1>2
<1> QED
  BY <1>3 DEF Doc

LEMMA Appended ==
  ASSUME Typed, NEW s \in SUBSET Creds, epochs' = Append(epochs, s)
  PROVE  /\ epochs' \in Seq(SUBSET Creds) /\ Len(epochs') = Len(epochs) + 1
         /\ \A i \in 1..Len(epochs) : epochs'[i] = epochs[i]
         /\ epochs'[Len(epochs) + 1] = s /\ Current' = s
<1>1. Len(epochs) \in Nat /\ epochs \in Seq(SUBSET Creds)
  BY Shapes DEF Typed, AccountTyped
<1>2. /\ epochs' \in Seq(SUBSET Creds) /\ Len(epochs') = Len(epochs) + 1
      /\ \A i \in 1..Len(epochs) : epochs'[i] = epochs[i]
      /\ epochs'[Len(epochs) + 1] = s
  BY <1>1
<1> QED
  BY <1>2 DEF Current

LEMMA WrappedShape ==
  ASSUME Typed, NEW s \in SUBSET Creds
  PROVE  /\ Wrapped(s) \in Seq(SUBSET Creds) /\ Len(Wrapped(s)) = Len(epochs)
         /\ \A i \in 1..Len(epochs) : Wrapped(s)[i] = epochs[i] \cup s
<1>1. Len(epochs) \in Nat /\ \A i \in 1..Len(epochs) : epochs[i] \in SUBSET Creds
  BY Shapes
<1>2. Wrapped(s) = [i \in 1..Len(epochs) |-> epochs[i] \cup s]
  BY DEF Wrapped
<1>3. Wrapped(s) \in [1..Len(epochs) -> SUBSET Creds]
  BY <1>1, <1>2
<1>4. Wrapped(s) \in Seq(SUBSET Creds) /\ Len(Wrapped(s)) = Len(epochs)
  BY <1>1, <1>2, <1>3
<1> QED
  BY <1>1, <1>2, <1>4

LEMMA RecipientsShape ==
  ASSUME Typed, NEW l \in SUBSET Creds
  PROVE  Recipients(l) \in SUBSET Creds /\ Recipients(l) \subseteq l
  BY DEF Recipients

\* A rotation leaves the earlier epochs, and the current one is whom the
\* document lists.
LEMMA Rotated ==
  ASSUME Typed, Rotates
  PROVE  /\ epochs' \in Seq(SUBSET Creds)
         /\ Len(epochs') \in Nat /\ Len(epochs') >= Len(epochs)
         /\ \A i \in 1..Len(epochs) : epochs'[i] = epochs[i]
         /\ Current' = Recipients(Doc.lists)
<1>1. Recipients(Doc.lists) \in SUBSET Creds /\ Len(epochs) \in Nat
  BY Shapes, RecipientsShape
<1>2. CASE Recipients(Doc.lists) = Current
  BY <1>1, <1>2 DEF Rotates, Current, Typed, AccountTyped
<1>3. CASE Recipients(Doc.lists) # Current
  <2>1. epochs' = Append(epochs, Recipients(Doc.lists))
    BY <1>3 DEF Rotates
  <2> QED
    BY <1>1, <2>1, Appended
<1> QED
  BY <1>2, <1>3

\* An escrow adds its recipient to every epoch.
LEMMA Escrowed ==
  ASSUME Typed, NEW c \in Creds, NEW o, Escrows(o, c)
  PROVE  /\ epochs' \in Seq(SUBSET Creds) /\ Len(epochs') = Len(epochs)
         /\ \A i \in 1..Len(epochs) : epochs'[i] = epochs[i] \cup {c}
         /\ Current' = Current \cup {c}
         /\ Opens(o) /\ o \in Current
<1>1. epochs' = Wrapped({c}) /\ Opens(o)
  BY DEF Escrows
<1>2. Len(epochs) \in 1..Len(epochs)
  BY Shapes
<1>3. /\ epochs' \in Seq(SUBSET Creds) /\ Len(epochs') = Len(epochs)
      /\ \A i \in 1..Len(epochs) : epochs'[i] = epochs[i] \cup {c}
  BY <1>1, WrappedShape
<1> QED
  BY <1>1, <1>2, <1>3 DEF Current, Opens

\* A tab moved to a stage keeps its other fields.
LEMMA Went ==
  ASSUME Typed, NEW t \in Tabs, NEW at \in Stages, Goes(t, at)
  PROVE  /\ job' \in [Tabs -> Jobs] /\ job'[t] = [job[t] EXCEPT !.at = at]
         /\ \A u \in Tabs : /\ job'[u].doc = job[u].doc /\ job'[u].head = job[u].head
                            /\ job'[u].from = job[u].from /\ job'[u].key = job[u].key
<1> DEFINE j == [job[t] EXCEPT !.at = at]
<1>1. job \in [Tabs -> Jobs] /\ job[t] \in Jobs
  BY DEF Typed, AccountTyped
<1>2. /\ j \in Jobs
      /\ j.doc = job[t].doc /\ j.head = job[t].head /\ j.from = job[t].from /\ j.key = job[t].key
  BY <1>1 DEF Jobs
<1>3. job' = [job EXCEPT ![t] = j]
  BY <1>1 DEF Goes
<1> HIDE DEF j
<1>4. job' \in [Tabs -> Jobs] /\ job'[t] = j /\ \A u \in Tabs : u # t => job'[u] = job[u]
  BY <1>1, <1>2, <1>3
<1> QED
  BY <1>2, <1>4 DEF j

\* What a tab that ends its run holds.
LEMMA IdleShape ==
  /\ Idle \in Jobs
  /\ Idle.at = "idle" /\ Idle.phase = "tail" /\ Idle.run = 0 /\ Idle.code = 0
  /\ Idle.doc = 0 /\ Idle.head = 0 /\ Idle.from = 0 /\ Idle.key = 0
  /\ Idle.reg = "failed" /\ Idle.arm = "backfill" /\ Idle.drop = {} /\ ~Idle.live
  BY Bounds DEF Idle, Jobs, Stages

\* A tab given a whole new job.
LEMMA Given ==
  ASSUME Typed, NEW t \in Tabs, NEW j \in Jobs, job' = [job EXCEPT ![t] = j]
  PROVE  /\ job' \in [Tabs -> Jobs] /\ job'[t] = j
         /\ \A u \in Tabs : u # t => job'[u] = job[u]
  BY DEF Typed, AccountTyped

-----------------------------------------------------------------------------
(***************************************************************************)
(* What a published entry, an escrow and a rotation keep.                  *)
(***************************************************************************)
\* The spent code and the new credentials are listed one after the other.
LEMMA ListedApart ==
  ASSUME Typed, LogInv, NEW r \in Runs
  PROVE  /\ Was(Client(r)) \/ Was(Code(r)) => Pivoted
         /\ ~Pivoted => \A i \in 1..Len(log) : i >= 2 => Spent \in log[i].lists
         /\ Pivoted \/ (Doc.lists = Before /\ Doc.ladder = 0)
         /\ Client(r) \in Doc.lists => Was(Client(r))
<1>1. Len(log) \in 1..Len(log) /\ r \in Nat
  BY Shapes, Bounds
<1>2. Client(r) \notin Before /\ Code(r) \notin Before
  BY <1>1, CredsTyped, CredsApart DEF Before
<1>3. ASSUME NEW c \in {Client(r), Code(r)}, Was(c) PROVE Pivoted
  <2>1. PICK i \in 1..Len(log) : c \in log[i].lists
    BY <1>3 DEF Was, EverListed
  <2>2. log[i].lists # Before /\ log[i].lists # Standing
    BY <1>2, <2>1, <1>3 DEF Before
  <2>3. i # 1 /\ Spent \notin log[i].lists
    BY <2>2 DEF LogInv
  <2> QED
    BY <2>3, <1>1 DEF LogInv
<1>4. ~Pivoted => \A i \in 1..Len(log) : i >= 2 => Spent \in log[i].lists
  BY DEF LogInv
<1>5. Pivoted \/ (Doc.lists = Before /\ Doc.ladder = 0)
  BY <1>1 DEF LogInv, Pivoted, Doc
<1>6. Client(r) \in Doc.lists => Was(Client(r))
  BY <1>1 DEF Was, EverListed, Doc
<1> QED
  BY <1>3, <1>4, <1>5, <1>6

\* An entry that neither strikes nor lists a code or a client for the first
\* time: every one but the pivot.
Quiet(d) ==
  /\ Spent \in d.lists <=> Spent \in Doc.lists
  /\ Spent \in d.lists => d.lists = Before /\ d.ladder = 0
  /\ \A r \in Runs : /\ Client(r) \in d.lists => Client(r) \in Doc.lists
                     /\ Code(r) \in d.lists => Code(r) \in Doc.lists

LEMMA QuietEntry ==
  ASSUME Typed, LogInv, NEW d \in Entry, Publishes(d), Quiet(d), remember' = remember
  PROVE  /\ LogInv' /\ (Pivoted' <=> Pivoted)
         /\ \A r \in Runs : /\ Was(Client(r))' <=> Was(Client(r))
                            /\ Was(Code(r))' <=> Was(Code(r))
<1> DEFINE n == Len(log)
<1>1. /\ n \in Nat /\ n >= 2 /\ Len(log') = n + 1 /\ log'[n + 1] = d /\ Doc' = d
      /\ \A i \in 1..n : log'[i] = log[i]
      /\ Doc = log[n]
  BY Shapes, Published DEF Doc
<1>2. \A c, k : k \in 1..n => (EverListed(c, k)' <=> EverListed(c, k))
  <2> SUFFICES ASSUME NEW c, NEW k \in 1..n
               PROVE  (\E i \in 1..k : c \in log'[i].lists) <=> (\E i \in 1..k : c \in log[i].lists)
    BY DEF EverListed
  <2>1. \A i \in 1..k : log'[i] = log[i]
    BY <1>1
  <2> QED
    BY <2>1
<1>3. \A c : (\E i \in 1..(n + 1) : c \in log'[i].lists) <=> Was(c) \/ c \in d.lists
  <2> SUFFICES ASSUME NEW c
               PROVE  (\E i \in 1..(n + 1) : c \in log'[i].lists) <=>
                        ((\E i \in 1..n : c \in log[i].lists) \/ c \in d.lists)
    BY DEF EverListed, Was
  <2> QED
    BY <1>1
<1>4. \A c : Was(c)' <=> Was(c) \/ c \in d.lists
  BY <1>1, <1>3 DEF Was, EverListed
<1>5. Pivoted' <=> Pivoted
  BY <1>1 DEF Pivoted, Quiet
<1>6. \A r \in Runs : (Was(Client(r))' <=> Was(Client(r))) /\ (Was(Code(r))' <=> Was(Code(r)))
  <2>1. \A c : c \in Doc.lists => Was(c)
    BY <1>1 DEF Was, EverListed
  <2> QED
    BY <1>4, <2>1 DEF Quiet
<1>7. ASSUME NEW i \in 1..(n + 1)
      PROVE  /\ Spent \in log'[i].lists => log'[i].lists = Before /\ log'[i].ladder = 0
             /\ i >= 2 /\ Spent \notin log'[i].lists =>
                  /\ Pivoted'
                  /\ \A r \in Runs : Was(Client(r))' => EverListed(Client(r), i)'
             /\ \A r \in Runs : Client(r) \notin log'[i].lists /\ EverListed(Client(r), i)'
                                  => Client(r) \notin d.lists
  <2>1. CASE i \in 1..n
    <3>1. log'[i] = log[i]
      BY <1>1, <2>1
    <3>2. \A r \in Runs : Client(r) \in d.lists => Client(r) \in Doc.lists
      BY DEF Quiet
    <3>3. \A r \in Runs : EverListed(Client(r), i)' <=> EverListed(Client(r), i)
      BY <1>2, <2>1
    <3> QED
      BY <2>1, <3>1, <3>2, <3>3, <1>5, <1>6 DEF LogInv
  <2>2. CASE i = n + 1
    <3>1. log'[i] = d /\ (\A c : EverListed(c, i)' <=> Was(c) \/ c \in d.lists)
      BY <1>1, <1>3, <2>2 DEF EverListed
    <3>2. \A r \in Runs : Was(Client(r))' => EverListed(Client(r), i)'
      BY <3>1, <1>4
    <3>3. Spent \notin d.lists => Pivoted'
      BY <1>1 DEF Pivoted
    <3> QED
      BY <3>1, <3>2, <3>3 DEF Quiet
  <2> QED
    BY <1>1, <2>1, <2>2
<1>8. log'[1].lists = Standing
  BY <1>1 DEF LogInv
<1>9. \A r, s \in Runs : /\ Was(Client(r))' /\ Was(Client(s))' => r = s
                         /\ Was(Code(r))' /\ Was(Code(s))' => r = s
  BY <1>6 DEF LogInv
<1>10. remember' /\ Pivoted' => \E r \in Runs : Was(Client(r))'
  BY <1>5, <1>6 DEF LogInv
<1> QED
  BY <1>1, <1>5, <1>6, <1>7, <1>8, <1>9, <1>10 DEF LogInv, Before, Standing

LEMMA EscrowKeeps ==
  ASSUME Typed, LogInv, RosterInv, SpendInv, RegistryInv,
         NEW c \in Creds, NEW o, Escrows(o, c),
         c # Spent, \A r \in Runs : c = Client(r) => c \in Doc.lists,
         UNCHANGED <<remember, log, served, spaces, registry, local, saved>>
  PROVE  RosterInv' /\ SpendInv' /\ RegistryInv'
<1>1. /\ Len(epochs) \in Nat /\ Len(epochs) >= 1 /\ Len(epochs') = Len(epochs)
      /\ \A i \in 1..Len(epochs) : epochs'[i] = epochs[i] \cup {c}
      /\ Current' = Current \cup {c}
      /\ registry.sealed \in 1..Len(epochs)
  BY Shapes, Escrowed DEF Typed, AccountTyped, Registries
<1>2. Doc' = Doc /\ (\A x : Was(x)' <=> Was(x)) /\ (\A x : StruckOut(x)' <=> StruckOut(x))
  BY DEF Doc, Was, EverListed, StruckOut
<1>3. \A x : (Opens(x) => Opens(x)') /\ Opens(c)'
  BY <1>1 DEF Opens
<1>4. RosterInv'
  BY <1>1, <1>2, <1>3 DEF RosterInv
<1>5. SpendInv'
  <2>1. (Pivoted' <=> Pivoted) /\ (Disconnected' <=> Disconnected)
    BY <1>2 DEF Pivoted, Disconnected
  <2>2. \A p : (Listed(p)' <=> Listed(p)) /\ local' = local /\ served' = served /\ saved' = saved
               /\ remember' = remember
    BY <1>2 DEF Listed
  <2> QED
    BY <1>1, <1>2, <1>3, <2>1, <2>2 DEF SpendInv
<1>6. RegistryInv'
  <2> DEFINE opening == (Doc.lists \cap Current) \ {Spent, Other}
             after == (Doc.lists \cap (Current \cup {c})) \ {Spent, Other}
  <2>1. after # {} => after \cap epochs'[registry.sealed] # {}
    <3>1. epochs'[registry.sealed] = epochs[registry.sealed] \cup {c}
      BY <1>1
    <3>2. CASE opening # {}
      BY <3>1, <3>2 DEF RegistryInv
    <3>3. CASE opening = {}
      BY <3>1, <3>3
    <3> QED
      BY <3>2, <3>3
  <2> QED
    BY <1>1, <1>2, <2>1 DEF RegistryInv
<1> QED
  BY <1>4, <1>5, <1>6

\* Past the entry a rotation lets in every listed client, and not the code.
LEMMA RotationKeeps ==
  ASSUME Typed, LogInv, RosterInv, SpendInv, Rotates, Pivoted,
         UNCHANGED <<remember, log, served, local, saved>>
  PROVE  /\ RosterInv' /\ SpendInv'
         /\ \A r \in Runs : Client(r) \in Doc.lists => Client(r) \in Current'
<1>1. Current' = Recipients(Doc.lists)
  BY Rotated
<1>2. /\ Doc' = Doc /\ (Pivoted' <=> Pivoted) /\ (Disconnected' <=> Disconnected)
      /\ (\A x : Was(x)' <=> Was(x)) /\ (\A x : StruckOut(x)' <=> StruckOut(x))
      /\ (\A p : Listed(p)' <=> Listed(p))
  BY DEF Doc, Pivoted, Was, EverListed, StruckOut, Disconnected, Listed
<1>3. \A r \in Runs : Client(r) \in Doc.lists => Client(r) \in Recipients(Doc.lists)
  BY Bounds, CredKinds DEF Recipients
<1>4. RosterInv'
  BY <1>1, <1>2 DEF RosterInv, Recipients, Pivoted
<1>5. SpendInv'
  <2> SUFFICES ASSUME remember, ~Disconnected
               PROVE  \E p \in Phrases :
                        /\ Listed(p) /\ served[p] # 0
                        /\ Client(local[p].run) \in Current'
                        /\ \A x \in Runs : Was(Code(x)) =>
                             Code(x) \in saved \/ (local[p].pending /\ local[p].code = x)
    BY <1>2 DEF SpendInv
  <2>1. PICK p \in Phrases :
          /\ Listed(p) /\ served[p] # 0
          /\ \A x \in Runs : Was(Code(x)) =>
               Code(x) \in saved \/ (local[p].pending /\ local[p].code = x)
    BY DEF SpendInv
  <2>2. Client(local[p].run) \in Doc.lists /\ ~ByCommitment(Client(local[p].run))
    BY <2>1, Bounds, CredKinds DEF Listed, Typed, AccountTyped, Records
  <2>3. Client(local[p].run) \in Current'
    BY <1>1, <2>2 DEF Recipients
  <2> QED
    BY <2>1, <2>3
<1> QED
  BY <1>1, <1>3, <1>4, <1>5

\* Before the entry a rotation finds the roster as the document lists it.
LEMMA EarlyRotation ==
  ASSUME Typed, LogInv, ~Pivoted, Untouched, Rotates
  PROVE  epochs' = epochs
<1>1. Doc.lists = Before
  BY Shapes DEF LogInv, Pivoted, Doc
<1>2. Current = Before
  BY DEF Untouched, Current
<1>3. Recipients(Before) = Before
  BY <1>2 DEF Recipients
<1> QED
  BY <1>1, <1>2, <1>3 DEF Rotates

\* A registry sealed to the current epoch is opened by whoever opens that.
LEMMA SealedToCurrent ==
  ASSUME registry'.sealed = Len(epochs')
  PROVE  LET opening == (Doc.lists \cap Current) \ {Spent, Other} IN
           (opening # {} => opening \cap epochs[registry.sealed] # {})'
  BY DEF Current

-----------------------------------------------------------------------------
(***************************************************************************)
(* The actions that change nothing but a tab's job.                        *)
(***************************************************************************)
\* What an account nobody touched keeps.
LEMMA AccountKept ==
  ASSUME Typed, AccountInv, UNCHANGED <<remember, account, local, saved>>,
         runs' \in Nat, runs' >= runs
  PROVE  AccountInv'
<1>1. /\ Doc' = Doc /\ Current' = Current
      /\ (\A c, k : EverListed(c, k)' <=> EverListed(c, k))
  BY DEF Doc, Current, EverListed, account
<1> USE DEF account
<1>2. LogInv'
  BY DEF AccountInv, LogInv, Pivoted, Was, EverListed, Doc
<1>3. (~Pivoted => Untouched)'
  BY DEF AccountInv, Untouched, Pivoted, Doc
<1>4. RecordInv'
  BY DEF AccountInv, RecordInv, Was, EverListed, Typed, AccountTyped, Records
<1>5. RosterInv' /\ SpendInv' /\ RegistryInv'
  BY DEF AccountInv, RosterInv, SpendInv, RegistryInv, Was, EverListed, Doc, Current, Pivoted,
         StruckOut, Disconnected, Listed, Opens
<1> QED
  BY <1>2, <1>3, <1>4, <1>5 DEF AccountInv

\* With one tab, its invariant is every tab's.
LEMMA EveryTab ==
  ASSUME OneTab, NEW t \in Tabs, JobInv(t)'
  PROVE  (\A u \in Tabs : JobInv(u))'
BY DEF OneTab

\* A tab's new job keeps the types where it points into what stands.
LEMMA JobTyped ==
  ASSUME OneTab, Typed, NEW t \in Tabs, NEW j \in Jobs, job' = [job EXCEPT ![t] = j],
         Len(log') >= Len(log), Len(log') \in Nat,
         Len(epochs') >= Len(epochs), Len(epochs') \in Nat,
         j.doc <= Len(log'), j.head <= Len(log'), j.from <= Len(epochs'), j.key <= Len(epochs')
  PROVE  /\ job' \in [Tabs -> Jobs] /\ job'[t] = j
         /\ \A u \in Tabs :
              /\ job'[u].doc <= Len(log') /\ job'[u].head <= Len(log')
              /\ job'[u].from <= Len(epochs') /\ job'[u].key <= Len(epochs')
<1>1. job' \in [Tabs -> Jobs] /\ job'[t] = j
  BY Given
<1> QED
  BY <1>1 DEF OneTab

\* An idle tab waits for nothing.
LEMMA IdleWaits ==
  ASSUME OneTab, Typed, NEW t \in Tabs, job' = [job EXCEPT ![t] = Idle],
         registry' \in Registries
  PROVE  (\A u \in Tabs : JobInv(u))'
<1>1. job'[t] = Idle
  BY IdleShape, Given
<1>2. registry'.sealed # 0
  BY DEF Registries
<1>3. Staged(job[t])'
  BY <1>1, IdleShape DEF Staged, HookStages, TailStages, RememberedStages, KeyStages
<1>4. OnLog(t)'
  BY <1>1, IdleShape DEF OnLog, HookStages, TailStages, OpenStages
<1>5. OnRegistry(t)'
  BY <1>1, <1>2, IdleShape DEF OnRegistry
<1> QED
  BY <1>3, <1>4, <1>5, EveryTab DEF JobInv

LEMMA ToIdle ==
  ASSUME OneTab, Inv, NEW t \in Tabs, job' = [job EXCEPT ![t] = Idle],
         UNCHANGED <<remember, account, local, saved, runs, acts>>,
         failures' \in 0..MaxFailures
  PROVE  Inv'
<1>1. AccountInv'
  BY AccountKept DEF Inv, Typed, AccountTyped
<1>2. (\A u \in Tabs : JobInv(u))'
  BY IdleWaits DEF Inv, Typed, AccountTyped, account
<1>3. Typed'
  <2>1. Len(log) \in Nat /\ Len(epochs) \in Nat /\ UNCHANGED <<log, epochs>>
    BY Shapes DEF Inv, account
  <2>2. /\ job' \in [Tabs -> Jobs]
        /\ \A u \in Tabs :
              /\ job'[u].doc <= Len(log') /\ job'[u].head <= Len(log')
              /\ job'[u].from <= Len(epochs') /\ job'[u].key <= Len(epochs')
    <3>1. /\ Len(log') \in Nat /\ Len(log') >= Len(log)
          /\ Len(epochs') \in Nat /\ Len(epochs') >= Len(epochs)
          /\ Idle.doc <= Len(log') /\ Idle.head <= Len(log')
          /\ Idle.from <= Len(epochs') /\ Idle.key <= Len(epochs')
      BY <2>1, IdleShape
    <3> QED
      BY <3>1, IdleShape, JobTyped DEF Inv
  <2> QED
    BY <2>1, <2>2 DEF Inv, Typed, AccountTyped, account
<1> QED
  BY <1>1, <1>2, <1>3 DEF Inv

LEMMA EscrowThrowsStep ==
  ASSUME OneTab, Inv, NEW t \in Tabs, EscrowThrows(t), UNCHANGED remember
  PROVE  Inv'
BY ToIdle DEF EscrowThrows, counts, Inv, Typed, AccountTyped

LEMMA TearStep ==
  ASSUME OneTab, Inv, NEW t \in Tabs, Tear(t), UNCHANGED remember
  PROVE  Inv'
<1>1. failures' \in 0..MaxFailures
  BY Bounds DEF Inv, Typed, AccountTyped, Tear, Counted
<1> QED
  BY <1>1, ToIdle DEF Tear

LEMMA StartStep ==
  ASSUME OneTab, Inv, NEW t \in Tabs, NEW p \in Phrases, Start(t, p), UNCHANGED remember
  PROVE  Inv'
<1> DEFINE j == [Idle EXCEPT !.at = "probe", !.p = p, !.run = runs + 1, !.doc = Len(log)]
<1>1. /\ runs \in Nat /\ runs + 1 \in 0..MaxRuns /\ runs' = runs + 1
      /\ Len(log) \in Nat /\ Len(epochs) \in Nat
  BY Bounds, Shapes DEF Inv, Typed, AccountTyped, Start
<1>2. /\ j \in Jobs /\ j.at = "probe" /\ j.p = p /\ j.run = runs + 1 /\ j.doc = Len(log)
      /\ j.phase = "tail" /\ j.head = 0 /\ j.from = 0 /\ j.key = 0
      /\ j.reg = "failed" /\ j.arm = "backfill" /\ j.drop = {} /\ ~j.live
  BY <1>1, IdleShape DEF Jobs, Stages
<1>3. job' = [job EXCEPT ![t] = j]
  BY DEF Start
<1> HIDE DEF j
<1>4. UNCHANGED <<remember, account, local, saved, acts, failures>>
  BY DEF Start
<1>5. /\ job' \in [Tabs -> Jobs] /\ job'[t] = j
      /\ \A u \in Tabs :
           /\ job'[u].doc <= Len(log') /\ job'[u].head <= Len(log')
           /\ job'[u].from <= Len(epochs') /\ job'[u].key <= Len(epochs')
  <2>1. /\ Len(log') \in Nat /\ Len(log') >= Len(log)
        /\ Len(epochs') \in Nat /\ Len(epochs') >= Len(epochs)
        /\ j.doc <= Len(log') /\ j.head <= Len(log')
        /\ j.from <= Len(epochs') /\ j.key <= Len(epochs')
    BY <1>1, <1>2, <1>4 DEF account
  <2> QED
    BY <1>2, <1>3, <2>1, JobTyped DEF Inv
<1>6. Typed'
  BY <1>1, <1>4, <1>5 DEF Inv, Typed, AccountTyped, account
<1>7. AccountInv'
  BY <1>1, <1>4, AccountKept DEF Inv, Typed, AccountTyped
<1>8. JobInv(t)'
  <2>1. Staged(job[t])'
    BY <1>1, <1>2, <1>5 DEF Staged, HookStages, TailStages, RememberedStages, KeyStages
  <2>2. \A q \in Phrases : local[q].run \in 0..runs
    BY <1>1 DEF Inv, AccountInv, RecordInv, NoRecord
  <2>3. OnLog(t)'
    BY <1>1, <1>2, <1>4, <1>5, <2>2 DEF OnLog, HookStages, TailStages, OpenStages
  <2>4. OnRegistry(t)'
    BY <1>2, <1>4, <1>5 DEF OnRegistry, account, Inv, Typed, AccountTyped, Registries
  <2> QED
    BY <2>1, <2>3, <2>4 DEF JobInv
<1> QED
  BY <1>6, <1>7, <1>8, EveryTab DEF Inv

\* A step that changes nothing but one tab's job keeps what its new job keeps.
LEMMA JobOnly ==
  ASSUME OneTab, Inv, NEW t \in Tabs, NEW j \in Jobs, job' = [job EXCEPT ![t] = j],
         UNCHANGED <<remember, account, local, saved, counts>>,
         j.doc <= Len(log), j.head <= Len(log), j.from <= Len(epochs), j.key <= Len(epochs),
         Staged(job[t])', OnLog(t)', OnRegistry(t)'
  PROVE  Inv'
<1>1. Len(log) \in Nat /\ Len(epochs) \in Nat /\ UNCHANGED <<log, epochs>>
  BY Shapes DEF Inv, account
<1>2. /\ job' \in [Tabs -> Jobs] /\ job'[t] = j
      /\ \A u \in Tabs :
            /\ job'[u].doc <= Len(log') /\ job'[u].head <= Len(log')
            /\ job'[u].from <= Len(epochs') /\ job'[u].key <= Len(epochs')
  <2>1. /\ Len(log') \in Nat /\ Len(log') >= Len(log)
        /\ Len(epochs') \in Nat /\ Len(epochs') >= Len(epochs)
        /\ j.doc <= Len(log') /\ j.head <= Len(log')
        /\ j.from <= Len(epochs') /\ j.key <= Len(epochs')
    BY <1>1
  <2> QED
    BY <2>1, JobTyped DEF Inv
<1>3. Typed'
  BY <1>1, <1>2 DEF Inv, Typed, AccountTyped, account, counts
<1>4. AccountInv'
  BY AccountKept, Bounds DEF Inv, Typed, AccountTyped, counts
<1>5. JobInv(t)'
  BY <1>2 DEF JobInv
<1> QED
  BY <1>3, <1>4, <1>5, EveryTab DEF Inv

LEMMA ProbeStep ==
  ASSUME OneTab, Inv, NEW t \in Tabs, Probe(t), UNCHANGED remember
  PROVE  Inv'
<1> DEFINE code == IF OwnPending(t) THEN local[job[t].p].code ELSE job[t].run
           j == [job[t] EXCEPT !.at = "reveal", !.code = code]
<1>1. UNCHANGED <<remember, account, local, saved, counts>> /\ job[t].at = "probe"
  BY DEF Probe, At
<1>2. CASE Collides(t)
  <2>1. job' = [job EXCEPT ![t] = Idle]
    BY <1>2 DEF Probe
  <2> QED
    BY <1>1, <2>1, ToIdle DEF counts, Inv, Typed, AccountTyped
<1>3. CASE ~Collides(t)
  <2>1. job[t] \in Jobs /\ job[t].p \in Phrases /\ job[t].run \in 1..runs
    BY <1>1 DEF Inv, Typed, AccountTyped, JobInv, Staged
  <2>2. code \in Runs /\ code \in 0..MaxRuns
    <3>1. local[job[t].p] # NoRecord \/ ~OwnPending(t)
      BY DEF OwnPending, NoRecord
    <3> QED
      BY <2>1, <3>1, Bounds DEF Inv, AccountInv, RecordInv, OwnPending, Typed, AccountTyped
  <2>3. job' = [job EXCEPT ![t] = j]
    BY <1>3 DEF Probe
  <2> HIDE DEF code
  <2>4. /\ j \in Jobs
      /\ j.at = "reveal" /\ j.phase = job[t].phase /\ j.p = job[t].p
      /\ j.run = job[t].run /\ j.code = code /\ j.doc = job[t].doc
      /\ j.head = job[t].head /\ j.from = job[t].from /\ j.key = job[t].key
      /\ j.standing = job[t].standing /\ j.reg = job[t].reg /\ j.arm = job[t].arm
      /\ j.drop = job[t].drop /\ j.live = job[t].live
    BY <2>1, <2>2, Bounds DEF Jobs, Stages
  <2> HIDE DEF j
  <2>5. job'[t] = j
    BY <2>3, <2>4, Given DEF Inv
  <2>6. /\ j.doc <= Len(log) /\ j.head <= Len(log)
        /\ j.from <= Len(epochs) /\ j.key <= Len(epochs)
    BY <2>4 DEF Inv, Typed, AccountTyped
  <2>7. Staged(job[t])'
    BY <1>1, <2>2, <2>4, <2>5 DEF Inv, JobInv, Staged, HookStages, TailStages, RememberedStages,
       KeyStages, counts
  <2>8. OnLog(t)'
    BY <1>1, <2>4, <2>5 DEF Inv, JobInv, OnLog, HookStages, TailStages, OpenStages
  <2>9. OnRegistry(t)'
    BY <1>1, <2>4, <2>5 DEF Inv, JobInv, OnRegistry, account
  <2> QED
    BY <1>1, <2>3, <2>4, <2>6, <2>7, <2>8, <2>9, JobOnly
<1> QED
  BY <1>2, <1>3

LEMMA ConfirmStep ==
  ASSUME OneTab, Inv, NEW t \in Tabs, Confirm(t), UNCHANGED remember
  PROVE  Inv'
<1> DEFINE at == IF remember /\ job[t].reg = "failed" /\ job[t].arm # "none"
                 THEN "registry" ELSE "settle"
           j == [job[t] EXCEPT !.at = at, !.phase = "confirm"]
<1>1. UNCHANGED <<remember, account, local, saved, counts>> /\ job[t].at = "shown"
  BY DEF Confirm, At
<1>2. job[t] \in Jobs /\ job' = [job EXCEPT ![t] = j]
  BY DEF Inv, Typed, AccountTyped, Confirm
<1>3. /\ at \in {"registry", "settle"}
      /\ at = "registry" => job[t].reg = "failed" /\ job[t].arm # "none"
  OBVIOUS
<1> HIDE DEF at
<1>4. /\ j \in Jobs
      /\ j.at = at /\ j.phase = "confirm" /\ j.p = job[t].p /\ j.run = job[t].run
      /\ j.code = job[t].code /\ j.doc = job[t].doc /\ j.head = job[t].head
      /\ j.from = job[t].from /\ j.key = job[t].key /\ j.standing = job[t].standing
      /\ j.reg = job[t].reg /\ j.arm = job[t].arm /\ j.drop = job[t].drop
      /\ j.live = job[t].live
  BY <1>2, <1>3 DEF Jobs, Stages
<1> HIDE DEF j
<1>5. job'[t] = j
  BY <1>2, <1>4, Given DEF Inv
<1>6. /\ j.doc <= Len(log) /\ j.head <= Len(log)
      /\ j.from <= Len(epochs) /\ j.key <= Len(epochs)
  BY <1>4 DEF Inv, Typed, AccountTyped
<1>7. Staged(job[t])'
  BY <1>1, <1>3, <1>4, <1>5 DEF Inv, JobInv, Staged, HookStages, TailStages, RememberedStages,
     KeyStages, counts
<1>8. OnLog(t)'
  BY <1>1, <1>3, <1>4, <1>5 DEF Inv, JobInv, OnLog, HookStages, TailStages, OpenStages, account,
     Pivoted, Doc, Was, EverListed, Current
<1>9. OnRegistry(t)'
  BY <1>1, <1>4, <1>5 DEF Inv, JobInv, OnRegistry, account
<1> QED
  BY <1>1, <1>2, <1>4, <1>6, <1>7, <1>8, <1>9, JobOnly

-----------------------------------------------------------------------------
(***************************************************************************)
(* The ceremony up to the entry, and the entry.                            *)
(***************************************************************************)
\* An entry that takes nobody out and lists at most passphrases, each with the
\* ladder of its own record, keeps what is recorded and who is let in.
LEMMA EntryKeeps ==
  ASSUME Typed, AccountInv, NEW d \in Entry, Publishes(d), Quiet(d),
         UNCHANGED <<remember, epochs, served, spaces, registry, local, saved, runs>>,
         Doc.lists \subseteq d.lists,
         \A c \in d.lists \ Doc.lists : \E p \in Phrases : c = Phrase(p),
         d.ladder = Doc.ladder \/ \E p \in Phrases : Phrase(p) \in d.lists /\ served[p] = d.ladder
  PROVE  /\ AccountInv' /\ Doc' = d
         /\ log' \in Seq(Entry) /\ Len(log') = Len(log) + 1 /\ Len(log) \in Nat
         /\ Pivoted' <=> Pivoted
         /\ \A r \in Runs : /\ Client(r) \in Doc'.lists <=> Client(r) \in Doc.lists
                            /\ Was(Client(r))' <=> Was(Client(r))
                            /\ Was(Code(r))' <=> Was(Code(r))
<1>1. /\ Doc' = d /\ log' \in Seq(Entry) /\ Len(log') = Len(log) + 1 /\ Len(log) \in Nat
      /\ Current' = Current
  BY Published, Shapes DEF Current
<1>2. /\ LogInv' /\ (Pivoted' <=> Pivoted)
      /\ \A r \in Runs : /\ Was(Client(r))' <=> Was(Client(r))
                         /\ Was(Code(r))' <=> Was(Code(r))
  BY QuietEntry DEF AccountInv
<1>3. \A r \in Runs : Client(r) \in Doc'.lists <=> Client(r) \in Doc.lists
  BY <1>1 DEF Quiet
<1>4. (~Pivoted => Untouched)'
  BY <1>2 DEF AccountInv, Untouched
<1>5. \A p \in Phrases : local[p] # NoRecord => local[p].run \in Runs
  BY Bounds DEF AccountInv, RecordInv, Typed, AccountTyped
<1>6. RecordInv'
  BY <1>2, <1>5, Bounds DEF AccountInv, RecordInv
<1>7. \A r \in Runs : StruckOut(Client(r))' <=> StruckOut(Client(r))
  BY <1>2, <1>3 DEF StruckOut, Was
<1>8. RosterInv'
  BY <1>1, <1>3, <1>7 DEF AccountInv, RosterInv, Opens
<1>9. SpendInv'
  <2>1. (Disconnected' <=> Disconnected) /\ (\A p \in Phrases : Listed(p)' <=> Listed(p))
    BY <1>3, <1>5, <1>7 DEF Disconnected, Listed
  <2> QED
    BY <1>1, <1>2, <2>1 DEF AccountInv, SpendInv, Opens
<1>10. RegistryInv'
  <2> DEFINE opening == (Doc.lists \cap Current) \ {Spent, Other}
             after == (d.lists \cap Current) \ {Spent, Other}
  <2>1. after # {} => after \cap epochs[registry.sealed] # {}
    <3>1. CASE opening # {}
      BY <3>1 DEF AccountInv, RegistryInv
    <3>2. CASE opening = {} /\ after # {}
      <4>1. PICK c \in after : c \in d.lists \ Doc.lists
        BY <3>2
      <4>2. PICK p \in Phrases : c = Phrase(p)
        BY <4>1
      <4>3. Opens(c)
        BY <4>1, <4>2 DEF AccountInv, RosterInv
      <4> QED
        BY <4>1, <4>3 DEF Opens, Typed, AccountTyped, Registries
    <3> QED
      BY <3>1, <3>2
  <2>2. d.ladder # 0 => \E p \in Phrases : Phrase(p) \in d.lists /\ served[p] = d.ladder
    BY DEF AccountInv, RegistryInv
  <2> QED
    BY <1>1, <2>1, <2>2 DEF AccountInv, RegistryInv
<1> QED
  BY <1>1, <1>2, <1>3, <1>4, <1>6, <1>8, <1>9, <1>10 DEF AccountInv

\* A copy of the document with another mark lists the same.
LEMMA SameLists ==
  ASSUME Typed, LogInv, NEW b \in BOOLEAN, NEW d, d = [Doc EXCEPT !.revealed = b]
  PROVE  /\ d \in Entry /\ d.lists = Doc.lists /\ d.ladder = Doc.ladder
         /\ Quiet(d)
<1>1. d \in Entry /\ d.lists = Doc.lists /\ d.ladder = Doc.ladder
  BY Shapes DEF Entry
<1>2. Spent \in Doc.lists => Doc.lists = Before /\ Doc.ladder = 0
  BY Shapes DEF LogInv, Doc
<1> QED
  BY <1>1, <1>2 DEF Quiet

LEMMA RevealStep ==
  ASSUME OneTab, Inv, NEW t \in Tabs, Reveal(t), UNCHANGED remember
  PROVE  Inv'
<1> DEFINE d == [Doc EXCEPT !.revealed = TRUE]
<1>1. /\ UNCHANGED <<remember, epochs, served, spaces, registry, local, saved, counts>>
      /\ job[t].at = "reveal"
  BY DEF Reveal, At
<1>2. CASE Spent \notin Doc.lists
  <2>1. job' = [job EXCEPT ![t] = Idle] /\ UNCHANGED log
    BY <1>2 DEF Reveal
  <2> QED
    BY <1>1, <2>1, ToIdle DEF counts, Inv, Typed, AccountTyped, account
<1>3. CASE Spent \in Doc.lists
  <2>1. /\ job[t] \in Jobs /\ Len(log) \in Nat /\ Len(log) >= 2
        /\ Len(epochs) \in Nat /\ Len(epochs) >= 1
    BY Shapes DEF Inv, Typed, AccountTyped
  <2>2. log' = log \/ Publishes(d)
    BY <1>3 DEF Reveal
  <2>3. /\ AccountInv' /\ log' \in Seq(Entry) /\ Len(log') \in Nat /\ Len(log') >= Len(log)
        /\ ~Pivoted'
    <3>1. CASE log' = log
      BY <1>1, <1>3, <2>1, <3>1, AccountKept DEF Inv, Typed, AccountTyped, account, counts, Pivoted, Doc
    <3>2. CASE Publishes(d)
      <4>1. d \in Entry /\ d.lists = Doc.lists /\ d.ladder = Doc.ladder /\ Quiet(d)
        BY SameLists DEF Inv, AccountInv
      <4> HIDE DEF d
      <4> QED
        BY <1>1, <1>3, <2>1, <3>2, <4>1, EntryKeeps DEF Inv, Pivoted, counts
    <3> QED
      BY <2>2, <3>1, <3>2
  <2> DEFINE n == Len(log')
             j == [job[t] EXCEPT !.at = "record", !.head = n]
  <2>4. job' = [job EXCEPT ![t] = j]
    BY <1>3, <2>1 DEF Reveal
  <2>5. n \in Nat /\ n >= 2 /\ n >= Len(log)
    BY <2>1, <2>3
  <2> HIDE DEF n
  <2>6. /\ j \in Jobs
      /\ j.at = "record" /\ j.phase = job[t].phase /\ j.p = job[t].p
      /\ j.run = job[t].run /\ j.code = job[t].code /\ j.doc = job[t].doc /\ j.head = n
      /\ j.from = job[t].from /\ j.key = job[t].key /\ j.standing = job[t].standing
      /\ j.reg = job[t].reg /\ j.arm = job[t].arm /\ j.drop = job[t].drop
      /\ j.live = job[t].live
    BY <2>1, <2>5 DEF Jobs, Stages
  <2> HIDE DEF j
  <2>7. /\ job' \in [Tabs -> Jobs] /\ job'[t] = j
        /\ \A u \in Tabs :
             /\ job'[u].doc <= Len(log') /\ job'[u].head <= Len(log')
             /\ job'[u].from <= Len(epochs') /\ job'[u].key <= Len(epochs')
    <3>1. /\ Len(log') \in Nat /\ Len(log') >= Len(log)
          /\ Len(epochs') \in Nat /\ Len(epochs') >= Len(epochs)
      BY <1>1, <2>1, <2>3
    <3>2. /\ j.doc <= Len(log') /\ j.head <= Len(log')
          /\ j.from <= Len(epochs') /\ j.key <= Len(epochs')
      BY <1>1, <2>3, <2>5, <2>6, <3>1 DEF Inv, Typed, AccountTyped, n, Jobs
    <3> QED
      BY <2>4, <2>6, <3>1, <3>2, JobTyped DEF Inv
  <2>8. Typed'
    BY <1>1, <2>1, <2>3, <2>7 DEF Inv, Typed, AccountTyped, counts, Records
  <2>9. Staged(job[t])'
    BY <1>1, <2>6, <2>7 DEF Inv, JobInv, Staged, HookStages, TailStages, RememberedStages,
       KeyStages, counts
  <2>10. OnLog(t)'
    BY <1>1, <2>3, <2>5, <2>6, <2>7 DEF Inv, JobInv, OnLog, HookStages, TailStages, OpenStages
  <2>11. OnRegistry(t)'
    BY <1>1, <2>6, <2>7 DEF Inv, JobInv, OnRegistry
  <2> QED
    BY <2>3, <2>8, <2>9, <2>10, <2>11, EveryTab DEF Inv, JobInv
<1> QED
  BY <1>2, <1>3

\* Before the entry nothing is asked of the records and the Spaces but their own.
LEMMA EarlyAccount ==
  ASSUME Typed, AccountInv, ~Pivoted, UNCHANGED <<remember, log, epochs, registry>>,
         spaces \subseteq spaces', RecordInv'
  PROVE  AccountInv' /\ ~Pivoted'
<1>1. Doc' = Doc /\ Current' = Current /\ ~Pivoted'
  BY DEF Doc, Current, Pivoted
<1>2. LogInv'
  BY DEF AccountInv, LogInv, Pivoted, Was, EverListed, Doc
<1>3. Untouched'
  BY DEF AccountInv, Untouched
<1>4. RosterInv' /\ SpendInv'
  BY <1>1 DEF AccountInv, RosterInv, SpendInv, StruckOut, EverListed, Opens
<1>5. RegistryInv'
  <2>1. Doc.ladder = 0
    BY Shapes DEF AccountInv, LogInv, Pivoted, Doc
  <2> QED
    BY <1>1, <2>1 DEF AccountInv, RegistryInv
<1> QED
  BY <1>1, <1>2, <1>3, <1>4, <1>5 DEF AccountInv

\* What a step of the hook owes, past what it does to the tab's stage.
LEMMA HookStep ==
  ASSUME OneTab, Inv, NEW t \in Tabs, NEW at \in Stages, Goes(t, at), ~Pivoted,
         UNCHANGED <<remember, log, epochs, registry, saved, counts>>,
         served' \in [Phrases -> 0..MaxRuns],
         spaces' \in SUBSET Creds, spaces \subseteq spaces',
         local' \in [Phrases -> Records], \A p \in Phrases : local'[p].head <= Len(log),
         RecordInv',
         job'[t] = [job[t] EXCEPT !.at = at] => Staged(job[t])' /\ OnLog(t)'
  PROVE  Inv'
<1> DEFINE j == [job[t] EXCEPT !.at = at]
<1>1. /\ job' \in [Tabs -> Jobs] /\ job'[t] = j
      /\ \A u \in Tabs : /\ job'[u].doc = job[u].doc /\ job'[u].head = job[u].head
                         /\ job'[u].from = job[u].from /\ job'[u].key = job[u].key
  BY Went DEF Inv
<1>2. Typed'
  BY <1>1 DEF Inv, Typed, AccountTyped, counts
<1>3. AccountInv'
  BY EarlyAccount DEF Inv
<1>4. OnRegistry(t)'
  <2>1. job[t] \in Jobs
    BY DEF Inv, Typed, AccountTyped
  <2>2. /\ j.from = job[t].from /\ j.key = job[t].key /\ j.arm = job[t].arm
        /\ j.p = job[t].p /\ j.reg = job[t].reg /\ j.drop = job[t].drop
    BY <2>1 DEF Jobs
  <2> HIDE DEF j
  <2> QED
    BY <1>1, <2>2 DEF Inv, JobInv, OnRegistry
<1> QED
  BY <1>1, <1>2, <1>3, <1>4, EveryTab DEF Inv, JobInv

LEMMA PutRecordStep ==
  ASSUME OneTab, Inv, NEW t \in Tabs, PutRecord(t), UNCHANGED remember
  PROVE  Inv'
<1>1. /\ UNCHANGED <<remember, log, epochs, spaces, registry, local, saved, counts>>
      /\ job[t].at = "record"
  BY DEF PutRecord, At
<1>2. CASE Collides(t)
  <2>1. job' = [job EXCEPT ![t] = Idle] /\ UNCHANGED served
    BY <1>2 DEF PutRecord
  <2> QED
    BY <1>1, <2>1, ToIdle DEF counts, Inv, Typed, AccountTyped, account
<1>3. CASE ~Collides(t)
  <2> DEFINE at == AfterRecord
             p == job[t].p
  <2>1. served' = [served EXCEPT ![p] = job[t].run] /\ Goes(t, at)
    BY <1>3 DEF PutRecord, RecordOf
  <2>2. at \in Stages /\ at \in {"keep", "code"} /\ (at = "keep" => remember)
        /\ (at = "code" => ~remember)
    BY DEF AfterRecord, Stages, Inv, Typed, AccountTyped
  <2>3. job[t] \in Jobs /\ p \in Phrases /\ job[t].run \in 0..MaxRuns /\ ~Pivoted
    BY <1>1 DEF Inv, Typed, AccountTyped, Jobs, JobInv, Staged, OnLog, HookStages
  <2>4. served' \in [Phrases -> 0..MaxRuns] /\ served'[p] = job[t].run
    BY <2>1, <2>3 DEF Inv, Typed, AccountTyped
  <2>5. RecordInv'
    BY <1>1 DEF Inv, AccountInv, RecordInv, Was, EverListed, counts
  <2> HIDE DEF at
  <2> DEFINE j == [job[t] EXCEPT !.at = at]
  <2>6. job'[t] = j => Staged(job[t])' /\ OnLog(t)'
    <3> SUFFICES ASSUME job'[t] = j PROVE Staged(job[t])' /\ OnLog(t)'
      OBVIOUS
    <3>1.
        /\ j.at = at /\ j.phase = job[t].phase /\ j.p = job[t].p /\ j.run = job[t].run
        /\ j.code = job[t].code /\ j.doc = job[t].doc /\ j.head = job[t].head
        /\ j.from = job[t].from /\ j.key = job[t].key /\ j.standing = job[t].standing
        /\ j.reg = job[t].reg /\ j.arm = job[t].arm /\ j.drop = job[t].drop
        /\ j.live = job[t].live
      BY <2>3 DEF Jobs
    <3> HIDE DEF j
    <3>2. Staged(job[t])'
      BY <1>1, <2>2, <3>1 DEF Inv, JobInv, Staged, HookStages, TailStages, RememberedStages,
         KeyStages, counts
    <3>3. OnLog(t)'
      BY <1>1, <2>2, <2>4, <3>1 DEF Inv, JobInv, OnLog, HookStages, TailStages, OpenStages,
         Pivoted, Doc
    <3> QED
      BY <3>2, <3>3
  <2> QED
    BY <1>1, <2>1, <2>2, <2>3, <2>4, <2>5, <2>6, HookStep DEF Inv, Typed, AccountTyped
<1> QED
  BY <1>2, <1>3

LEMMA KeepStep ==
  ASSUME OneTab, Inv, NEW t \in Tabs, Keep(t), UNCHANGED remember
  PROVE  Inv'
<1> DEFINE p == job[t].p
           rec == PendingRecord(t)
           at == "code"
           j == [job[t] EXCEPT !.at = at]
<1>1. /\ UNCHANGED <<remember, account, saved, counts>> /\ job[t].at = "keep"
      /\ local' = [local EXCEPT ![p] = rec] /\ Goes(t, at) /\ at \in Stages
  BY DEF Keep, At, Stages
<1>2. /\ job[t] \in Jobs /\ p \in Phrases /\ job[t].run \in 1..runs /\ job[t].code \in Runs
      /\ ~Pivoted /\ remember /\ job[t].head >= 2 /\ job[t].head <= Len(log)
  BY <1>1 DEF Inv, Typed, AccountTyped, JobInv, Staged, OnLog, HookStages, TailStages, RememberedStages
<1>3. /\ rec \in Records /\ rec # NoRecord /\ rec.pending
      /\ rec.run = job[t].run /\ rec.code = job[t].code /\ rec.head = job[t].head
  BY <1>2, Bounds DEF PendingRecord, Records, Jobs, NoRecord
<1> HIDE DEF rec
<1>4. /\ local' \in [Phrases -> Records] /\ local'[p] = rec
      /\ \A q \in Phrases : q # p => local'[q] = local[q]
  BY <1>1, <1>2, <1>3 DEF Inv, Typed, AccountTyped
<1>5. \A r \in Runs : ~Was(Client(r))
  BY <1>2, ListedApart DEF Inv, AccountInv
<1>6. RecordInv'
  <2>1. \A c : Was(c)' <=> Was(c)
    BY <1>1 DEF Was, EverListed, account
  <2>2. job[t].run \in Runs /\ runs' = runs /\ registry' = registry /\ remember' = remember
    BY <1>1, <1>2, Bounds DEF Inv, Typed, AccountTyped, counts, account
  <2>3. \A q \in Phrases : local[q].run = job[t].run => q = p
    BY <1>1 DEF Inv, JobInv, OnLog, HookStages
  <2>4. \A q \in Phrases : local'[q] # NoRecord =>
          /\ remember
          /\ local'[q].run \in 1..runs /\ local'[q].head >= 2
          /\ local'[q].pending => local'[q].code \in Runs
          /\ local'[q].pending /\ Was(Client(local'[q].run)) => Was(Code(local'[q].code))
          /\ ~local'[q].pending =>
               /\ Was(Client(local'[q].run))
               /\ registry.names \cap {Old, Spent} = {} /\ registry.phrase = q
    BY <1>2, <1>3, <1>4, <1>5, <2>2 DEF Inv, AccountInv, RecordInv
  <2>5. \A q, s \in Phrases : local'[q].run = local'[s].run /\ local'[q].run # 0 => q = s
    BY <1>3, <1>4, <2>3 DEF Inv, AccountInv, RecordInv
  <2> QED
    BY <2>1, <2>2, <2>4, <2>5 DEF RecordInv
<1>7. \A q \in Phrases : local'[q].head <= Len(log)
  BY <1>2, <1>3, <1>4 DEF Inv, Typed, AccountTyped
<1>8. job'[t] = j => Staged(job[t])' /\ OnLog(t)'
  <2> SUFFICES ASSUME job'[t] = j PROVE Staged(job[t])' /\ OnLog(t)'
    OBVIOUS
  <2>1.
      /\ j.at = at /\ j.phase = job[t].phase /\ j.p = job[t].p /\ j.run = job[t].run
      /\ j.code = job[t].code /\ j.doc = job[t].doc /\ j.head = job[t].head
      /\ j.from = job[t].from /\ j.key = job[t].key /\ j.standing = job[t].standing
      /\ j.reg = job[t].reg /\ j.arm = job[t].arm /\ j.drop = job[t].drop
      /\ j.live = job[t].live
    BY <1>2 DEF Jobs
  <2> HIDE DEF j
  <2>2. Staged(job[t])'
    BY <1>1, <2>1 DEF Inv, JobInv, Staged, HookStages, TailStages, RememberedStages,
       KeyStages, counts
  <2>3. local'[p] = PendingRecord(t)'
    BY <1>4, <2>1 DEF PendingRecord, rec
  <2>4. \A q \in Phrases : local'[q].run = job[t].run => q = p
    BY <1>1, <1>4 DEF Inv, JobInv, OnLog, HookStages
  <2>5. OnLog(t)'
    BY <1>1, <2>1, <2>3, <2>4 DEF Inv, JobInv, OnLog, HookStages, TailStages, OpenStages,
       Pivoted, Doc, account
  <2> QED
    BY <2>2, <2>5
<1> HIDE DEF at
<1>9. /\ UNCHANGED <<log, epochs, registry>> /\ served' \in [Phrases -> 0..MaxRuns]
      /\ spaces' \in SUBSET Creds /\ spaces \subseteq spaces'
  BY <1>1 DEF Inv, Typed, AccountTyped, account
<1> QED
  BY <1>1, <1>2, <1>4, <1>6, <1>7, <1>8, <1>9, HookStep

LEMMA PutCodeStep ==
  ASSUME OneTab, Inv, NEW t \in Tabs, PutCode(t), UNCHANGED remember
  PROVE  Inv'
<1> DEFINE at == "pivot"
           j == [job[t] EXCEPT !.at = at]
<1>1. /\ UNCHANGED <<remember, log, epochs, served, registry, local, saved, counts>>
      /\ job[t].at = "code" /\ Goes(t, at) /\ at \in Stages
      /\ spaces' = spaces \cup {Code(job[t].code)}
  BY DEF PutCode, At, Stages
<1>2. job[t] \in Jobs /\ job[t].code \in Runs /\ ~Pivoted
  BY <1>1 DEF Inv, Typed, AccountTyped, JobInv, Staged, OnLog, HookStages, TailStages
<1>3. spaces' \in SUBSET Creds /\ spaces \subseteq spaces'
  BY <1>1, <1>2, CredsTyped DEF Inv, Typed, AccountTyped
<1>4. RecordInv'
  BY <1>1 DEF Inv, AccountInv, RecordInv, Was, EverListed, counts
<1>5. job'[t] = j => Staged(job[t])' /\ OnLog(t)'
  <2> SUFFICES ASSUME job'[t] = j PROVE Staged(job[t])' /\ OnLog(t)'
    OBVIOUS
  <2>1.
      /\ j.at = at /\ j.phase = job[t].phase /\ j.p = job[t].p /\ j.run = job[t].run
      /\ j.code = job[t].code /\ j.doc = job[t].doc /\ j.head = job[t].head
      /\ j.from = job[t].from /\ j.key = job[t].key /\ j.standing = job[t].standing
      /\ j.reg = job[t].reg /\ j.arm = job[t].arm /\ j.drop = job[t].drop
      /\ j.live = job[t].live
    BY <1>2 DEF Jobs
  <2> HIDE DEF j
  <2>2. Staged(job[t])'
    BY <1>1, <2>1 DEF Inv, JobInv, Staged, HookStages, TailStages, RememberedStages,
       KeyStages, counts
  <2>3. PendingRecord(t)' = PendingRecord(t)
    BY <2>1 DEF PendingRecord
  <2>4. OnLog(t)'
    BY <1>1, <2>1, <2>3 DEF Inv, JobInv, OnLog, HookStages, TailStages, OpenStages,
       Pivoted, Doc
  <2> QED
    BY <2>2, <2>4
<1> HIDE DEF at
<1>6. /\ served' \in [Phrases -> 0..MaxRuns] /\ local' \in [Phrases -> Records]
      /\ \A p \in Phrases : local'[p].head <= Len(log)
  BY <1>1 DEF Inv, Typed, AccountTyped
<1> QED
  BY <1>1, <1>2, <1>3, <1>4, <1>5, <1>6, HookStep

\* What the add-and-retire entry lists: another client, where one is enrolled,
\* and the two successors.
PivotDoc(t) ==
  [Doc EXCEPT !.lists = (@ \ Struck) \cup Successors(t),
              !.ladder = IF remember THEN 0 ELSE job[t].run]

LEMMA PivotDocShape ==
  ASSUME Inv, NEW t \in Tabs, job[t].at = "pivot"
  PROVE  /\ PivotDoc(t) \in Entry
         /\ PivotDoc(t).lists \subseteq {Other} \cup Successors(t)
         /\ Successors(t) \subseteq PivotDoc(t).lists
         /\ Spent \notin PivotDoc(t).lists
         /\ \A r \in Runs : /\ Client(r) \in PivotDoc(t).lists <=> remember /\ r = job[t].run
                            /\ Code(r) \in PivotDoc(t).lists <=> r = job[t].code
         /\ (PivotDoc(t).lists \cap Before) \ {Spent, Other} = {}
         /\ PivotDoc(t).ladder = IF remember THEN 0 ELSE job[t].run
<1> DEFINE d == PivotDoc(t)
<1>1. /\ job[t].p \in Phrases /\ job[t].run \in Runs /\ job[t].code \in Runs /\ ~Pivoted
  BY Bounds DEF Inv, Typed, AccountTyped, JobInv, Staged, OnLog, HookStages, TailStages
<1>2. Doc \in Entry /\ Doc.lists = Before
  BY <1>1, Shapes, ListedApart DEF Inv, AccountInv
<1>3. /\ d = [Doc EXCEPT !.lists = (Doc.lists \ Struck) \cup Successors(t),
                         !.ladder = IF remember THEN 0 ELSE job[t].run]
  BY DEF PivotDoc
<1>4. Successors(t) \in SUBSET Creds
  BY <1>1, CredsTyped DEF Successors
<1>5. (Before \ Struck) \subseteq {Other} /\ Before \subseteq {Old, Spent, Other}
  BY CredsTyped, CredsStruck DEF Before
<1>6. /\ d.lists = (Before \ Struck) \cup Successors(t)
      /\ d.ladder = IF remember THEN 0 ELSE job[t].run
  BY <1>2, <1>3 DEF Entry
<1>7. d \in Entry
  <2>1. (IF remember THEN 0 ELSE job[t].run) \in 0..MaxRuns
    BY <1>1, Bounds
  <2> QED
    BY <1>2, <1>3, <1>4, <2>1 DEF Entry
<1>8. \A c \in Successors(t) : c \notin {Old, Spent, Other}
  BY <1>1, Bounds, CredsApart DEF Successors
<1>9. \A r \in Runs : /\ Client(r) \in Successors(t) <=> remember /\ r = job[t].run
                      /\ Code(r) \in Successors(t) <=> r = job[t].code
                      /\ Client(r) # Other /\ Code(r) # Other
  BY <1>1, Bounds, CredsApart DEF Successors
<1>10. Spent # Other
  BY CredsApart
<1> HIDE DEF d
<1>11. \A r \in Runs : /\ Client(r) \in d.lists <=> remember /\ r = job[t].run
                       /\ Code(r) \in d.lists <=> r = job[t].code
  BY <1>5, <1>6, <1>9
<1>12. /\ d.lists \subseteq {Other} \cup Successors(t) /\ Successors(t) \subseteq d.lists
       /\ Spent \notin d.lists /\ (d.lists \cap Before) \ {Spent, Other} = {}
  BY <1>5, <1>6, <1>8, <1>10
<1> QED
  BY <1>6, <1>7, <1>11, <1>12 DEF d

\* Before the entry no new client and no new code was ever listed.
LEMMA NoneListed ==
  ASSUME Typed, LogInv, ~Pivoted, NEW r \in Runs
  PROVE  ~Was(Client(r)) /\ ~Was(Code(r))
BY ListedApart

LEMMA PivotLog ==
  ASSUME Inv, NEW t \in Tabs, job[t].at = "pivot", Publishes(PivotDoc(t)), remember' = remember
  PROVE  /\ LogInv' /\ Pivoted' /\ Doc' = PivotDoc(t)
         /\ log' \in Seq(Entry) /\ Len(log') = Len(log) + 1 /\ Len(log) \in Nat
         /\ \A r \in Runs : /\ Was(Client(r))' <=> remember /\ r = job[t].run
                            /\ Was(Code(r))' <=> r = job[t].code
<1> DEFINE n == Len(log)
           d == PivotDoc(t)
<1>1. /\ d \in Entry /\ Spent \notin d.lists
      /\ \A r \in Runs : /\ Client(r) \in d.lists <=> remember /\ r = job[t].run
                         /\ Code(r) \in d.lists <=> r = job[t].code
  BY PivotDocShape
<1>2. ~Pivoted /\ job[t].run \in Runs /\ job[t].code \in Runs /\ Typed /\ LogInv
  BY Bounds DEF Inv, AccountInv, Typed, AccountTyped, JobInv, Staged, OnLog, HookStages, TailStages
<1> HIDE DEF d
<1>3. /\ n \in Nat /\ n >= 2 /\ Len(log') = n + 1 /\ log'[n + 1] = d /\ Doc' = d
      /\ log' \in Seq(Entry)
      /\ \A i \in 1..n : log'[i] = log[i]
  BY <1>1, <1>2, Shapes, Published DEF d
<1>4. \A r \in Runs : ~Was(Client(r)) /\ ~Was(Code(r))
  BY <1>2, NoneListed
<1>5. \A c : Was(c)' <=> Was(c) \/ c \in d.lists
  <2>1. \A c : (\E i \in 1..(n + 1) : c \in log'[i].lists) <=>
                 ((\E i \in 1..n : c \in log[i].lists) \/ c \in d.lists)
    BY <1>3
  <2> QED
    BY <1>3, <2>1 DEF Was, EverListed
<1>6. \A r \in Runs : /\ Was(Client(r))' <=> remember /\ r = job[t].run
                      /\ Was(Code(r))' <=> r = job[t].code
  BY <1>1, <1>4, <1>5
<1>7. Pivoted'
  BY <1>1, <1>3 DEF Pivoted
<1>8. ASSUME NEW i \in 1..(n + 1)
      PROVE  /\ Spent \in log'[i].lists => log'[i].lists = Before /\ log'[i].ladder = 0
             /\ i >= 2 /\ Spent \notin log'[i].lists =>
                  /\ Pivoted'
                  /\ \A r \in Runs : Was(Client(r))' => EverListed(Client(r), i)'
             /\ \A r \in Runs : Client(r) \notin log'[i].lists /\ EverListed(Client(r), i)'
                                  => Client(r) \notin d.lists
  <2>1. CASE i \in 1..n
    <3>1. log'[i] = log[i] /\ (\A k \in 1..i : log'[k] = log[k])
      BY <1>3, <2>1
    <3>2. \A r \in Runs : ~EverListed(Client(r), i)'
      BY <1>3, <1>4, <2>1, <3>1 DEF EverListed, Was
    <3>3. i >= 2 => Spent \in log[i].lists
      BY <1>2, <2>1 DEF LogInv
    <3> QED
      BY <1>2, <2>1, <3>1, <3>2, <3>3 DEF LogInv
  <2>2. CASE i = n + 1
    <3>1. log'[i] = d
      BY <1>3, <2>2
    <3>2. \A r \in Runs : Was(Client(r))' => EverListed(Client(r), i)'
      BY <1>3, <2>2 DEF Was, EverListed
    <3> QED
      BY <1>1, <1>7, <3>1, <3>2
  <2> QED
    BY <1>3, <2>1, <2>2
<1>9. log'[1].lists = Standing
  BY <1>2, <1>3 DEF LogInv
<1>10. LogInv'
  BY <1>2, <1>3, <1>6, <1>7, <1>8, <1>9 DEF LogInv, Before, Standing
<1> QED
  BY <1>3, <1>6, <1>7, <1>10 DEF d

LEMMA PivotAccount ==
  ASSUME Inv, NEW t \in Tabs, job[t].at = "pivot", Publishes(PivotDoc(t)),
         UNCHANGED <<remember, epochs, served, spaces, registry, local, saved, runs>>
  PROVE  AccountInv'
<1> DEFINE d == PivotDoc(t)
<1>0. PICK p \in Phrases : p = job[t].p
  BY DEF Inv, JobInv, Staged
<1>1. /\ LogInv' /\ Pivoted' /\ Doc' = d
      /\ \A r \in Runs : /\ Was(Client(r))' <=> remember /\ r = job[t].run
                         /\ Was(Code(r))' <=> r = job[t].code
  BY PivotLog
<1>2. /\ job[t].run \in Runs /\ job[t].run # 0 /\ job[t].code \in Runs
      /\ ~Pivoted /\ served[p] = job[t].run
      /\ remember => local[p] = PendingRecord(t)
      /\ \A q \in Phrases : local[q].run = job[t].run => q = p
  BY <1>0, Bounds DEF Inv, Typed, AccountTyped, JobInv, Staged, OnLog, HookStages, TailStages
<1>3. /\ Successors(t) \subseteq d.lists /\ (d.lists \cap Before) \ {Spent, Other} = {}
      /\ \A r \in Runs : Client(r) \in d.lists <=> remember /\ r = job[t].run
      /\ d.ladder = IF remember THEN 0 ELSE job[t].run
  BY PivotDocShape
<1> HIDE DEF d
<1>4. /\ epochs = <<Before>> /\ registry.sealed = 1 /\ registry.names = {Old, Spent}
      /\ {Old, Spent} \subseteq spaces /\ Current = Before
  <2>1. Untouched
    BY <1>2 DEF Inv, AccountInv
  <2> QED
    BY <2>1 DEF Untouched, Current
<1>5. \A r \in Runs : ~Was(Client(r)) /\ ~Was(Code(r))
  BY <1>2, NoneListed DEF Inv, AccountInv
<1>6. \A q \in Phrases : local[q] # NoRecord => local[q].run \in Runs /\ local[q].pending
  BY <1>5, Bounds DEF Inv, AccountInv, RecordInv, Typed, AccountTyped
<1>7. remember => /\ local[p].run = job[t].run /\ local[p].code = job[t].code
                  /\ local[p].pending /\ local[p] # NoRecord
  BY <1>2 DEF PendingRecord, NoRecord
<1>8. RecordInv'
  <2>1. \A q \in Phrases : local[q] # NoRecord /\ Was(Client(local[q].run))'
                             => Was(Code(local[q].code))'
    BY <1>1, <1>2, <1>6, <1>7
  <2> QED
    BY <1>6, <2>1 DEF Inv, AccountInv, RecordInv
<1>9. RosterInv'
  <2>1. \A r \in Runs : Client(r) \notin Before
    BY Bounds, CredsTyped, CredsApart DEF Before
  <2>2. \A q \in Phrases : Phrase(q) \notin Before
    BY CredsTyped, CredsApart DEF Before
  <2>3. \A r \in Runs : ~StruckOut(Client(r))'
    BY <1>1, <1>3 DEF StruckOut, Was
  <2>4. Current' = Before
    BY <1>4 DEF Current
  <2> QED
    BY <2>1, <2>2, <2>3, <2>4 DEF RosterInv
<1>10. SpendInv'
  <2> SUFFICES ASSUME remember PROVE SpendInv'
    BY DEF SpendInv
  <2>1. Listed(p)'
    BY <1>1, <1>2, <1>3, <1>7 DEF Listed
  <2>2. Opens(Spent)'
    BY <1>4 DEF Opens, Before
  <2>3. \A c \in Runs : Was(Code(c))' => local[p].pending /\ local[p].code = c
    BY <1>1, <1>7
  <2> QED
    BY <1>2, <1>7, <2>1, <2>2, <2>3 DEF SpendInv
<1>11. RegistryInv'
  <2>1. \A r \in Runs : Code(r) \notin registry.names
    BY <1>4, Bounds, CredsApart
  <2>2. Current' = Before
    BY <1>4 DEF Current
  <2>3. d.ladder # 0 => Phrase(p) \in d.lists /\ served[p] = d.ladder
    BY <1>0, <1>2, <1>3 DEF Successors
  <2> QED
    BY <1>1, <1>2, <1>3, <1>4, <2>1, <2>2, <2>3 DEF RegistryInv
<1> QED
  BY <1>1, <1>8, <1>9, <1>10, <1>11 DEF AccountInv

LEMMA PivotStep ==
  ASSUME OneTab, Inv, NEW t \in Tabs, Pivot(t), UNCHANGED remember
  PROVE  Inv'
<1> DEFINE at == IF Len(log) = job[t].head
                 THEN IF remember THEN "escrow" ELSE "append" ELSE "reveal"
           j == [job[t] EXCEPT !.at = at]
<1>1. /\ UNCHANGED <<remember, epochs, served, spaces, registry, local, saved, counts>>
      /\ job[t].at = "pivot" /\ Goes(t, at)
      /\ IF Len(log) = job[t].head THEN Publishes(PivotDoc(t)) ELSE UNCHANGED log
  BY DEF Pivot, At, PivotDoc
<1>2. /\ job[t] \in Jobs /\ job' = [job EXCEPT ![t] = j] /\ at \in Stages
      /\ Len(log) \in Nat /\ Len(epochs) \in Nat
      /\ IF Len(log) = job[t].head THEN at = IF remember THEN "escrow" ELSE "append"
                                     ELSE at = "reveal"
  BY <1>1, Shapes DEF Goes, Inv, Typed, AccountTyped, Stages
<1> HIDE DEF at
<1>3.
      /\ j.at = at /\ j.phase = job[t].phase /\ j.p = job[t].p /\ j.run = job[t].run
      /\ j.code = job[t].code /\ j.doc = job[t].doc /\ j.head = job[t].head
      /\ j.from = job[t].from /\ j.key = job[t].key /\ j.standing = job[t].standing
      /\ j.reg = job[t].reg /\ j.arm = job[t].arm /\ j.drop = job[t].drop
      /\ j.live = job[t].live
      /\ j \in Jobs
  BY <1>2 DEF Jobs
<1>4. /\ j.doc <= Len(log) /\ j.head <= Len(log)
      /\ j.from <= Len(epochs) /\ j.key <= Len(epochs)
  BY <1>3 DEF Inv, Typed, AccountTyped
<1>5. CASE Len(log) # job[t].head
  <2>1. at = "reveal" /\ UNCHANGED log
    BY <1>1, <1>2, <1>5
  <2> HIDE DEF j
  <2>2. job'[t] = j
    BY <1>2, <1>3, Given DEF Inv
  <2>3. Staged(job[t])'
    BY <1>1, <1>3, <2>1, <2>2 DEF Inv, JobInv, Staged, HookStages, TailStages, RememberedStages,
       KeyStages, counts
  <2>4. OnLog(t)'
    BY <1>1, <1>3, <2>1, <2>2 DEF Inv, JobInv, OnLog, HookStages, TailStages, OpenStages
  <2>5. OnRegistry(t)'
    BY <1>1, <1>3, <2>2 DEF Inv, JobInv, OnRegistry
  <2> QED
    BY <1>1, <1>2, <1>3, <1>4, <2>1, <2>3, <2>4, <2>5, JobOnly DEF account
<1>6. CASE Len(log) = job[t].head
  <2>1. /\ at = IF remember THEN "escrow" ELSE "append"
        /\ Publishes(PivotDoc(t))
    BY <1>1, <1>2, <1>6
  <2> HIDE DEF j
  <2>2. AccountInv'
    BY <1>1, <2>1, PivotAccount DEF counts
  <2>3. /\ Pivoted' /\ Doc' = PivotDoc(t)
        /\ log' \in Seq(Entry) /\ Len(log') = Len(log) + 1
        /\ \A r \in Runs : /\ Was(Client(r))' <=> remember /\ r = job[t].run
                           /\ Was(Code(r))' <=> r = job[t].code
    BY <1>1, <2>1, PivotLog
  <2>4. /\ job' \in [Tabs -> Jobs] /\ job'[t] = j
        /\ \A u \in Tabs :
             /\ job'[u].doc <= Len(log') /\ job'[u].head <= Len(log')
             /\ job'[u].from <= Len(epochs') /\ job'[u].key <= Len(epochs')
    <3>1. /\ Len(log') \in Nat /\ Len(log') >= Len(log)
          /\ Len(epochs') \in Nat /\ Len(epochs') >= Len(epochs)
          /\ j.doc <= Len(log') /\ j.head <= Len(log')
          /\ j.from <= Len(epochs') /\ j.key <= Len(epochs')
      BY <1>1, <1>2, <1>3, <1>4, <2>3 DEF Jobs
    <3> QED
      BY <1>2, <1>3, <3>1, JobTyped DEF Inv
  <2>5. Typed'
    BY <1>1, <1>2, <2>3, <2>4 DEF Inv, Typed, AccountTyped, counts, Records
  <2>6. Staged(job[t])'
    BY <1>1, <1>3, <2>1, <2>4 DEF Inv, JobInv, Staged, HookStages, TailStages, RememberedStages,
       KeyStages, counts
  <2>7. /\ job[t].run \in Runs /\ job[t].code \in Runs /\ remember \in BOOLEAN
        /\ remember => local[job[t].p] = PendingRecord(t)
    BY <1>1, Bounds DEF Inv, Typed, AccountTyped, JobInv, Staged, OnLog, HookStages, TailStages
  <2>8. PivotDoc(t).lists \subseteq {Other} \cup Successors(t)
    BY <1>1, PivotDocShape
  <2>9. Successors(t)' = Successors(t)
    BY <1>1, <1>3, <2>4 DEF Successors
  <2>10. OnLog(t)'
    BY <1>1, <1>3, <2>1, <2>3, <2>4, <2>7, <2>8, <2>9 DEF OnLog, HookStages, TailStages, OpenStages,
       PendingRecord, NoRecord
  <2>11. OnRegistry(t)'
    BY <1>1, <1>3, <2>4 DEF Inv, JobInv, OnRegistry
  <2> QED
    BY <2>2, <2>5, <2>6, <2>10, <2>11, EveryTab DEF Inv, JobInv
<1> QED
  BY <1>5, <1>6

-----------------------------------------------------------------------------
(***************************************************************************)
(* Behind the entry: the escrows.                                          *)
(***************************************************************************)
\* What a tab's step owes: the account's types and invariant, and the tab's own.
LEMMA StepOf ==
  ASSUME OneTab, Typed, NEW t \in Tabs, NEW j \in Jobs, job' = [job EXCEPT ![t] = j],
         AccountTyped', Len(log') >= Len(log), Len(epochs') >= Len(epochs),
         j.doc <= Len(log'), j.head <= Len(log'), j.from <= Len(epochs'), j.key <= Len(epochs'),
         AccountInv',
         job'[t] = j => Staged(job[t])' /\ OnLog(t)' /\ OnRegistry(t)'
  PROVE  Inv'
<1>1. Len(log') \in Nat /\ Len(epochs') \in Nat
  BY DEF AccountTyped
<1>2. /\ job' \in [Tabs -> Jobs] /\ job'[t] = j
      /\ \A u \in Tabs :
           /\ job'[u].doc <= Len(log') /\ job'[u].head <= Len(log')
           /\ job'[u].from <= Len(epochs') /\ job'[u].key <= Len(epochs')
  BY <1>1, JobTyped
<1>3. Typed'
  BY <1>2 DEF Typed
<1>4. JobInv(t)'
  BY <1>2 DEF JobInv
<1> QED
  BY <1>3, <1>4, EveryTab DEF Inv

\* The roster stays, or lets in one who may be.
Grows ==
  \/ UNCHANGED epochs
  \/ \E c \in Creds, o \in Creds :
       /\ Escrows(o, c) /\ c # Spent
       /\ \A r \in Runs : c = Client(r) => c \in Doc.lists

LEMMA GrowthKeeps ==
  ASSUME Typed, AccountInv, Grows, Pivoted,
         UNCHANGED <<remember, log, served, spaces, registry, local, saved, runs, acts>>,
         failures' \in 0..MaxFailures
  PROVE  /\ AccountTyped' /\ AccountInv' /\ Pivoted'
         /\ Len(epochs') = Len(epochs) /\ Current \subseteq Current'
         /\ Doc' = Doc /\ (\A c : Was(c)' <=> Was(c))
<1>1. CASE UNCHANGED epochs
  <2>1. AccountInv'
    BY <1>1, AccountKept DEF Typed, AccountTyped, account
  <2> QED
    BY <1>1, <2>1 DEF Typed, AccountTyped, Pivoted, Doc, Current, Was, EverListed
<1>2. CASE ~UNCHANGED epochs
  <2>1. PICK c \in Creds, o \in Creds :
          /\ Escrows(o, c) /\ c # Spent
          /\ \A r \in Runs : c = Client(r) => c \in Doc.lists
    BY <1>2 DEF Grows
  <2>2. /\ epochs' \in Seq(SUBSET Creds) /\ Len(epochs') = Len(epochs)
        /\ Current' = Current \cup {c}
    BY <2>1, Escrowed
  <2>3. RosterInv' /\ SpendInv' /\ RegistryInv'
    BY <2>1, EscrowKeeps DEF AccountInv
  <2>4. Doc' = Doc /\ (\A x : Was(x)' <=> Was(x)) /\ Pivoted'
    BY DEF Doc, Was, EverListed, Pivoted
  <2>5. LogInv'
    BY DEF AccountInv, LogInv, Pivoted, Was, EverListed, Doc
  <2>6. RecordInv'
    BY <2>4 DEF AccountInv, RecordInv
  <2>7. AccountTyped'
    BY <2>2 DEF Typed, AccountTyped
  <2> QED
    BY <2>2, <2>3, <2>4, <2>5, <2>6, <2>7 DEF AccountInv
<1> QED
  BY <1>1, <1>2

\* A client the spent code's key may let in is listed.
LEMMA ClientIsListed ==
  ASSUME Inv, NEW t \in Tabs, remember, job[t].at \in TailStages, Spent \in Current
  PROVE  job[t].run \in Runs /\ Me(t) \in Creds /\ Me(t) \in Doc.lists
<1>1. job[t].run \in Runs /\ Was(Me(t))
  BY Bounds DEF Inv, JobInv, Staged, OnLog, TailStages, Me, Typed, AccountTyped
<1>2. ~StruckOut(Me(t))
  BY <1>1 DEF Inv, AccountInv, RosterInv, Me
<1> QED
  BY <1>1, <1>2, CredsTyped DEF StruckOut, Was, Me

LEMMA EscrowStep ==
  ASSUME OneTab, Inv, NEW t \in Tabs, Escrow(t), UNCHANGED remember
  PROVE  Inv'
<1>1. UNCHANGED <<remember, log, served, spaces, registry, local, saved, counts>>
  BY DEF Escrow
<1>2. \/ /\ job[t].at = "escrow" /\ Escrows(Spent, Me(t)) /\ Goes(t, "escrowCode")
      \/ /\ job[t].at = "escrowCode" /\ Escrows(Spent, Code(job[t].code)) /\ Goes(t, "wrap")
  BY DEF Escrow, EscrowStage, At
<1>3. /\ job[t] \in Jobs /\ job[t].at \in TailStages /\ remember /\ Pivoted
      /\ job[t].code \in Runs
  BY <1>2 DEF Inv, Typed, JobInv, Staged, OnLog, TailStages, RememberedStages
<1>4. Len(epochs) \in 1..Len(epochs) /\ Opens(Spent) /\ Len(log) \in Nat /\ Len(epochs) \in Nat
  BY <1>2, Shapes DEF Escrows, Inv
<1>5. Spent \in Current
  BY <1>4 DEF Opens, Current
<1>6. job[t].run \in Runs /\ Me(t) \in Creds /\ Me(t) \in Doc.lists
  BY <1>3, <1>5, ClientIsListed
<1>7. Grows
  <2>1. Code(job[t].code) # Spent /\ Me(t) # Spent /\ Spent \in Creds
        /\ Code(job[t].code) \in Creds /\ \A r \in Runs : Code(job[t].code) # Client(r)
    BY <1>3, <1>6, Bounds, CredsApart, CredsTyped DEF Me
  <2> QED
    BY <1>2, <1>6, <2>1 DEF Grows
<1>8. /\ AccountTyped' /\ AccountInv' /\ Pivoted'
      /\ Len(epochs') = Len(epochs) /\ Current \subseteq Current'
      /\ Doc' = Doc /\ (\A c : Was(c)' <=> Was(c))
  BY <1>1, <1>3, <1>7, GrowthKeeps DEF Inv, Typed, AccountTyped, counts
<1>9. job[t].at = "escrow" => Me(t) \in Current'
  BY <1>2, <1>6, Escrowed DEF Inv
<1> DEFINE at == IF job[t].at = "escrow" THEN "escrowCode" ELSE "wrap"
           j == [job[t] EXCEPT !.at = at]
<1>10. at \in Stages /\ job' = [job EXCEPT ![t] = j]
  BY <1>2, <1>3 DEF Goes, Stages, Inv, Typed
<1>11. (job[t].at = "escrow" /\ at = "escrowCode") \/ (job[t].at = "escrowCode" /\ at = "wrap")
  BY <1>2
<1> HIDE DEF at
<1>12. /\ j \in Jobs
      /\ j.at = at /\ j.phase = job[t].phase /\ j.p = job[t].p /\ j.run = job[t].run
      /\ j.code = job[t].code /\ j.doc = job[t].doc /\ j.head = job[t].head
      /\ j.from = job[t].from /\ j.key = job[t].key /\ j.standing = job[t].standing
      /\ j.reg = job[t].reg /\ j.arm = job[t].arm /\ j.drop = job[t].drop
      /\ j.live = job[t].live
  BY <1>3, <1>10 DEF Jobs
<1> HIDE DEF j
<1>13. /\ j.doc <= Len(log') /\ j.head <= Len(log')
       /\ j.from <= Len(epochs') /\ j.key <= Len(epochs')
  BY <1>1, <1>8, <1>12 DEF Inv, Typed
<1>14. job'[t] = j => Staged(job[t])' /\ OnLog(t)' /\ OnRegistry(t)'
  <2> SUFFICES ASSUME job'[t] = j PROVE Staged(job[t])' /\ OnLog(t)' /\ OnRegistry(t)'
    OBVIOUS
  <2>1. Staged(job[t])'
    BY <1>1, <1>11, <1>12 DEF Inv, JobInv, Staged, HookStages, TailStages, RememberedStages,
       KeyStages, counts
  <2>2. OnLog(t)'
    BY <1>1, <1>8, <1>9, <1>11, <1>12 DEF Inv, JobInv, OnLog, HookStages, TailStages, OpenStages, Me
  <2>3. OnRegistry(t)'
    BY <1>1, <1>8, <1>12 DEF Inv, JobInv, OnRegistry
  <2> QED
    BY <2>1, <2>2, <2>3
<1>15. Len(log') >= Len(log) /\ Len(epochs') >= Len(epochs)
  BY <1>1, <1>4, <1>8
<1> QED
  BY <1>8, <1>10, <1>12, <1>13, <1>14, <1>15, StepOf DEF Inv

LEMMA WrapStep ==
  ASSUME OneTab, Inv, NEW t \in Tabs, Wrap(t), UNCHANGED remember
  PROVE  Inv'
<1> DEFINE c == Phrase(job[t].p)
<1>1. /\ UNCHANGED <<remember, log, served, spaces, registry, local, saved, runs, acts>>
      /\ job[t].at = "wrap"
      /\ UNCHANGED epochs \/ Escrows(Me(t), c)
  BY DEF Wrap, At
<1>2. PICK at \in {"stand", "prepare", "rotate"} :
        /\ Goes(t, at)
        /\ at = "prepare" => job[t].phase = "resume"
        /\ at = "rotate" => job[t].phase # "resume"
  <2>1. Goes(t, "stand") \/ Unestablished(t)
    BY DEF Wrap
  <2>2. CASE Goes(t, "stand")
    BY <2>2
  <2>3. CASE Unestablished(t)
    BY <2>3 DEF Unestablished
  <2> QED
    BY <2>1, <2>2, <2>3
<1>3. failures' \in 0..MaxFailures
  BY Bounds DEF Wrap, Fine, Counted, Inv, Typed, AccountTyped
<1>4. /\ job[t] \in Jobs /\ remember /\ Pivoted
      /\ job[t].p \in Phrases /\ job[t].run \in Runs
      /\ Len(log) \in Nat /\ Len(epochs) \in Nat
  BY <1>1, Bounds, Shapes DEF Inv, Typed, AccountTyped, JobInv, Staged, OnLog, TailStages,
     RememberedStages
<1>5. Grows
  <2>1. c \in Creds /\ Me(t) \in Creds /\ c # Spent /\ \A r \in Runs : c # Client(r)
    BY <1>4, Bounds, CredsApart, CredsTyped DEF Me
  <2> QED
    BY <1>1, <2>1 DEF Grows
<1>6. /\ AccountTyped' /\ AccountInv' /\ Pivoted'
      /\ Len(epochs') = Len(epochs) /\ Current \subseteq Current'
      /\ Doc' = Doc /\ (\A x : Was(x)' <=> Was(x))
  BY <1>1, <1>3, <1>4, <1>5, GrowthKeeps DEF Inv
<1> DEFINE j == [job[t] EXCEPT !.at = at]
<1>7. job' = [job EXCEPT ![t] = j] /\ at \in Stages
  BY <1>2, <1>4 DEF Goes, Stages, Inv, Typed
<1>8. /\ j \in Jobs
      /\ j.at = at /\ j.phase = job[t].phase /\ j.p = job[t].p /\ j.run = job[t].run
      /\ j.code = job[t].code /\ j.doc = job[t].doc /\ j.head = job[t].head
      /\ j.from = job[t].from /\ j.key = job[t].key /\ j.standing = job[t].standing
      /\ j.reg = job[t].reg /\ j.arm = job[t].arm /\ j.drop = job[t].drop
      /\ j.live = job[t].live
  BY <1>4, <1>7 DEF Jobs
<1> HIDE DEF j
<1>9. /\ j.doc <= Len(log') /\ j.head <= Len(log')
      /\ j.from <= Len(epochs') /\ j.key <= Len(epochs')
      /\ Len(log') >= Len(log) /\ Len(epochs') >= Len(epochs)
  BY <1>1, <1>4, <1>6, <1>8 DEF Inv, Typed
<1>10. job'[t] = j => Staged(job[t])' /\ OnLog(t)' /\ OnRegistry(t)'
  <2> SUFFICES ASSUME job'[t] = j PROVE Staged(job[t])' /\ OnLog(t)' /\ OnRegistry(t)'
    OBVIOUS
  <2>1. Staged(job[t])'
    BY <1>1, <1>2, <1>8 DEF Inv, JobInv, Staged, HookStages, TailStages, RememberedStages,
       KeyStages
  <2>2. OnLog(t)'
    BY <1>1, <1>2, <1>6, <1>8 DEF Inv, JobInv, OnLog, HookStages, TailStages, OpenStages
  <2>3. OnRegistry(t)'
    BY <1>1, <1>6, <1>8 DEF Inv, JobInv, OnRegistry
  <2> QED
    BY <2>1, <2>2, <2>3
<1> QED
  BY <1>6, <1>7, <1>8, <1>9, <1>10, StepOf DEF Inv

LEMMA ReadStep ==
  ASSUME OneTab, Inv, NEW t \in Tabs, Read(t), UNCHANGED remember
  PROVE  Inv'
<1>1. UNCHANGED <<remember, log, served, spaces, registry, local, saved, counts>>
      /\ job[t].at = "read"
  BY DEF Read, At
<1>2. CASE UNCHANGED epochs /\ job' = [job EXCEPT ![t] = Idle]
  BY <1>1, <1>2, ToIdle DEF counts, Inv, Typed, AccountTyped, account
<1>3. CASE ReadRoster(t) /\ Goes(t, "readCode")
  <2>1. /\ job[t] \in Jobs /\ remember /\ Pivoted /\ job[t].at \in TailStages
        /\ job[t].p \in Phrases /\ job[t].run \in Runs
        /\ Len(log) \in Nat /\ Len(epochs) \in Nat /\ Len(epochs) \in 1..Len(epochs)
    BY <1>1, Bounds, Shapes DEF Inv, Typed, AccountTyped, JobInv, Staged, OnLog, TailStages,
       RememberedStages
  <2>2. Grows
    <3>1. CASE UNCHANGED epochs
      BY <3>1 DEF Grows
    <3>2. CASE ~UNCHANGED epochs
      <4>1. Escrows(Spent, Me(t))
        BY <1>3, <3>2 DEF ReadRoster
      <4>2. Spent \in Current
        BY <2>1, <4>1 DEF Escrows, Opens, Current
      <4>3. Me(t) \in Doc.lists /\ Me(t) \in Creds /\ Spent \in Creds /\ Me(t) # Spent
        BY <2>1, <4>2, ClientIsListed, CredsTyped, Bounds, CredsApart DEF Me
      <4> QED
        BY <4>1, <4>3 DEF Grows
    <3> QED
      BY <3>1, <3>2
  <2>3. /\ AccountTyped' /\ AccountInv' /\ Pivoted'
        /\ Len(epochs') = Len(epochs) /\ Current \subseteq Current'
        /\ Doc' = Doc /\ (\A c : Was(c)' <=> Was(c))
    BY <1>1, <2>1, <2>2, GrowthKeeps DEF Inv, Typed, AccountTyped, counts
  <2>4. Me(t) \in Current'
    <3>1. CASE Me(t) \in Current
      BY <2>3, <3>1
    <3>2. CASE Me(t) \notin Current
      <4>1. Escrows(Spent, Me(t)) /\ Me(t) \in Creds
        BY <1>3, <2>1, <3>2, CredsTyped DEF ReadRoster, Me
      <4> QED
        BY <4>1, Escrowed DEF Inv
    <3> QED
      BY <3>1, <3>2
  <2> DEFINE at == "readCode"
             j == [job[t] EXCEPT !.at = at]
  <2>5. job' = [job EXCEPT ![t] = j] /\ at \in Stages
    BY <1>3, <2>1 DEF Goes, Stages, Inv, Typed
  <2>6. /\ j \in Jobs
      /\ j.at = at /\ j.phase = job[t].phase /\ j.p = job[t].p /\ j.run = job[t].run
      /\ j.code = job[t].code /\ j.doc = job[t].doc /\ j.head = job[t].head
      /\ j.from = job[t].from /\ j.key = job[t].key /\ j.standing = job[t].standing
      /\ j.reg = job[t].reg /\ j.arm = job[t].arm /\ j.drop = job[t].drop
      /\ j.live = job[t].live
    BY <2>1, <2>5 DEF Jobs
  <2> HIDE DEF j
  <2>7. /\ j.doc <= Len(log') /\ j.head <= Len(log')
        /\ j.from <= Len(epochs') /\ j.key <= Len(epochs')
        /\ Len(log') >= Len(log) /\ Len(epochs') >= Len(epochs)
    BY <1>1, <2>1, <2>3, <2>6 DEF Inv, Typed
  <2>8. job'[t] = j => Staged(job[t])' /\ OnLog(t)' /\ OnRegistry(t)'
    <3> SUFFICES ASSUME job'[t] = j PROVE Staged(job[t])' /\ OnLog(t)' /\ OnRegistry(t)'
      OBVIOUS
    <3>1. Staged(job[t])'
      BY <1>1, <2>6 DEF Inv, JobInv, Staged, HookStages, TailStages, RememberedStages,
       KeyStages, counts
    <3>2. OnLog(t)'
      BY <1>1, <2>3, <2>4, <2>6 DEF Inv, JobInv, OnLog, HookStages, TailStages, OpenStages, Me
    <3>3. OnRegistry(t)'
      BY <1>1, <2>3, <2>6 DEF Inv, JobInv, OnRegistry
    <3> QED
      BY <3>1, <3>2, <3>3
  <2> QED
    BY <2>3, <2>5, <2>6, <2>7, <2>8, StepOf DEF Inv
<1> QED
  BY <1>2, <1>3 DEF Read

LEMMA ReadCodeStep ==
  ASSUME OneTab, Inv, NEW t \in Tabs, ReadCode(t), UNCHANGED remember
  PROVE  Inv'
<1> DEFINE c == Code(job[t].code)
           key == Len(epochs)
           j == [job[t] EXCEPT !.at = "wrap", !.key = key, !.live = TRUE]
<1>1. /\ UNCHANGED <<remember, log, served, spaces, registry, local, saved, runs, acts>>
      /\ job[t].at = "readCode"
      /\ UNCHANGED epochs \/ Escrows(Spent, c)
  BY DEF ReadCode, At
<1>2. failures' \in 0..MaxFailures
  BY Bounds DEF ReadCode, Fine, Counted, Inv, Typed, AccountTyped
<1>3. /\ job[t] \in Jobs /\ remember /\ Pivoted /\ job[t].code \in Runs
      /\ Len(log) \in Nat /\ key \in Nat /\ key >= 1
      /\ job' = [job EXCEPT ![t] = j]
  BY <1>1, Shapes DEF ReadCode, Inv, Typed, JobInv, Staged, OnLog, TailStages, RememberedStages
<1>4. Grows
  <2>1. c \in Creds /\ Spent \in Creds /\ c # Spent /\ \A r \in Runs : c # Client(r)
    BY <1>3, Bounds, CredsApart, CredsTyped
  <2> QED
    BY <1>1, <2>1 DEF Grows
<1>5. /\ AccountTyped' /\ AccountInv' /\ Pivoted'
      /\ Len(epochs') = Len(epochs) /\ Current \subseteq Current'
      /\ Doc' = Doc /\ (\A x : Was(x)' <=> Was(x))
  BY <1>1, <1>2, <1>3, <1>4, GrowthKeeps DEF Inv
<1>6. Len(epochs') = key
  BY <1>5
<1> HIDE DEF key
<1>7. /\ j \in Jobs
      /\ j.at = "wrap" /\ j.phase = job[t].phase /\ j.p = job[t].p /\ j.run = job[t].run
      /\ j.code = job[t].code /\ j.doc = job[t].doc /\ j.head = job[t].head
      /\ j.from = job[t].from /\ j.key = key /\ j.standing = job[t].standing
      /\ j.reg = job[t].reg /\ j.arm = job[t].arm /\ j.drop = job[t].drop
      /\ j.live = TRUE
  BY <1>3 DEF Jobs, Stages
<1> HIDE DEF j
<1>8. /\ j.doc <= Len(log') /\ j.head <= Len(log')
      /\ j.from <= Len(epochs') /\ j.key <= Len(epochs')
      /\ Len(log') >= Len(log) /\ Len(epochs') >= Len(epochs)
  BY <1>1, <1>3, <1>5, <1>6, <1>7 DEF Inv, Typed
<1>9. job'[t] = j => Staged(job[t])' /\ OnLog(t)' /\ OnRegistry(t)'
  <2> SUFFICES ASSUME job'[t] = j PROVE Staged(job[t])' /\ OnLog(t)' /\ OnRegistry(t)'
    OBVIOUS
  <2>1. Staged(job[t])'
    BY <1>1, <1>3, <1>7 DEF Inv, JobInv, Staged, HookStages, TailStages, RememberedStages,
       KeyStages
  <2>2. OnLog(t)'
    BY <1>1, <1>5, <1>7 DEF Inv, JobInv, OnLog, HookStages, TailStages, OpenStages
  <2>3. job[t].from = 0 /\ registry'.sealed # 0
    BY <1>1 DEF Inv, JobInv, Staged, Typed, AccountTyped, Registries
  <2>4. OnRegistry(t)'
    BY <1>1, <1>7, <2>3 DEF Inv, JobInv, OnRegistry
  <2> QED
    BY <2>1, <2>2, <2>4
<1> QED
  BY <1>3, <1>5, <1>7, <1>8, <1>9, StepOf DEF Inv

-----------------------------------------------------------------------------
(***************************************************************************)
(* Behind the entry: the passphrase's own entry and the rotations.         *)
(***************************************************************************)
\* The document with a passphrase in, and the ladder of its record.
StandDoc(t) == [Doc EXCEPT !.lists = @ \cup {Phrase(job[t].p)}, !.ladder = served[job[t].p]]

LEMMA StandAccount ==
  ASSUME Inv, NEW t \in Tabs, job[t].at = "stand",
         UNCHANGED log \/ Publishes(StandDoc(t)),
         UNCHANGED <<remember, epochs, served, spaces, registry, local, saved, runs>>
  PROVE  /\ AccountInv' /\ log' \in Seq(Entry) /\ Len(log') \in Nat /\ Len(log') >= Len(log)
         /\ Pivoted'
         /\ \A r \in Runs : /\ Client(r) \in Doc'.lists <=> Client(r) \in Doc.lists
                            /\ Was(Client(r))' <=> Was(Client(r))
                            /\ Was(Code(r))' <=> Was(Code(r))
<1>1. Pivoted /\ job[t].p \in Phrases /\ Len(log) \in Nat /\ log \in Seq(Entry)
  BY Shapes DEF Inv, Typed, AccountTyped, JobInv, Staged, OnLog, TailStages
<1>2. CASE UNCHANGED log
  <2>1. AccountInv'
    BY <1>2, AccountKept DEF Inv, Typed, AccountTyped, account
  <2> QED
    BY <1>1, <1>2, <2>1 DEF Pivoted, Doc, Was, EverListed
<1>3. CASE Publishes(StandDoc(t))
  <2> DEFINE d == StandDoc(t)
             c == Phrase(job[t].p)
  <2>1. /\ d \in Entry /\ d.lists = Doc.lists \cup {c} /\ d.ladder = served[job[t].p]
    <3>1. Doc \in Entry /\ c \in Creds /\ served[job[t].p] \in 0..MaxRuns
      BY <1>1, Shapes, CredsTyped DEF Inv, Typed, AccountTyped
    <3> QED
      BY <3>1 DEF Entry, StandDoc
  <2>2. c # Spent /\ \A r \in Runs : c # Client(r) /\ c # Code(r)
    BY <1>1, CredsApart, Bounds
  <2> HIDE DEF d
  <2>3. Quiet(d)
    BY <1>1, <2>1, <2>2 DEF Quiet, Pivoted
  <2>4. /\ Doc.lists \subseteq d.lists
        /\ \A x \in d.lists \ Doc.lists : \E p \in Phrases : x = Phrase(p)
        /\ \E p \in Phrases : Phrase(p) \in d.lists /\ served[p] = d.ladder
    BY <1>1, <2>1
  <2>5. Publishes(d)
    BY <1>3 DEF d
  <2> QED
    BY <1>1, <2>1, <2>3, <2>4, <2>5, EntryKeeps DEF Inv, Pivoted
<1> QED
  BY <1>2, <1>3

LEMMA StandStep ==
  ASSUME OneTab, Inv, NEW t \in Tabs, Stand(t), UNCHANGED remember
  PROVE  Inv'
<1>1. /\ UNCHANGED <<remember, epochs, served, spaces, registry, local, saved, runs, acts>>
      /\ job[t].at = "stand"
      /\ UNCHANGED log \/ Publishes(StandDoc(t))
      /\ Established(t) \/ Unestablished(t)
  BY DEF Stand, At, StandDoc
<1>2. failures' \in 0..MaxFailures
  BY Bounds DEF Stand, Fine, Counted, Inv, Typed, AccountTyped
<1>3. /\ job[t] \in Jobs /\ remember /\ Pivoted
      /\ Len(log) \in Nat /\ Len(epochs) \in Nat
  BY <1>1, Shapes DEF Inv, Typed, AccountTyped, JobInv, Staged, OnLog, TailStages, RememberedStages
<1>4. /\ AccountInv' /\ log' \in Seq(Entry) /\ Len(log') \in Nat /\ Len(log') >= Len(log)
      /\ Pivoted'
      /\ \A r \in Runs : /\ Client(r) \in Doc'.lists <=> Client(r) \in Doc.lists
                         /\ Was(Client(r))' <=> Was(Client(r))
                         /\ Was(Code(r))' <=> Was(Code(r))
  BY <1>1, StandAccount
<1>5. AccountTyped'
  BY <1>1, <1>2, <1>3, <1>4 DEF Inv, Typed, AccountTyped, Records
<1> DEFINE at == IF job[t].phase = "resume" THEN "prepare" ELSE "rotate"
<1>6. PICK standing \in BOOLEAN : job' = [job EXCEPT ![t] = [job[t] EXCEPT !.at = at, !.standing = standing]]
  <2>1. CASE Established(t)
    BY <1>3, <2>1 DEF Established, Inv, Typed
  <2>2. CASE Unestablished(t)
    <3>1. job' = [job EXCEPT ![t] = [job[t] EXCEPT !.at = at]]
      BY <2>2 DEF Unestablished, Goes
    <3>2. job[t].standing \in BOOLEAN
      BY <1>3 DEF Jobs
    <3>3. [job[t] EXCEPT !.at = at] = [job[t] EXCEPT !.at = at, !.standing = job[t].standing]
      BY <1>3 DEF Jobs
    <3> QED
      BY <3>1, <3>2, <3>3
  <2> QED
    BY <1>1, <2>1, <2>2
<1> DEFINE j == [job[t] EXCEPT !.at = at, !.standing = standing]
<1>7. /\ at \in Stages
      /\ \/ at = "prepare" /\ job[t].phase = "resume"
         \/ at = "rotate" /\ job[t].phase # "resume"
  BY DEF Stages
<1> HIDE DEF at
<1>8. /\ j \in Jobs
      /\ j.at = at /\ j.phase = job[t].phase /\ j.p = job[t].p /\ j.run = job[t].run
      /\ j.code = job[t].code /\ j.doc = job[t].doc /\ j.head = job[t].head
      /\ j.from = job[t].from /\ j.key = job[t].key /\ j.standing = standing
      /\ j.reg = job[t].reg /\ j.arm = job[t].arm /\ j.drop = job[t].drop
      /\ j.live = job[t].live
  BY <1>3, <1>7 DEF Jobs
<1>9. job' = [job EXCEPT ![t] = j]
  BY <1>6
<1> HIDE DEF j
<1>10. /\ j.doc <= Len(log') /\ j.head <= Len(log')
       /\ j.from <= Len(epochs') /\ j.key <= Len(epochs')
       /\ Len(log') >= Len(log) /\ Len(epochs') >= Len(epochs)
  BY <1>1, <1>3, <1>4, <1>8 DEF Inv, Typed, Jobs
<1>11. job'[t] = j => Staged(job[t])' /\ OnLog(t)' /\ OnRegistry(t)'
  <2> SUFFICES ASSUME job'[t] = j PROVE Staged(job[t])' /\ OnLog(t)' /\ OnRegistry(t)'
    OBVIOUS
  <2>1. Staged(job[t])'
    BY <1>1, <1>7, <1>8 DEF Inv, JobInv, Staged, HookStages, TailStages, RememberedStages,
       KeyStages
  <2>2. /\ Current' = Current /\ job[t].run \in Runs /\ job[t].code \in Runs
    BY <1>1, <1>3, Bounds DEF Current, Inv, JobInv, Staged, TailStages, Typed, AccountTyped
  <2>3. OnLog(t)'
    BY <1>1, <1>4, <1>7, <1>8, <2>2 DEF Inv, JobInv, OnLog, HookStages, TailStages, OpenStages
  <2>4. OnRegistry(t)'
    BY <1>1, <1>8 DEF Inv, JobInv, OnRegistry
  <2> QED
    BY <2>1, <2>3, <2>4
<1> QED
  BY <1>4, <1>5, <1>8, <1>9, <1>10, <1>11, StepOf DEF Inv

\* What a rotation leaves of the account, the registry sealed to an epoch that
\* is open to whoever opens the current one.
LEMMA RotationAccount ==
  ASSUME Typed, AccountInv, Rotates, Pivoted,
         UNCHANGED <<remember, log, served, spaces, local, saved, runs>>,
         NEW k, registry' = [registry EXCEPT !.sealed = k], k \in Nat \ {0}, k <= Len(epochs'),
         (Doc.lists \cap Current') \ {Spent, Other} # {} =>
           ((Doc.lists \cap Current') \ {Spent, Other}) \cap epochs'[k] # {}
  PROVE  /\ AccountInv' /\ Pivoted' /\ Doc' = Doc /\ (\A c : Was(c)' <=> Was(c))
         /\ registry' \in Registries /\ registry'.sealed = k
         /\ registry'.names = registry.names /\ registry'.phrase = registry.phrase
         /\ epochs' \in Seq(SUBSET Creds) /\ Len(epochs') \in Nat /\ Len(epochs') >= Len(epochs)
         /\ \A r \in Runs : Client(r) \in Doc.lists => Client(r) \in Current'
<1>1. /\ registry' \in Registries /\ registry'.sealed = k
      /\ registry'.names = registry.names /\ registry'.phrase = registry.phrase
  BY DEF Typed, AccountTyped, Registries
<1>2. Pivoted' /\ Doc' = Doc /\ (\A c : Was(c)' <=> Was(c))
  BY DEF Pivoted, Doc, Was, EverListed
<1>3. /\ RosterInv' /\ SpendInv'
      /\ \A r \in Runs : Client(r) \in Doc.lists => Client(r) \in Current'
  BY RotationKeeps DEF AccountInv
<1>4. LogInv'
  BY DEF AccountInv, LogInv, Pivoted, Was, EverListed, Doc
<1>5. RecordInv'
  BY <1>1, <1>2 DEF AccountInv, RecordInv
<1>6. RegistryInv'
  BY <1>1, <1>2 DEF AccountInv, RegistryInv
<1> QED
  BY <1>1, <1>2, <1>3, <1>4, <1>5, <1>6, Rotated DEF AccountInv

LEMMA RotateOffStep ==
  ASSUME OneTab, Inv, NEW t \in Tabs, RotateOff(t), UNCHANGED remember
  PROVE  Inv'
<1>1. UNCHANGED <<remember, log, served, spaces, registry, local, saved, counts>>
      /\ job[t].at = "rotate"
  BY DEF RotateOff, At
<1>2. CASE Me(t) \notin Current
  BY <1>1, <1>2, ToIdle DEF RotateOff, counts, Inv, Typed, AccountTyped, account
<1>3. CASE Me(t) \in Current
  <2> DEFINE from == Len(epochs)
             key == Len(epochs')
             j == [job[t] EXCEPT !.at = "reseal", !.from = from, !.key = key]
             opening == (Doc.lists \cap Current) \ {Spent, Other}
             k == registry.sealed
  <2>1. /\ job[t] \in Jobs /\ remember /\ Pivoted /\ job[t].run \in Runs
        /\ Len(log) \in Nat /\ from \in Nat /\ from >= 1
        /\ k \in Nat \ {0} /\ k <= from /\ registry \in Registries
    BY <1>1, Bounds, Shapes DEF Inv, Typed, AccountTyped, JobInv, Staged, OnLog, TailStages,
       RememberedStages, Registries
  <2>2. Rotates /\ job' = [job EXCEPT ![t] = j]
    BY <1>3, <2>1 DEF RotateOff, NewKey, Inv, Typed
  <2>3. /\ epochs' \in Seq(SUBSET Creds) /\ key \in Nat /\ key >= from
        /\ \A i \in 1..from : epochs'[i] = epochs[i]
        /\ Current' = Recipients(Doc.lists)
    BY <2>2, Rotated DEF Inv
  <2>4. (Doc.lists \cap Current') \ {Spent, Other} # {} =>
           ((Doc.lists \cap Current') \ {Spent, Other}) \cap epochs'[k] # {}
    <3>1. Me(t) \in opening
      BY <1>3, <2>1, Bounds, CredsApart DEF Inv, AccountInv, RosterInv, Me
    <3>2. PICK c \in opening : c \in epochs[k]
      BY <3>1 DEF Inv, AccountInv, RegistryInv
    <3>3. c \in Recipients(Doc.lists)
      BY <3>2 DEF Recipients
    <3>4. epochs'[k] = epochs[k]
      BY <2>1, <2>3
    <3> QED
      BY <2>3, <3>2, <3>3, <3>4
  <2>5. registry' = [registry EXCEPT !.sealed = k]
    BY <1>1, <2>1 DEF Registries
  <2>6. /\ AccountInv' /\ Pivoted' /\ Doc' = Doc /\ (\A c : Was(c)' <=> Was(c))
        /\ \A r \in Runs : Client(r) \in Doc.lists => Client(r) \in Current'
    <3>1. k <= Len(epochs')
      BY <2>1, <2>3
    <3> HIDE DEF k
    <3> QED
      BY <1>1, <2>1, <2>2, <2>4, <2>5, <3>1, RotationAccount DEF Inv, counts
  <2>7. AccountTyped'
    BY <1>1, <2>1, <2>3 DEF Inv, Typed, AccountTyped, counts
  <2> HIDE DEF from, key
  <2>8. /\ j \in Jobs
      /\ j.at = "reseal" /\ j.phase = job[t].phase /\ j.p = job[t].p
      /\ j.run = job[t].run /\ j.code = job[t].code /\ j.doc = job[t].doc
      /\ j.head = job[t].head /\ j.from = from /\ j.key = key
      /\ j.standing = job[t].standing /\ j.reg = job[t].reg /\ j.arm = job[t].arm
      /\ j.drop = job[t].drop /\ j.live = job[t].live
    BY <2>1, <2>3 DEF Jobs, Stages
  <2> HIDE DEF j
  <2>9. /\ j.doc <= Len(log') /\ j.head <= Len(log')
        /\ j.from <= Len(epochs') /\ j.key <= Len(epochs')
        /\ Len(log') >= Len(log) /\ Len(epochs') >= Len(epochs)
    BY <1>1, <2>1, <2>3, <2>8 DEF Inv, Typed, from, key
  <2>10. job'[t] = j => Staged(job[t])' /\ OnLog(t)' /\ OnRegistry(t)'
    <3> SUFFICES ASSUME job'[t] = j PROVE Staged(job[t])' /\ OnLog(t)' /\ OnRegistry(t)'
      OBVIOUS
    <3>1. Staged(job[t])'
      BY <1>1, <2>1, <2>3, <2>8 DEF Inv, JobInv, Staged, HookStages, TailStages, RememberedStages,
       KeyStages, counts
    <3>2. OnLog(t)'
      BY <1>1, <2>1, <2>6, <2>8 DEF Inv, JobInv, OnLog, HookStages, TailStages, OpenStages
    <3>3. OnRegistry(t)'
      BY <1>1, <2>8 DEF Inv, JobInv, OnRegistry, key
    <3> QED
      BY <3>1, <3>2, <3>3
  <2> QED
    BY <2>2, <2>6, <2>7, <2>8, <2>9, <2>10, StepOf DEF Inv
<1> QED
  BY <1>2, <1>3

LEMMA SweepStep ==
  ASSUME OneTab, Inv, NEW t \in Tabs, Sweep(t), UNCHANGED remember
  PROVE  Inv'
<1> DEFINE key == Len(epochs')
           j == [job[t] EXCEPT !.key = key]
<1>1. /\ UNCHANGED <<remember, log, served, spaces, local, saved, counts>>
      /\ job[t].at \in {"shown", "saved", "session"} /\ job[t].live
      /\ Rotates /\ registry' = [registry EXCEPT !.sealed = key]
  BY DEF Sweep
<1>2. /\ job[t] \in Jobs /\ remember /\ Pivoted /\ job[t].run \in Runs /\ job[t].from = 0
      /\ Len(log) \in Nat /\ Len(epochs) \in Nat /\ Len(epochs) >= 1
      /\ registry \in Registries
      /\ job' = [job EXCEPT ![t] = j]
  BY <1>1, Bounds, Shapes DEF Sweep, Inv, Typed, AccountTyped, JobInv, Staged, OnLog, TailStages
<1>3. /\ epochs' \in Seq(SUBSET Creds) /\ key \in Nat /\ key >= Len(epochs)
      /\ key \in Nat \ {0} /\ key <= Len(epochs')
  BY <1>1, <1>2, Rotated DEF Inv
<1>4. (Doc.lists \cap Current') \ {Spent, Other} # {} =>
           ((Doc.lists \cap Current') \ {Spent, Other}) \cap epochs'[key] # {}
  BY DEF Current
<1>5. /\ AccountInv' /\ Pivoted' /\ Doc' = Doc /\ (\A c : Was(c)' <=> Was(c))
      /\ registry' \in Registries /\ registry'.sealed = key
      /\ registry'.names = registry.names /\ registry'.phrase = registry.phrase
      /\ \A r \in Runs : Client(r) \in Doc.lists => Client(r) \in Current'
  <2> DEFINE k == key
  <2>1. registry' = [registry EXCEPT !.sealed = k] /\ k \in Nat \ {0} /\ k <= Len(epochs')
        /\ ((Doc.lists \cap Current') \ {Spent, Other} # {} =>
              ((Doc.lists \cap Current') \ {Spent, Other}) \cap epochs'[k] # {})
    BY <1>1, <1>3, <1>4
  <2> HIDE DEF k
  <2>2. /\ AccountInv' /\ Pivoted' /\ Doc' = Doc /\ (\A c : Was(c)' <=> Was(c))
        /\ registry' \in Registries /\ registry'.sealed = k
        /\ registry'.names = registry.names /\ registry'.phrase = registry.phrase
        /\ \A r \in Runs : Client(r) \in Doc.lists => Client(r) \in Current'
    BY <1>1, <1>2, <2>1, RotationAccount DEF Inv, counts
  <2> QED
    BY <2>2 DEF k
<1>6. AccountTyped'
  BY <1>1, <1>2, <1>3, <1>5 DEF Inv, Typed, AccountTyped, counts
<1> HIDE DEF key
<1>7. /\ j \in Jobs
      /\ j.at = job[t].at /\ j.phase = job[t].phase /\ j.p = job[t].p
      /\ j.run = job[t].run /\ j.code = job[t].code /\ j.doc = job[t].doc
      /\ j.head = job[t].head /\ j.from = job[t].from /\ j.key = key
      /\ j.standing = job[t].standing /\ j.reg = job[t].reg /\ j.arm = job[t].arm
      /\ j.drop = job[t].drop /\ j.live = job[t].live
  BY <1>2, <1>3 DEF Jobs
<1> HIDE DEF j
<1>8. /\ j.doc <= Len(log') /\ j.head <= Len(log')
      /\ j.from <= Len(epochs') /\ j.key <= Len(epochs')
      /\ Len(log') >= Len(log) /\ Len(epochs') >= Len(epochs)
  BY <1>1, <1>2, <1>3, <1>7 DEF Inv, Typed, key
<1>9. job'[t] = j => Staged(job[t])' /\ OnLog(t)' /\ OnRegistry(t)'
  <2> SUFFICES ASSUME job'[t] = j PROVE Staged(job[t])' /\ OnLog(t)' /\ OnRegistry(t)'
    OBVIOUS
  <2>1. Staged(job[t])'
    BY <1>1, <1>2, <1>3, <1>7 DEF Inv, JobInv, Staged, HookStages, TailStages, RememberedStages,
       KeyStages, counts
  <2>2. OnLog(t)'
    BY <1>1, <1>2, <1>5, <1>7 DEF Inv, JobInv, OnLog, HookStages, TailStages, OpenStages
  <2>3. OnRegistry(t)'
    BY <1>2, <1>3, <1>5, <1>7 DEF Inv, JobInv, OnRegistry
  <2> QED
    BY <2>1, <2>2, <2>3
<1> QED
  BY <1>2, <1>5, <1>6, <1>7, <1>8, <1>9, StepOf DEF Inv

LEMMA ReplaceRecipientsStep ==
  ASSUME OneTab, Inv, NEW t \in Tabs, ReplaceRecipients(t), UNCHANGED remember
  PROVE  Inv'
<1> DEFINE from == Len(epochs)
           key == Len(epochs) + 1
           succ == Successors(t)
           next == Recipients(Doc.lists) \cup succ
           j == [job[t] EXCEPT !.at = "registry", !.from = from, !.key = key, !.standing = TRUE]
<1>1. /\ UNCHANGED <<remember, log, served, spaces, registry, local, saved, counts>>
      /\ job[t].at = "append"
      /\ epochs' = Append(Wrapped(succ), next)
  BY DEF ReplaceRecipients, At
<1>2. /\ job[t] \in Jobs /\ ~remember /\ Pivoted /\ job[t].p \in Phrases
      /\ job[t].run \in Runs /\ job[t].code \in Runs
      /\ Len(log) \in Nat /\ from \in Nat /\ from >= 1
      /\ registry \in Registries /\ registry.sealed \in 1..from
      /\ Doc.lists \subseteq {Other} \cup succ
      /\ Typed /\ AccountInv
  BY <1>1, Bounds, Shapes DEF Inv, Typed, AccountTyped, JobInv, Staged, OnLog, TailStages,
     Registries
<1>3. job' = [job EXCEPT ![t] = j]
  BY <1>2 DEF ReplaceRecipients, Inv, Typed
<1>4. succ = {Code(job[t].code), Phrase(job[t].p)} /\ succ \in SUBSET Creds
  BY <1>2, CredsTyped DEF Successors
<1>5. next \in SUBSET Creds
  BY <1>2, <1>4, Shapes, RecipientsShape
<1>6. /\ Wrapped(succ) \in Seq(SUBSET Creds) /\ Len(Wrapped(succ)) = from
      /\ \A i \in 1..from : Wrapped(succ)[i] = epochs[i] \cup succ
  BY <1>2, <1>4, WrappedShape
<1> HIDE DEF next, succ
<1>7. /\ epochs' \in Seq(SUBSET Creds) /\ Len(epochs') = key
      /\ \A i \in 1..from : epochs'[i] = epochs[i] \cup succ
      /\ epochs'[key] = next /\ Current' = next
  <2>1. /\ epochs' \in Seq(SUBSET Creds) /\ Len(epochs') = key
        /\ \A i \in 1..from : epochs'[i] = Wrapped(succ)[i]
        /\ epochs'[key] = next
    BY <1>1, <1>2, <1>5, <1>6
  <2> QED
    BY <1>6, <2>1 DEF Current
<1>8. Doc' = Doc /\ Pivoted' /\ (\A c : Was(c)' <=> Was(c)) /\ (\A c : StruckOut(c)' <=> StruckOut(c))
  BY <1>1, <1>2 DEF Doc, Pivoted, Was, EverListed, StruckOut
<1>9. RosterInv'
  <2>1. /\ \A r \in Runs : Client(r) \notin succ
        /\ Spent \notin succ
    BY <1>2, <1>4, Bounds, CredsApart
  <2>2. \A r \in Runs : Client(r) \in next => Client(r) \in Doc.lists
    BY <2>1 DEF next, Recipients
  <2>3. Spent \notin next
    BY <1>2, <2>1 DEF next, Recipients, Pivoted
  <2>4. ASSUME NEW p \in Phrases, Phrase(p) \in next, Phrase(p) \notin Doc.lists
        PROVE  Opens(Phrase(p))'
    <3>1. Phrase(p) \in succ
      BY <2>4 DEF next, Recipients
    <3>2. \A i \in 1..key : Phrase(p) \in epochs'[i]
      BY <1>2, <1>7, <2>4, <3>1
    <3> QED
      BY <1>7, <3>2 DEF Opens
  <2> QED
    BY <1>7, <1>8, <2>2, <2>3, <2>4 DEF RosterInv
<1>10. SpendInv'
  BY <1>1, <1>2 DEF SpendInv
<1>11. RegistryInv'
  <2>1. (Doc.lists \cap next) \ {Spent, Other} \subseteq epochs'[registry.sealed]
    BY <1>2, <1>7
  <2> QED
    BY <1>1, <1>2, <1>7, <1>8, <2>1 DEF AccountInv, RegistryInv
<1>12. LogInv'
  BY <1>1, <1>2 DEF AccountInv, LogInv, Pivoted, Was, EverListed, Doc
<1>13. RecordInv'
  BY <1>1, <1>2, <1>8 DEF AccountInv, RecordInv, counts
<1>14. AccountInv'
  BY <1>8, <1>9, <1>10, <1>11, <1>12, <1>13 DEF AccountInv
<1>15. AccountTyped'
  BY <1>1, <1>2, <1>7 DEF Typed, AccountTyped, counts
<1>16. from \in Nat /\ key \in Nat
  BY <1>2
<1> HIDE DEF from, key
<1>17. /\ j \in Jobs
      /\ j.at = "registry" /\ j.phase = job[t].phase /\ j.p = job[t].p
      /\ j.run = job[t].run /\ j.code = job[t].code /\ j.doc = job[t].doc
      /\ j.head = job[t].head /\ j.from = from /\ j.key = key /\ j.standing = TRUE
      /\ j.reg = job[t].reg /\ j.arm = job[t].arm /\ j.drop = job[t].drop
      /\ j.live = job[t].live
  BY <1>2, <1>16 DEF Jobs, Stages
<1> HIDE DEF j
<1>18. /\ j.doc <= Len(log') /\ j.head <= Len(log')
       /\ j.from <= Len(epochs') /\ j.key <= Len(epochs')
       /\ Len(log') >= Len(log) /\ Len(epochs') >= Len(epochs)
  BY <1>1, <1>2, <1>7, <1>17 DEF Inv, Typed, from, key
<1>19. job'[t] = j => Staged(job[t])' /\ OnLog(t)' /\ OnRegistry(t)'
  <2> SUFFICES ASSUME job'[t] = j PROVE Staged(job[t])' /\ OnLog(t)' /\ OnRegistry(t)'
    OBVIOUS
  <2>1. key >= 1 /\ from <= key
    BY <1>2 DEF from, key
  <2>2. Staged(job[t])'
    BY <1>1, <1>2, <1>17, <2>1 DEF Inv, JobInv, Staged, HookStages, TailStages, RememberedStages,
       KeyStages, counts
  <2>3. OnLog(t)'
    BY <1>1, <1>2, <1>8, <1>17 DEF Inv, JobInv, OnLog, HookStages, TailStages, OpenStages
  <2>4. OnRegistry(t)'
    BY <1>1, <1>7, <1>17 DEF Inv, JobInv, OnRegistry
  <2> QED
    BY <2>2, <2>3, <2>4
<1> QED
  BY <1>2, <1>3, <1>14, <1>15, <1>17, <1>18, <1>19, StepOf

-----------------------------------------------------------------------------
(***************************************************************************)
(* The registry step, the Spaces and the confirm.                          *)
(***************************************************************************)
\* What a step that touches the registry and the Spaces alone owes.
LEMMA RegistryAccount ==
  ASSUME Typed, AccountInv, Pivoted,
         UNCHANGED <<remember, log, epochs, served, local, saved, runs>>,
         \A p \in Phrases : local[p] # NoRecord /\ ~local[p].pending =>
           registry'.names \cap {Old, Spent} = {} /\ registry'.phrase = p,
         \A r \in Runs : Code(r) \in registry'.names => Spent \notin registry'.names,
         Old \in registry'.names => Old \in spaces',
         registry'.sealed \in {registry.sealed, Len(epochs)}
  PROVE  /\ AccountInv' /\ Pivoted' /\ Doc' = Doc /\ Current' = Current
         /\ \A c : Was(c)' <=> Was(c)
<1>1. Pivoted' /\ Doc' = Doc /\ Current' = Current /\ (\A c : Was(c)' <=> Was(c))
  BY DEF Pivoted, Doc, Current, Was, EverListed
<1>2. LogInv'
  BY DEF AccountInv, LogInv, Pivoted, Was, EverListed, Doc
<1>3. RosterInv' /\ SpendInv'
  BY <1>1 DEF AccountInv, RosterInv, SpendInv, StruckOut, EverListed, Opens, Disconnected, Listed
<1>4. RecordInv'
  BY <1>1 DEF AccountInv, RecordInv
<1>5. RegistryInv'
  <2> DEFINE opening == (Doc.lists \cap Current) \ {Spent, Other}
  <2>1. opening # {} => opening \cap epochs[registry'.sealed] # {}
    <3>1. CASE registry'.sealed = registry.sealed
      BY <3>1 DEF AccountInv, RegistryInv
    <3>2. CASE registry'.sealed = Len(epochs)
      BY <3>2 DEF Current
    <3> QED
      BY <3>1, <3>2
  <2> QED
    BY <1>1, <2>1 DEF AccountInv, RegistryInv
<1> QED
  BY <1>1, <1>2, <1>3, <1>4, <1>5 DEF AccountInv

LEMMA ResealStep ==
  ASSUME OneTab, Inv, NEW t \in Tabs, Reseal(t), UNCHANGED remember
  PROVE  Inv'
<1> DEFINE at == "registry"
           j == [job[t] EXCEPT !.at = at]
<1>1. /\ UNCHANGED <<remember, log, epochs, served, spaces, local, saved, runs, acts>>
      /\ job[t].at = "reseal" /\ Goes(t, at) /\ at \in Stages
      /\ \/ UNCHANGED registry
         \/ registry.sealed = job[t].from /\ registry' = [registry EXCEPT !.sealed = job[t].key]
  BY DEF Reseal, At, Stages
<1>2. failures' \in 0..MaxFailures
  BY Bounds DEF Reseal, Fine, Counted, Inv, Typed, AccountTyped
<1>3. /\ job[t] \in Jobs /\ Pivoted /\ Typed /\ AccountInv
      /\ job[t].key \in Nat \ {0} /\ job[t].key <= Len(epochs)
      /\ Len(log) \in Nat /\ Len(epochs) \in Nat
      /\ registry \in Registries /\ registry.sealed <= Len(epochs)
      /\ registry.sealed = job[t].from => job[t].key \in {job[t].from, Len(epochs)}
      /\ job' = [job EXCEPT ![t] = j]
  BY <1>1, Shapes DEF Goes, Inv, Typed, AccountTyped, JobInv, Staged, OnLog, OnRegistry, TailStages,
     KeyStages, Jobs
<1>4. /\ registry' \in Registries /\ registry'.names = registry.names
      /\ registry'.phrase = registry.phrase
      /\ registry'.sealed \in {registry.sealed, job[t].key}
      /\ registry'.sealed # registry.sealed => registry'.sealed = Len(epochs)
  BY <1>1, <1>3 DEF Registries
<1>5. /\ AccountInv' /\ Pivoted' /\ Doc' = Doc /\ Current' = Current
      /\ \A c : Was(c)' <=> Was(c)
  <2>1. /\ \A p \in Phrases : local[p] # NoRecord /\ ~local[p].pending =>
             registry'.names \cap {Old, Spent} = {} /\ registry'.phrase = p
        /\ \A r \in Runs : Code(r) \in registry'.names => Spent \notin registry'.names
        /\ Old \in registry'.names => Old \in spaces'
        /\ registry'.sealed \in {registry.sealed, Len(epochs)}
    BY <1>1, <1>3, <1>4 DEF AccountInv, RecordInv, RegistryInv
  <2> QED
    BY <1>1, <1>3, <2>1, RegistryAccount
<1>6. AccountTyped'
  BY <1>1, <1>2, <1>3, <1>4 DEF Typed, AccountTyped
<1> HIDE DEF at
<1>7. /\ j \in Jobs
      /\ j.at = at /\ j.phase = job[t].phase /\ j.p = job[t].p /\ j.run = job[t].run
      /\ j.code = job[t].code /\ j.doc = job[t].doc /\ j.head = job[t].head
      /\ j.from = job[t].from /\ j.key = job[t].key /\ j.standing = job[t].standing
      /\ j.reg = job[t].reg /\ j.arm = job[t].arm /\ j.drop = job[t].drop
      /\ j.live = job[t].live
  BY <1>1, <1>3 DEF Jobs
<1> HIDE DEF j
<1>8. /\ j.doc <= Len(log') /\ j.head <= Len(log')
      /\ j.from <= Len(epochs') /\ j.key <= Len(epochs')
      /\ Len(log') >= Len(log) /\ Len(epochs') >= Len(epochs)
  BY <1>1, <1>3, <1>7 DEF Inv, Typed
<1>9. job'[t] = j => Staged(job[t])' /\ OnLog(t)' /\ OnRegistry(t)'
  <2> SUFFICES ASSUME job'[t] = j PROVE Staged(job[t])' /\ OnLog(t)' /\ OnRegistry(t)'
    OBVIOUS
  <2>1. Staged(job[t])'
    BY <1>1, <1>7 DEF Inv, JobInv, Staged, HookStages, TailStages, RememberedStages,
       KeyStages, at
  <2>2. OnLog(t)'
    BY <1>1, <1>5, <1>7 DEF Inv, JobInv, OnLog, HookStages, TailStages, OpenStages, at
  <2>3. OnRegistry(t)'
    BY <1>1, <1>3, <1>4, <1>7 DEF Inv, JobInv, OnRegistry
  <2> QED
    BY <2>1, <2>2, <2>3
<1> QED
  BY <1>3, <1>5, <1>6, <1>7, <1>8, <1>9, StepOf

\* What a step that touches the Spaces alone owes.
LEMMA SpacesAccount ==
  ASSUME Typed, AccountInv, Pivoted,
         UNCHANGED <<remember, log, epochs, served, registry, local, saved, runs>>,
         Old \in registry.names => Old \in spaces'
  PROVE  /\ AccountInv' /\ Pivoted' /\ Doc' = Doc /\ Current' = Current
         /\ \A c : Was(c)' <=> Was(c)
<1>1. /\ \A p \in Phrases : local[p] # NoRecord /\ ~local[p].pending =>
             registry'.names \cap {Old, Spent} = {} /\ registry'.phrase = p
      /\ \A r \in Runs : Code(r) \in registry'.names => Spent \notin registry'.names
      /\ Old \in registry'.names => Old \in spaces'
      /\ registry'.sealed \in {registry.sealed, Len(epochs)}
  BY DEF AccountInv, RecordInv, RegistryInv
<1> QED
  BY <1>1, RegistryAccount

LEMMA PrepareStep ==
  ASSUME OneTab, Inv, NEW t \in Tabs, Prepare(t), UNCHANGED remember
  PROVE  Inv'
<1>1. /\ UNCHANGED <<remember, log, epochs, served, registry, local, saved, runs, acts>>
      /\ job[t].at = "prepare"
      /\ spaces' \in {spaces, spaces \cup {Code(job[t].code)}}
  BY DEF Prepare, At
<1>2. failures' \in 0..MaxFailures
  BY Bounds DEF Prepare, Fine, Counted, Inv, Typed, AccountTyped
<1>3. PICK at \in {"registry", "shown"}, arm \in {"backfill", "upgrade", "drop", "none"} :
                     /\ job' = [job EXCEPT ![t] = [job[t] EXCEPT !.at = at, !.arm = arm]]
                     /\ (at = "registry" /\ arm = Arm(t)) \/ (at = "shown" /\ arm = "none")
  <2>1. Arm(t) \in {"backfill", "upgrade", "drop"}
    BY DEF Arm
  <2> QED
    BY <2>1 DEF Prepare, Inv, Typed
<1>4. /\ job[t] \in Jobs /\ Pivoted /\ Typed /\ AccountInv /\ job[t].code \in Runs
      /\ job[t].reg = "failed" /\ job[t].live /\ job[t].key >= 1
      /\ Len(log) \in Nat /\ Len(epochs) \in Nat
  BY <1>1, Shapes DEF Inv, Typed, AccountTyped, JobInv, Staged, OnLog, TailStages
<1>5. /\ spaces' \in SUBSET Creds /\ spaces \subseteq spaces'
  BY <1>1, <1>4, CredsTyped DEF Typed, AccountTyped
<1>6. /\ AccountInv' /\ Pivoted' /\ Doc' = Doc /\ Current' = Current
      /\ \A c : Was(c)' <=> Was(c)
  BY <1>1, <1>4, <1>5, SpacesAccount DEF AccountInv, RegistryInv
<1>7. AccountTyped'
  BY <1>1, <1>2, <1>4, <1>5 DEF Typed, AccountTyped
<1> DEFINE j == [job[t] EXCEPT !.at = at, !.arm = arm]
<1>8. /\ at \in Stages
      /\ at = "registry" => arm # "none"
      /\ arm \in {"upgrade", "drop"} =>
           Code(job[t].code) \in registry.names /\ registry.phrase = job[t].p
  BY <1>3 DEF Arm, Stages
<1>9. /\ j \in Jobs
      /\ j.at = at /\ j.phase = job[t].phase /\ j.p = job[t].p /\ j.run = job[t].run
      /\ j.code = job[t].code /\ j.doc = job[t].doc /\ j.head = job[t].head
      /\ j.from = job[t].from /\ j.key = job[t].key /\ j.standing = job[t].standing
      /\ j.reg = job[t].reg /\ j.arm = arm /\ j.drop = job[t].drop
      /\ j.live = job[t].live
  BY <1>4, <1>8 DEF Jobs
<1>10. job' = [job EXCEPT ![t] = j]
  BY <1>3
<1> HIDE DEF j
<1>11. /\ j.doc <= Len(log') /\ j.head <= Len(log')
       /\ j.from <= Len(epochs') /\ j.key <= Len(epochs')
       /\ Len(log') >= Len(log) /\ Len(epochs') >= Len(epochs)
  BY <1>1, <1>4, <1>9 DEF Inv, Typed
<1>12. job'[t] = j => Staged(job[t])' /\ OnLog(t)' /\ OnRegistry(t)'
  <2> SUFFICES ASSUME job'[t] = j PROVE Staged(job[t])' /\ OnLog(t)' /\ OnRegistry(t)'
    OBVIOUS
  <2>1. Staged(job[t])'
    BY <1>1, <1>4, <1>8, <1>9 DEF Inv, JobInv, Staged, HookStages, TailStages, RememberedStages,
       KeyStages
  <2>2. OnLog(t)'
    BY <1>1, <1>6, <1>8, <1>9 DEF Inv, JobInv, OnLog, HookStages, TailStages, OpenStages
  <2>3. arm \in {"upgrade", "drop"} => Spent \notin registry.names
    BY <1>4, <1>8 DEF AccountInv, RegistryInv
  <2>4. OnRegistry(t)'
    BY <1>1, <1>8, <1>9, <2>3 DEF Inv, JobInv, OnRegistry
  <2> QED
    BY <2>1, <2>2, <2>4
<1> QED
  BY <1>4, <1>6, <1>7, <1>9, <1>10, <1>11, <1>12, StepOf

\* What the registry step writes names none of what the spend struck.
LEMMA WrittenShape ==
  ASSUME Inv, NEW t \in Tabs, job[t].at = "registry"
  PROVE  /\ Written(t) \in Registries /\ Written(t).sealed = job[t].key
         /\ Written(t).names \cap {Old, Spent} = {}
         /\ Written(t).phrase = job[t].p
<1>1. /\ job[t] \in Jobs /\ job[t].p \in Phrases /\ job[t].code \in Runs
      /\ job[t].key \in Nat \ {0} /\ registry \in Registries
      /\ job[t].arm \in {"backfill", "upgrade", "drop"}
      /\ job[t].arm \in {"upgrade", "drop"} =>
           Spent \notin registry.names /\ registry.phrase = job[t].p
  <2>1. job[t] \in Jobs /\ registry \in Registries /\ Staged(job[t]) /\ OnRegistry(t)
    BY DEF Inv, Typed, AccountTyped, JobInv
  <2>2. /\ job[t].p \in Phrases /\ job[t].code \in Runs /\ job[t].key >= 1
        /\ job[t].arm # "none"
    BY <2>1 DEF Staged, TailStages, KeyStages
  <2>3. job[t].arm \in {"backfill", "upgrade", "drop", "none"} /\ job[t].key \in Nat
    BY <2>1 DEF Jobs
  <2> QED
    BY <2>1, <2>2, <2>3 DEF OnRegistry
<1>2. Code(job[t].code) \in Creds /\ Code(job[t].code) \notin {Old, Spent}
  BY <1>1, CredsTyped, CredsApart, Bounds
<1>3. IsStanding(t) \in BOOLEAN /\ registry.standing \in BOOLEAN
  BY <1>1 DEF IsStanding, Registries, Jobs
<1>4. registry.names \in SUBSET Creds /\ registry.phrase \in Phrases \cup {NoPhrase}
  BY <1>1 DEF Registries
<1>5. CASE job[t].arm = "backfill"
  <2>1. Written(t) = [sealed |-> job[t].key,
                      names |-> ((registry.names \ Retired) \ {Spent}) \cup {Code(job[t].code)},
                      phrase |-> job[t].p, standing |-> IsStanding(t)]
    BY <1>5 DEF Written
  <2> QED
    BY <1>1, <1>2, <1>3, <1>4, <2>1 DEF Registries, Retired
<1>6. CASE job[t].arm = "upgrade"
  <2>1. Written(t) = [sealed |-> job[t].key, names |-> registry.names \ Retired,
                      phrase |-> job[t].p, standing |-> IsStanding(t)]
    BY <1>6 DEF Written
  <2> QED
    BY <1>1, <1>3, <1>4, <1>6, <2>1 DEF Registries, Retired
<1>7. CASE job[t].arm = "drop"
  <2>1. Written(t) = [sealed |-> job[t].key, names |-> registry.names \ Retired,
                      phrase |-> registry.phrase, standing |-> registry.standing]
    BY <1>7 DEF Written
  <2> QED
    BY <1>1, <1>3, <1>4, <1>7, <2>1 DEF Registries, Retired
<1> QED
  BY <1>1, <1>5, <1>6, <1>7

\* A settled record is the one the tab at the registry works for.
LEMMA SettledIsMine ==
  ASSUME Inv, NEW t \in Tabs, job[t].at \in TailStages, NEW p \in Phrases,
         local[p] # NoRecord, ~local[p].pending
  PROVE  p = job[t].p
<1>1. /\ job[t].p \in Phrases /\ job[t].run \in Runs /\ remember
      /\ local[job[t].p].run = job[t].run /\ Was(Client(job[t].run))
  BY Bounds DEF Inv, Typed, AccountTyped, AccountInv, RecordInv, JobInv, Staged, OnLog, TailStages
<1>2. local[p].run \in Runs /\ Was(Client(local[p].run))
  BY Bounds DEF Inv, Typed, AccountTyped, AccountInv, RecordInv
<1>3. local[p].run = job[t].run
  BY <1>1, <1>2 DEF Inv, AccountInv, LogInv
<1> QED
  BY <1>1, <1>2, <1>3, Bounds DEF Inv, AccountInv, RecordInv

LEMMA WriteRegistryStep ==
  ASSUME OneTab, Inv, NEW t \in Tabs, WriteRegistry(t), UNCHANGED remember
  PROVE  Inv'
<1>1. /\ UNCHANGED <<remember, log, epochs, served, spaces, local, saved, runs, acts>>
      /\ job[t].at = "registry"
  BY DEF WriteRegistry, At
<1>2. failures' \in 0..MaxFailures
  <2>1. Fine \/ Counted
    BY DEF WriteRegistry
  <2> QED
    BY <2>1, Bounds DEF Fine, Counted, Inv, Typed, AccountTyped
<1>3. PICK reg \in {"written", "not-owed", "failed"}, drop \in SUBSET Creds :
        /\ job' = [job EXCEPT ![t] = [job[t] EXCEPT !.at = "delete", !.reg = reg, !.drop = drop]]
        /\ \/ /\ Readable(t) /\ registry' = Written(t)
              /\ reg \in {"written", "not-owed"} /\ drop = Retired
           \/ /\ Readable(t) /\ registry' \in {registry, Written(t)}
              /\ reg = "failed" /\ drop = {}
           \/ UNCHANGED registry /\ reg = "failed" /\ drop = {}
  <2>1. Retired \in SUBSET Creds
    BY CredsTyped DEF Retired
  <2> QED
    BY <2>1 DEF WriteRegistry, DropOf, Inv, Typed
<1>4. /\ job[t] \in Jobs /\ Pivoted /\ Typed /\ AccountInv /\ job[t].code \in Runs
      /\ job[t].key \in Nat /\ job[t].key >= 1 /\ job[t].key <= Len(epochs)
      /\ Len(log) \in Nat /\ Len(epochs) \in Nat
      /\ registry \in Registries /\ registry.sealed <= Len(epochs)
      /\ registry.sealed = job[t].from => job[t].key \in {job[t].from, Len(epochs)}
      /\ job[t].arm # "none"
  BY <1>1, Shapes DEF Inv, Typed, AccountTyped, JobInv, Staged, OnLog, OnRegistry, TailStages,
     KeyStages, Jobs
<1>5. /\ Written(t) \in Registries /\ Written(t).sealed = job[t].key
      /\ Written(t).names \cap {Old, Spent} = {}
      /\ Written(t).phrase = job[t].p
  BY <1>1, WrittenShape
<1>6. /\ registry' \in Registries /\ registry'.sealed <= Len(epochs)
      /\ registry'.sealed \in {registry.sealed, Len(epochs)}
      /\ registry' = registry
           \/ (registry'.names \cap {Old, Spent} = {} /\ registry'.phrase = job[t].p
                /\ registry'.sealed = job[t].key)
      /\ reg # "failed" => registry'.names \cap {Old, Spent} = {} /\ registry'.phrase = job[t].p
  BY <1>3, <1>4, <1>5 DEF Readable
<1>7. /\ AccountInv' /\ Pivoted' /\ Doc' = Doc /\ Current' = Current
      /\ \A c : Was(c)' <=> Was(c)
  <2>1. \A p \in Phrases : local[p] # NoRecord /\ ~local[p].pending =>
          registry'.names \cap {Old, Spent} = {} /\ registry'.phrase = p
    BY <1>1, <1>4, <1>6, SettledIsMine DEF AccountInv, RecordInv, TailStages
  <2>2. /\ \A r \in Runs : Code(r) \in registry'.names => Spent \notin registry'.names
        /\ Old \in registry'.names => Old \in spaces'
    BY <1>1, <1>4, <1>6 DEF AccountInv, RegistryInv
  <2> QED
    BY <1>1, <1>4, <1>6, <2>1, <2>2, RegistryAccount
<1>8. AccountTyped'
  BY <1>1, <1>2, <1>4, <1>6 DEF Typed, AccountTyped
<1>9. /\ drop \subseteq {Old}
      /\ Old \in drop => Old \notin registry'.names
  BY <1>3, <1>5 DEF Retired
<1> DEFINE j == [job[t] EXCEPT !.at = "delete", !.reg = reg, !.drop = drop]
<1>10. /\ j \in Jobs
      /\ j.at = "delete" /\ j.phase = job[t].phase /\ j.p = job[t].p
      /\ j.run = job[t].run /\ j.code = job[t].code /\ j.doc = job[t].doc
      /\ j.head = job[t].head /\ j.from = job[t].from /\ j.key = job[t].key
      /\ j.standing = job[t].standing /\ j.reg = reg /\ j.arm = job[t].arm
      /\ j.drop = drop /\ j.live = job[t].live
  BY <1>4, <1>9 DEF Jobs, Stages
<1>11. job' = [job EXCEPT ![t] = j]
  BY <1>3
<1> HIDE DEF j
<1>12. /\ j.doc <= Len(log') /\ j.head <= Len(log')
       /\ j.from <= Len(epochs') /\ j.key <= Len(epochs')
       /\ Len(log') >= Len(log) /\ Len(epochs') >= Len(epochs)
  BY <1>1, <1>4, <1>10 DEF Inv, Typed
<1>13. job'[t] = j => Staged(job[t])' /\ OnLog(t)' /\ OnRegistry(t)'
  <2> SUFFICES ASSUME job'[t] = j PROVE Staged(job[t])' /\ OnLog(t)' /\ OnRegistry(t)'
    OBVIOUS
  <2>1. Staged(job[t])'
    BY <1>1, <1>4, <1>10 DEF Inv, JobInv, Staged, HookStages, TailStages, RememberedStages,
       KeyStages
  <2>2. OnLog(t)'
    BY <1>1, <1>7, <1>10 DEF Inv, JobInv, OnLog, HookStages, TailStages, OpenStages
  <2>3. registry'.sealed = job[t].from => job[t].key \in {job[t].from, Len(epochs)}
    BY <1>4, <1>6
  <2>4. job[t].arm \in {"upgrade", "drop"} => Spent \notin registry'.names /\ registry'.phrase = job[t].p
    BY <1>6 DEF Inv, JobInv, OnRegistry
  <2>5. OnRegistry(t)'
    BY <1>1, <1>6, <1>9, <1>10, <2>3, <2>4 DEF OnRegistry
  <2> QED
    BY <2>1, <2>2, <2>5
<1> QED
  BY <1>4, <1>7, <1>8, <1>10, <1>11, <1>12, <1>13, StepOf

LEMMA DeleteSpacesStep ==
  ASSUME OneTab, Inv, NEW t \in Tabs, DeleteSpaces(t), UNCHANGED remember
  PROVE  Inv'
<1> DEFINE at == AfterDelete(t)
           phase == IF at = "registry" THEN "again" ELSE job[t].phase
           drop == {}
           j == [job[t] EXCEPT !.at = at, !.drop = drop, !.phase = phase]
<1>1. /\ UNCHANGED <<remember, log, epochs, served, registry, local, saved, runs, acts>>
      /\ job[t].at = "delete"
      /\ spaces' \in {spaces, spaces \ job[t].drop}
  BY DEF DeleteSpaces, At
<1>2. failures' \in 0..MaxFailures
  BY Bounds DEF DeleteSpaces, Fine, Counted, Inv, Typed, AccountTyped
<1>3. /\ job[t] \in Jobs /\ Pivoted /\ Typed /\ AccountInv
      /\ Len(log) \in Nat /\ Len(epochs) \in Nat
      /\ job' = [job EXCEPT ![t] = j]
      /\ Old \in job[t].drop => Old \notin registry.names
  BY <1>1, Shapes DEF DeleteSpaces, Inv, Typed, JobInv, OnLog, OnRegistry, TailStages
<1>4. /\ at \in {"shown", "settle", "registry", "spentSpace"}
      /\ at = "registry" => job[t].reg = "failed"
  BY DEF AfterDelete
<1>5. phase \in {"tail", "again", "resume", "confirm"}
  BY <1>3 DEF Jobs
<1>6. spaces' \in SUBSET Creds
  BY <1>1, <1>3 DEF Typed, AccountTyped
<1>7. /\ AccountInv' /\ Pivoted' /\ Doc' = Doc /\ Current' = Current
      /\ \A c : Was(c)' <=> Was(c)
  <2>1. Old \in registry.names => Old \in spaces'
    BY <1>1, <1>3 DEF AccountInv, RegistryInv
  <2> QED
    BY <1>1, <1>3, <2>1, SpacesAccount
<1>8. AccountTyped'
  BY <1>1, <1>2, <1>3, <1>6 DEF Typed, AccountTyped
<1>9. at \in Stages /\ drop \in SUBSET Creds /\ drop = {}
  BY <1>4 DEF Stages
<1> HIDE DEF at, phase, drop
<1>10. /\ j \in Jobs
      /\ j.at = at /\ j.phase = phase /\ j.p = job[t].p /\ j.run = job[t].run
      /\ j.code = job[t].code /\ j.doc = job[t].doc /\ j.head = job[t].head
      /\ j.from = job[t].from /\ j.key = job[t].key /\ j.standing = job[t].standing
      /\ j.reg = job[t].reg /\ j.arm = job[t].arm /\ j.drop = drop
      /\ j.live = job[t].live
  BY <1>3, <1>5, <1>9 DEF Jobs
<1> HIDE DEF j
<1>11. /\ j.doc <= Len(log') /\ j.head <= Len(log')
       /\ j.from <= Len(epochs') /\ j.key <= Len(epochs')
       /\ Len(log') >= Len(log) /\ Len(epochs') >= Len(epochs)
  BY <1>1, <1>3, <1>10 DEF Inv, Typed
<1>12. job'[t] = j => Staged(job[t])' /\ OnLog(t)' /\ OnRegistry(t)'
  <2> SUFFICES ASSUME job'[t] = j PROVE Staged(job[t])' /\ OnLog(t)' /\ OnRegistry(t)'
    OBVIOUS
  <2>1. Staged(job[t])'
    BY <1>1, <1>4, <1>10 DEF Inv, JobInv, Staged, HookStages, TailStages, RememberedStages,
       KeyStages
  <2>2. OnLog(t)'
    BY <1>1, <1>4, <1>7, <1>10 DEF Inv, JobInv, OnLog, HookStages, TailStages, OpenStages
  <2>3. OnRegistry(t)'
    BY <1>1, <1>9, <1>10 DEF Inv, JobInv, OnRegistry
  <2> QED
    BY <2>1, <2>2, <2>3
<1> QED
  BY <1>3, <1>7, <1>8, <1>10, <1>11, <1>12, StepOf

LEMMA DeleteSpentSpaceStep ==
  ASSUME OneTab, Inv, NEW t \in Tabs, DeleteSpentSpace(t), UNCHANGED remember
  PROVE  Inv'
<1> DEFINE at == "shown"
           j == [job[t] EXCEPT !.at = at]
<1>1. /\ UNCHANGED <<remember, log, epochs, served, registry, local, saved, runs, acts>>
      /\ job[t].at = "spentSpace" /\ Goes(t, at) /\ at \in Stages
      /\ spaces' \in {spaces, spaces \ {Spent}}
  BY DEF DeleteSpentSpace, At, Stages
<1>2. failures' \in 0..MaxFailures
  BY Bounds DEF DeleteSpentSpace, Fine, Counted, Inv, Typed, AccountTyped
<1>3. /\ job[t] \in Jobs /\ Pivoted /\ Typed /\ AccountInv
      /\ Len(log) \in Nat /\ Len(epochs) \in Nat
      /\ job' = [job EXCEPT ![t] = j]
  BY <1>1, Shapes DEF Goes, Inv, Typed, JobInv, OnLog, TailStages
<1>4. spaces' \in SUBSET Creds
  BY <1>1, <1>3 DEF Typed, AccountTyped
<1>5. /\ AccountInv' /\ Pivoted' /\ Doc' = Doc /\ Current' = Current
      /\ \A c : Was(c)' <=> Was(c)
  <2>1. Old \in registry.names => Old \in spaces'
    BY <1>1, <1>3, CredsApart DEF AccountInv, RegistryInv
  <2> QED
    BY <1>1, <1>3, <2>1, SpacesAccount
<1>6. AccountTyped'
  BY <1>1, <1>2, <1>3, <1>4 DEF Typed, AccountTyped
<1> HIDE DEF at
<1>7. /\ j \in Jobs
      /\ j.at = at /\ j.phase = job[t].phase /\ j.p = job[t].p /\ j.run = job[t].run
      /\ j.code = job[t].code /\ j.doc = job[t].doc /\ j.head = job[t].head
      /\ j.from = job[t].from /\ j.key = job[t].key /\ j.standing = job[t].standing
      /\ j.reg = job[t].reg /\ j.arm = job[t].arm /\ j.drop = job[t].drop
      /\ j.live = job[t].live
  BY <1>1, <1>3 DEF Jobs
<1> HIDE DEF j
<1>8. /\ j.doc <= Len(log') /\ j.head <= Len(log')
      /\ j.from <= Len(epochs') /\ j.key <= Len(epochs')
      /\ Len(log') >= Len(log) /\ Len(epochs') >= Len(epochs)
  BY <1>1, <1>3, <1>7 DEF Inv, Typed
<1>9. job'[t] = j => Staged(job[t])' /\ OnLog(t)' /\ OnRegistry(t)'
  <2> SUFFICES ASSUME job'[t] = j PROVE Staged(job[t])' /\ OnLog(t)' /\ OnRegistry(t)'
    OBVIOUS
  <2>1. Staged(job[t])'
    BY <1>1, <1>7 DEF Inv, JobInv, Staged, HookStages, TailStages, RememberedStages,
       KeyStages, at
  <2>2. OnLog(t)'
    BY <1>1, <1>5, <1>7 DEF Inv, JobInv, OnLog, HookStages, TailStages, OpenStages, at
  <2>3. OnRegistry(t)'
    BY <1>1, <1>7 DEF Inv, JobInv, OnRegistry
  <2> QED
    BY <2>1, <2>2, <2>3
<1> QED
  BY <1>3, <1>5, <1>6, <1>7, <1>8, <1>9, StepOf

LEMMA BackfillEntriesStep ==
  ASSUME OneTab, Inv, NEW t \in Tabs, BackfillEntries(t), UNCHANGED remember
  PROVE  Inv'
<1> DEFINE code == 0
           j == [job[t] EXCEPT !.code = code]
           added == (registry.names \ {Spent}) \cup {Code(job[t].code)}
<1>1. /\ UNCHANGED <<remember, log, epochs, served, spaces, local, saved, counts>>
      /\ job[t].at = "session" /\ job[t].code # 0
      /\ registry' = registry \/ registry' = [registry EXCEPT !.names = added]
  BY DEF BackfillEntries, At
<1>2. /\ job[t] \in Jobs /\ Pivoted /\ Typed /\ AccountInv /\ job[t].code \in Runs
      /\ Len(log) \in Nat /\ Len(epochs) \in Nat /\ registry \in Registries
      /\ code \in 0..MaxRuns
  <2>1. /\ job[t] \in Jobs /\ Pivoted /\ Typed /\ AccountInv /\ registry \in Registries
    BY <1>1 DEF Inv, Typed, AccountTyped, JobInv, OnLog, TailStages
  <2>2. job[t].code \in 0..MaxRuns
    BY <2>1 DEF Jobs
  <2> QED
    BY <1>1, <2>1, <2>2, Shapes, Bounds
<1>3. job' = [job EXCEPT ![t] = j]
  BY <1>2 DEF BackfillEntries, Typed
<1>4. Code(job[t].code) \in Creds /\ Code(job[t].code) \notin {Old, Spent} /\ Old # Spent
  BY <1>2, CredsTyped, CredsApart, Bounds
<1>5. /\ registry' \in Registries /\ registry'.sealed = registry.sealed
      /\ registry'.phrase = registry.phrase
      /\ registry'.names = registry.names \/ registry'.names = added
  BY <1>1, <1>2, <1>4 DEF Registries
<1>6. /\ Old \in registry'.names => Old \in registry.names
      /\ Spent \in registry'.names => registry'.names = registry.names
  BY <1>4, <1>5
<1>7. /\ AccountInv' /\ Pivoted' /\ Doc' = Doc /\ Current' = Current
      /\ \A c : Was(c)' <=> Was(c)
  <2>1. /\ \A p \in Phrases : local[p] # NoRecord /\ ~local[p].pending =>
             registry'.names \cap {Old, Spent} = {} /\ registry'.phrase = p
        /\ \A r \in Runs : Code(r) \in registry'.names => Spent \notin registry'.names
        /\ Old \in registry'.names => Old \in spaces'
    BY <1>1, <1>2, <1>5, <1>6 DEF AccountInv, RecordInv, RegistryInv
  <2> QED
    BY <1>1, <1>2, <1>5, <2>1, RegistryAccount DEF counts
<1>8. AccountTyped'
  BY <1>1, <1>2, <1>5 DEF Typed, AccountTyped, counts
<1> HIDE DEF code, added
<1>9. /\ j \in Jobs
      /\ j.at = job[t].at /\ j.phase = job[t].phase /\ j.p = job[t].p
      /\ j.run = job[t].run /\ j.code = code /\ j.doc = job[t].doc
      /\ j.head = job[t].head /\ j.from = job[t].from /\ j.key = job[t].key
      /\ j.standing = job[t].standing /\ j.reg = job[t].reg /\ j.arm = job[t].arm
      /\ j.drop = job[t].drop /\ j.live = job[t].live
  BY <1>2 DEF Jobs
<1> HIDE DEF j
<1>10. /\ j.doc <= Len(log') /\ j.head <= Len(log')
       /\ j.from <= Len(epochs') /\ j.key <= Len(epochs')
       /\ Len(log') >= Len(log) /\ Len(epochs') >= Len(epochs)
  BY <1>1, <1>2, <1>9 DEF Inv, Typed
<1>11. job'[t] = j => Staged(job[t])' /\ OnLog(t)' /\ OnRegistry(t)'
  <2> SUFFICES ASSUME job'[t] = j PROVE Staged(job[t])' /\ OnLog(t)' /\ OnRegistry(t)'
    OBVIOUS
  <2>1. Staged(job[t])'
    BY <1>1, <1>9 DEF Inv, JobInv, Staged, HookStages, TailStages, RememberedStages,
       KeyStages, counts
  <2>2. OnLog(t)'
    BY <1>1, <1>7, <1>9 DEF Inv, JobInv, OnLog, HookStages, TailStages, OpenStages
  <2>3. OnRegistry(t)'
    BY <1>1, <1>5, <1>6, <1>9 DEF Inv, JobInv, OnRegistry
  <2> QED
    BY <2>1, <2>2, <2>3
<1> QED
  BY <1>2, <1>3, <1>7, <1>8, <1>9, <1>10, <1>11, StepOf

\* The account past a confirm: the record settled or left, the code saved.
LEMMA SettleAccount ==
  ASSUME Inv, NEW t \in Tabs, job[t].at = "settle",
         UNCHANGED <<remember, account, runs>>,
         saved' = saved \cup {Code(job[t].code)},
         local' = IF remember /\ Clears(t) /\ local[job[t].p] # NoRecord
                  THEN [local EXCEPT ![job[t].p].pending = FALSE, ![job[t].p].code = 0]
                  ELSE local
  PROVE  /\ AccountInv' /\ Pivoted' /\ Doc' = Doc /\ Current' = Current
         /\ \A c : Was(c)' <=> Was(c)
         /\ local' \in [Phrases -> Records]
         /\ \A q \in Phrases : /\ local'[q].run = local[q].run /\ local'[q].head = local[q].head
                               /\ local'[q] = NoRecord <=> local[q] = NoRecord
<1> DEFINE p == job[t].p
           rec == [local[p] EXCEPT !.pending = FALSE, !.code = 0]
<1>1. /\ Pivoted /\ job[t].p \in Phrases /\ job[t].run \in Runs /\ job[t].code \in Runs
      /\ local \in [Phrases -> Records] /\ LogInv /\ RecordInv /\ SpendInv
      /\ remember => /\ local[p] # NoRecord /\ local[p].run = job[t].run
                     /\ Was(Client(job[t].run)) /\ Was(Code(job[t].code))
                     /\ Client(job[t].run) \in Doc.lists => Client(job[t].run) \in Current
      /\ Clears(t) => registry.names \cap {Old, Spent} = {} /\ registry.phrase = p
  BY Bounds DEF Inv, Typed, AccountTyped, AccountInv, JobInv, Staged, OnLog, OnRegistry, TailStages,
     OpenStages, Clears
<1>2. /\ Pivoted' /\ Doc' = Doc /\ Current' = Current
      /\ (\A c : Was(c)' <=> Was(c)) /\ (Disconnected' <=> Disconnected)
  BY <1>1 DEF Pivoted, Doc, Current, Was, EverListed, Disconnected, StruckOut, account
<1>3. LogInv'
  BY <1>1 DEF LogInv, Pivoted, Was, EverListed, Doc, account
<1>4. RosterInv' /\ RegistryInv'
  BY <1>2 DEF Inv, AccountInv, RosterInv, RegistryInv, StruckOut, EverListed, Opens, account
<1>5. CASE local' = local
  <2>1. RecordInv'
    BY <1>1, <1>2, <1>5 DEF RecordInv, account
  <2>2. SpendInv'
    BY <1>1, <1>2, <1>5 DEF SpendInv, Listed, Opens, account
  <2> QED
    BY <1>1, <1>2, <1>3, <1>4, <1>5, <2>1, <2>2 DEF AccountInv
<1>6. CASE remember /\ Clears(t)
  <2>1. /\ local' = [local EXCEPT ![p] = rec]
        /\ rec \in Records /\ rec.run = local[p].run /\ rec.head = local[p].head
        /\ ~rec.pending /\ rec.code = 0
    <3>1. local[p] \in Records /\ 0 \in 0..MaxRuns
      BY <1>1, Bounds
    <3>2. rec \in Records /\ rec.run = local[p].run /\ rec.head = local[p].head
          /\ ~rec.pending /\ rec.code = 0
      BY <3>1 DEF Records
    <3>3. local' = [local EXCEPT ![p] = rec]
      BY <1>1, <1>6
    <3> QED
      BY <3>2, <3>3
  <2>2. rec # NoRecord /\ job[t].run # 0
    BY <1>1, <1>6, <2>1, Bounds DEF NoRecord
  <2> HIDE DEF rec
  <2>3. /\ local' \in [Phrases -> Records] /\ local'[p] = rec
        /\ \A q \in Phrases : q # p => local'[q] = local[q]
    BY <1>1, <2>1
  <2>4. \A q \in Phrases : /\ local'[q].run = local[q].run /\ local'[q].head = local[q].head
                           /\ local'[q] = NoRecord <=> local[q] = NoRecord
    BY <1>1, <1>6, <2>1, <2>2, <2>3
  <2>5. RecordInv'
    <3>1. \A q \in Phrases : local'[q] # NoRecord =>
            /\ remember
            /\ local'[q].run \in 1..runs /\ local'[q].head >= 2
            /\ local'[q].pending => local'[q].code \in Runs
            /\ local'[q].pending /\ Was(Client(local'[q].run)) => Was(Code(local'[q].code))
            /\ ~local'[q].pending =>
                 /\ Was(Client(local'[q].run))
                 /\ registry.names \cap {Old, Spent} = {} /\ registry.phrase = q
      BY <1>1, <1>6, <2>1, <2>3, <2>4 DEF RecordInv
    <3> QED
      BY <1>1, <1>2, <2>4, <3>1 DEF RecordInv, account
  <2>6. SpendInv'
    <3> SUFFICES ASSUME ~Disconnected
                 PROVE  \E q \in Phrases :
                          /\ local'[q] # NoRecord /\ Client(local'[q].run) \in Doc.lists
                          /\ served[q] # 0
                          /\ Client(local'[q].run) \in Current
                          /\ \A c \in Runs : Was(Code(c)) => Code(c) \in saved'
      BY <1>2 DEF SpendInv, Listed, account
    <3>1. PICK q \in Phrases : Listed(q) /\ served[q] # 0
      BY <1>1, <1>6 DEF SpendInv
    <3>2. local[q].run \in Runs
      BY <1>1, <3>1, Bounds DEF Listed, RecordInv, Inv, Typed, AccountTyped
    <3>3. local[q].run = job[t].run
      <4>1. Was(Client(local[q].run))
        BY <1>1, <3>1, <3>2, ListedApart DEF Listed, Inv
      <4> QED
        BY <1>1, <1>6, <3>2, <4>1 DEF LogInv
    <3>4. \A c \in Runs : Was(Code(c)) => c = job[t].code
      BY <1>1, <1>6 DEF LogInv
    <3>5. Client(local[q].run) \in Current
      BY <1>1, <1>6, <3>1, <3>3 DEF Listed
    <3> QED
      BY <2>4, <3>1, <3>4, <3>5 DEF Listed
  <2> QED
    BY <1>2, <1>3, <1>4, <2>3, <2>4, <2>5, <2>6 DEF AccountInv
<1> QED
  BY <1>5, <1>6

LEMMA SettleStep ==
  ASSUME OneTab, Inv, NEW t \in Tabs, Settle(t), UNCHANGED remember
  PROVE  Inv'
<1> DEFINE at == "saved"
           j == [job[t] EXCEPT !.at = at]
<1>1. /\ UNCHANGED <<remember, account, counts>>
      /\ job[t].at = "settle" /\ Goes(t, at) /\ at \in Stages
      /\ saved' = saved \cup {Code(job[t].code)}
      /\ local' = IF remember /\ Clears(t) /\ local[job[t].p] # NoRecord
                  THEN [local EXCEPT ![job[t].p].pending = FALSE, ![job[t].p].code = 0]
                  ELSE local
  BY DEF Settle, At, Stages
<1>2. /\ AccountInv' /\ Pivoted' /\ Doc' = Doc /\ Current' = Current
      /\ \A c : Was(c)' <=> Was(c)
      /\ local' \in [Phrases -> Records]
      /\ \A q \in Phrases : /\ local'[q].run = local[q].run /\ local'[q].head = local[q].head
                            /\ local'[q] = NoRecord <=> local[q] = NoRecord
  BY <1>1, SettleAccount DEF counts
<1>3. /\ job[t] \in Jobs /\ Typed /\ job[t].code \in Runs /\ job[t].p \in Phrases
      /\ Len(log) \in Nat /\ Len(epochs) \in Nat
      /\ job' = [job EXCEPT ![t] = j]
  BY <1>1, Shapes DEF Goes, Inv, Typed, JobInv, Staged, TailStages
<1>4. AccountTyped'
  BY <1>1, <1>2, <1>3 DEF Typed, AccountTyped, account, counts
<1> HIDE DEF at
<1>5. /\ j \in Jobs
      /\ j.at = at /\ j.phase = job[t].phase /\ j.p = job[t].p /\ j.run = job[t].run
      /\ j.code = job[t].code /\ j.doc = job[t].doc /\ j.head = job[t].head
      /\ j.from = job[t].from /\ j.key = job[t].key /\ j.standing = job[t].standing
      /\ j.reg = job[t].reg /\ j.arm = job[t].arm /\ j.drop = job[t].drop
      /\ j.live = job[t].live
  BY <1>1, <1>3 DEF Jobs
<1> HIDE DEF j
<1>6. /\ j.doc <= Len(log') /\ j.head <= Len(log')
      /\ j.from <= Len(epochs') /\ j.key <= Len(epochs')
      /\ Len(log') >= Len(log) /\ Len(epochs') >= Len(epochs)
  BY <1>1, <1>3, <1>5 DEF Inv, Typed, account
<1>7. job'[t] = j => Staged(job[t])' /\ OnLog(t)' /\ OnRegistry(t)'
  <2> SUFFICES ASSUME job'[t] = j PROVE Staged(job[t])' /\ OnLog(t)' /\ OnRegistry(t)'
    OBVIOUS
  <2>1. Staged(job[t])'
    BY <1>1, <1>5 DEF Inv, JobInv, Staged, HookStages, TailStages, RememberedStages,
       KeyStages, at, counts
  <2>2. OnLog(t)'
    <3>1. /\ local'[j.p].run = local[job[t].p].run
          /\ local'[j.p] = NoRecord <=> local[job[t].p] = NoRecord
          /\ j.p = job[t].p /\ j.run = job[t].run /\ j.code = job[t].code /\ j.at = "saved"
      BY <1>2, <1>3, <1>5 DEF at
    <3>2. remember => /\ local[job[t].p] # NoRecord /\ local[job[t].p].run = job[t].run
                      /\ Was(Client(job[t].run)) /\ Was(Code(job[t].code))
      BY <1>1 DEF Inv, JobInv, OnLog, TailStages
    <3>3. remember' = remember
      BY <1>1
    <3> QED
      BY <1>2, <3>1, <3>2, <3>3 DEF OnLog, HookStages, TailStages, OpenStages
  <2>3. OnRegistry(t)'
    BY <1>1, <1>5 DEF Inv, JobInv, OnRegistry, account
  <2> QED
    BY <2>1, <2>2, <2>3
<1> QED
  BY <1>2, <1>3, <1>4, <1>5, <1>6, <1>7, StepOf

-----------------------------------------------------------------------------
(***************************************************************************)
(* A login.                                                                *)
(***************************************************************************)
\* However old the log served, a record is resumed or entered only once its
\* client was listed, and given up only once its client is out and the code is
\* struck.
LEMMA RouteTells ==
  ASSUME Typed, LogInv, RecordInv, NEW p \in Phrases, local[p] # NoRecord,
         NEW k \in 1..Len(log)
  PROVE  /\ Route(k, local[p]) = "read" => local[p].pending /\ Was(Client(local[p].run)) /\ Pivoted
         /\ Route(k, local[p]) = "session" => Was(Client(local[p].run)) /\ Pivoted
         /\ Route(k, local[p]) \in {"wipe", "discard"} =>
              Client(local[p].run) \notin Doc.lists /\ Pivoted
<1> DEFINE r == local[p].run
<1>1. r \in Runs /\ local[p].head >= 2 /\ local[p].head \in Nat /\ Len(log) \in Nat
  BY Bounds, Shapes DEF Typed, AccountTyped, RecordInv, Records
<1>2. EverListed(Client(r), k) => Was(Client(r))
  BY <1>1 DEF EverListed, Was
<1>3. Client(r) \in log[k].lists => EverListed(Client(r), k)
  BY DEF EverListed
<1>4. Was(Client(r)) => Pivoted
  BY <1>1, ListedApart
<1>5. Client(r) \in Doc.lists => Was(Client(r))
  BY <1>1, ListedApart
<1>6. CASE Client(r) \in log[k].lists
  BY <1>2, <1>3, <1>4, <1>6 DEF Route
<1>7. CASE Client(r) \notin log[k].lists /\ EverListed(Client(r), k)
  <2>1. Client(r) \notin Doc.lists
    BY <1>1, <1>7 DEF LogInv
  <2> QED
    BY <1>2, <1>4, <1>7, <2>1 DEF Route
<1>8. CASE Client(r) \notin log[k].lists /\ ~EverListed(Client(r), k)
  <2>1. CASE local[p].pending /\ ~Behind(k, local[p]) /\ Spent \notin log[k].lists
    <3>1. k >= 2
      BY <1>1, <2>1 DEF Behind
    <3>2. Pivoted /\ (Was(Client(r)) => EverListed(Client(r), k))
      BY <1>1, <2>1, <3>1 DEF LogInv
    <3> QED
      BY <1>5, <1>8, <2>1, <3>2 DEF Route
  <2>2. CASE ~(local[p].pending /\ ~Behind(k, local[p]) /\ Spent \notin log[k].lists)
    BY <1>8, <2>2 DEF Route
  <2> QED
    BY <2>1, <2>2
<1> QED
  BY <1>6, <1>7, <1>8

\* The account past a record given up.
LEMMA GivenUp ==
  ASSUME Typed, AccountInv, Pivoted, NEW p \in Phrases, Client(local[p].run) \notin Doc.lists,
         local' = [local EXCEPT ![p] = NoRecord],
         UNCHANGED <<remember, account, saved, runs>>
  PROVE  AccountInv' /\ local' \in [Phrases -> Records]
<1>1. NoRecord \in Records /\ NoRecord.run = 0
  BY Bounds DEF NoRecord, Records
<1>2. /\ local' \in [Phrases -> Records] /\ local'[p] = NoRecord
      /\ \A q \in Phrases : q # p => local'[q] = local[q]
  BY <1>1 DEF Typed, AccountTyped
<1>3. /\ Pivoted' /\ Doc' = Doc /\ Current' = Current
      /\ (\A c : Was(c)' <=> Was(c)) /\ (Disconnected' <=> Disconnected)
  BY DEF Pivoted, Doc, Current, Was, EverListed, Disconnected, StruckOut, account
<1>4. LogInv'
  BY DEF AccountInv, LogInv, Pivoted, Was, EverListed, Doc, account
<1>5. RosterInv' /\ RegistryInv'
  BY <1>3 DEF AccountInv, RosterInv, RegistryInv, StruckOut, EverListed, Opens, account
<1>6. RecordInv'
  <2>1. \A q \in Phrases : local'[q] # NoRecord => local'[q] = local[q]
    BY <1>2
  <2>2. \A q \in Phrases : local'[q].run # 0 => local'[q] = local[q]
    BY <1>1, <1>2
  <2> QED
    BY <1>3, <2>1, <2>2 DEF AccountInv, RecordInv, account
<1>7. SpendInv'
  <2> SUFFICES ASSUME remember, ~Disconnected
               PROVE  \E q \in Phrases :
                        /\ local'[q] # NoRecord /\ Client(local'[q].run) \in Doc.lists
                        /\ served[q] # 0
                        /\ \/ Client(local'[q].run) \in Current
                           \/ local'[q].pending /\ Opens(Spent)
                        /\ \A c \in Runs : Was(Code(c)) =>
                             Code(c) \in saved \/ (local'[q].pending /\ local'[q].code = c)
    BY <1>3 DEF SpendInv, Listed, Opens, account
  <2>1. PICK q \in Phrases :
          /\ Listed(q) /\ served[q] # 0
          /\ \/ Client(local[q].run) \in Current
             \/ local[q].pending /\ Opens(Spent)
          /\ \A c \in Runs : Was(Code(c)) =>
               Code(c) \in saved \/ (local[q].pending /\ local[q].code = c)
    BY DEF AccountInv, SpendInv
  <2>2. q # p /\ local'[q] = local[q]
    BY <1>2, <2>1 DEF Listed
  <2> QED
    BY <2>1, <2>2 DEF Listed
<1> QED
  BY <1>2, <1>3, <1>4, <1>5, <1>6, <1>7 DEF AccountInv

LEMMA LogInStep ==
  ASSUME OneTab, Inv, NEW t \in Tabs, NEW p \in Phrases, LogIn(t, p), UNCHANGED remember
  PROVE  Inv'
<1> DEFINE owes == job[t].at = "saved" /\ ~job[t].live /\ job[t].p = p
           run == local[p].run
           key == Len(epochs)
           left == IF owes THEN job[t].code ELSE 0
           lent == local[p].code
           jr == [Idle EXCEPT !.at = "read", !.phase = "resume", !.p = p, !.run = run, !.code = lent]
           js == [Idle EXCEPT !.at = "session", !.p = p, !.run = run, !.code = left,
                              !.key = key, !.live = TRUE]
<1>1. PICK k \in 1..Len(log) :
        /\ failures' \in 0..MaxFailures
        /\ job' = [job EXCEPT ![t] = IF Route(k, local[p]) = "read" THEN jr
                                     ELSE IF Route(k, local[p]) = "session" THEN js ELSE Idle]
        /\ local' = IF Route(k, local[p]) \in {"wipe", "discard"}
                    THEN [local EXCEPT ![p] = NoRecord] ELSE local
  <2>1. failures' \in 0..MaxFailures
    <3>1. failures \in 0..MaxFailures /\ MaxFailures \in Nat
      BY Bounds DEF Inv, Typed, AccountTyped
    <3>2. failures' = failures \/ (failures < MaxFailures /\ failures' = failures + 1)
      BY DEF LogIn, Fine, Counted
    <3> QED
      BY <3>1, <3>2
  <2> QED
    BY <2>1 DEF LogIn
<1>2. /\ remember /\ remember' /\ local[p] # NoRecord
      /\ UNCHANGED <<remember, account, saved, runs, acts>>
  BY DEF LogIn
<1>3. /\ Typed /\ AccountInv /\ LogInv /\ RecordInv /\ job[t] \in Jobs
      /\ Len(log) \in Nat /\ key \in Nat /\ key >= 1 /\ Len(log') = Len(log) /\ Len(epochs') = key
      /\ run \in 0..MaxRuns /\ run \in 1..runs
      /\ registry \in Registries
  BY <1>2, Shapes DEF Inv, Typed, AccountTyped, AccountInv, RecordInv, Records, account
<1>4. left \in 0..MaxRuns /\ lent \in 0..MaxRuns
  BY <1>3, Bounds DEF Jobs, Typed, AccountTyped, Records
<1>5. CASE Route(k, local[p]) = "read"
  <2>1. /\ local[p].pending /\ Was(Client(run)) /\ Pivoted
        /\ local' = local /\ job' = [job EXCEPT ![t] = jr]
    BY <1>1, <1>2, <1>3, <1>5, RouteTells
  <2>2. lent \in Runs /\ Was(Code(lent))
    BY <1>2, <1>3, <2>1 DEF RecordInv
  <2>3. AccountTyped' /\ AccountInv'
    BY <1>1, <1>2, <1>3, <2>1, AccountKept DEF Typed, AccountTyped, account
  <2>4. Pivoted' /\ (\A c : Was(c)' <=> Was(c))
    BY <1>2, <2>1 DEF Pivoted, Doc, Was, EverListed, account
  <2>5. remember' /\ local'[p] # NoRecord /\ local'[p].run = run /\ runs' = runs
        /\ registry' = registry /\ registry.sealed # 0
    BY <1>2, <1>3, <2>1 DEF account, Registries
  <2> HIDE DEF lent, run
  <2>6. /\ jr \in Jobs
        /\ jr.at = "read" /\ jr.phase = "resume" /\ jr.p = p /\ jr.run = run
        /\ jr.code = lent /\ jr.doc = 0 /\ jr.head = 0 /\ jr.from = 0 /\ jr.key = 0
        /\ jr.reg = "failed" /\ jr.arm = "backfill" /\ jr.drop = {} /\ ~jr.live
    BY <1>3, <1>4, IdleShape DEF Jobs, Stages
  <2> HIDE DEF jr, key
  <2>7. /\ jr.doc <= Len(log') /\ jr.head <= Len(log')
        /\ jr.from <= Len(epochs') /\ jr.key <= Len(epochs')
        /\ Len(log') >= Len(log) /\ Len(epochs') >= Len(epochs)
    BY <1>3, <2>6 DEF key
  <2>8. job'[t] = jr => Staged(job[t])' /\ OnLog(t)' /\ OnRegistry(t)'
    <3> SUFFICES ASSUME job'[t] = jr PROVE Staged(job[t])' /\ OnLog(t)' /\ OnRegistry(t)'
      OBVIOUS
    <3>1. Staged(job[t])'
      BY <1>3, <2>2, <2>5, <2>6 DEF Staged, HookStages, TailStages, RememberedStages, KeyStages
    <3>2. OnLog(t)'
      BY <2>1, <2>2, <2>4, <2>5, <2>6 DEF OnLog, HookStages, TailStages, OpenStages
    <3>3. OnRegistry(t)'
      BY <2>5, <2>6 DEF OnRegistry
    <3> QED
      BY <3>1, <3>2, <3>3
  <2> QED
    BY <1>3, <2>1, <2>3, <2>6, <2>7, <2>8, StepOf
<1>6. CASE Route(k, local[p]) = "session"
  <2>1. /\ Was(Client(run)) /\ Pivoted
        /\ local' = local /\ job' = [job EXCEPT ![t] = js]
    BY <1>1, <1>2, <1>3, <1>6, RouteTells
  <2>2. AccountTyped' /\ AccountInv'
    BY <1>1, <1>2, <1>3, <2>1, AccountKept DEF Typed, AccountTyped, account
  <2>3. Pivoted' /\ (\A c : Was(c)' <=> Was(c))
    BY <1>2, <2>1 DEF Pivoted, Doc, Was, EverListed, account
  <2>4. remember' /\ local'[p] # NoRecord /\ local'[p].run = run /\ runs' = runs
        /\ registry' = registry /\ registry.sealed # 0
    BY <1>2, <1>3, <2>1 DEF account, Registries
  <2> HIDE DEF left, run, key
  <2>5. /\ js \in Jobs
        /\ js.at = "session" /\ js.phase = "tail" /\ js.p = p /\ js.run = run
        /\ js.code = left /\ js.doc = 0 /\ js.head = 0 /\ js.from = 0 /\ js.key = key
        /\ js.reg = "failed" /\ js.arm = "backfill" /\ js.drop = {} /\ js.live = TRUE
    BY <1>3, <1>4, IdleShape DEF Jobs, Stages
  <2> HIDE DEF js
  <2>6. /\ js.doc <= Len(log') /\ js.head <= Len(log')
        /\ js.from <= Len(epochs') /\ js.key <= Len(epochs')
        /\ Len(log') >= Len(log) /\ Len(epochs') >= Len(epochs)
    BY <1>3, <2>5 DEF key
  <2>7. job'[t] = js => Staged(job[t])' /\ OnLog(t)' /\ OnRegistry(t)'
    <3> SUFFICES ASSUME job'[t] = js PROVE Staged(job[t])' /\ OnLog(t)' /\ OnRegistry(t)'
      OBVIOUS
    <3>1. Staged(job[t])'
      BY <1>3, <2>4, <2>5 DEF Staged, HookStages, TailStages, RememberedStages, KeyStages
    <3>2. OnLog(t)'
      BY <2>1, <2>3, <2>4, <2>5 DEF OnLog, HookStages, TailStages, OpenStages
    <3>3. OnRegistry(t)'
      BY <2>4, <2>5 DEF OnRegistry
    <3> QED
      BY <3>1, <3>2, <3>3
  <2> QED
    BY <1>3, <2>1, <2>2, <2>5, <2>6, <2>7, StepOf
<1>7. CASE Route(k, local[p]) \in {"wipe", "discard"}
  <2>1. /\ Client(run) \notin Doc.lists /\ Pivoted
        /\ local' = [local EXCEPT ![p] = NoRecord] /\ job' = [job EXCEPT ![t] = Idle]
    BY <1>1, <1>2, <1>3, <1>7, RouteTells
  <2>2. AccountInv' /\ local' \in [Phrases -> Records]
    BY <1>2, <1>3, <2>1, GivenUp
  <2>3. \A q \in Phrases : local'[q].head <= Len(log')
    <3>1. NoRecord.head = 0
      BY DEF NoRecord
    <3> QED
      BY <1>3, <2>1, <3>1 DEF Typed, AccountTyped
  <2>4. AccountTyped'
    BY <1>1, <1>2, <1>3, <2>2, <2>3 DEF Typed, AccountTyped, account
  <2>5. /\ Idle.doc <= Len(log') /\ Idle.head <= Len(log')
        /\ Idle.from <= Len(epochs') /\ Idle.key <= Len(epochs')
        /\ Len(log') >= Len(log) /\ Len(epochs') >= Len(epochs)
    BY <1>3, IdleShape
  <2>6. JobInv(t)'
    BY <1>2, <1>3, <2>1, IdleWaits DEF account
  <2> QED
    BY <1>3, <2>1, <2>2, <2>4, <2>5, <2>6, IdleShape, StepOf DEF JobInv
<1>8. CASE Route(k, local[p]) \notin {"read", "session", "wipe", "discard"}
  <2>1. local' = local /\ job' = [job EXCEPT ![t] = Idle]
    BY <1>1, <1>8
  <2> QED
    BY <1>1, <1>2, <2>1, ToIdle
<1> QED
  BY <1>5, <1>6, <1>7, <1>8

-----------------------------------------------------------------------------
(***************************************************************************)
(* Another client.                                                         *)
(***************************************************************************)
\* What another client does leaves every tab's own view of the account: it takes
\* credentials out only, and a registry it seals is sealed to the current epoch.
LEMMA OthersLeave ==
  ASSUME Inv, NEW t \in Tabs, UNCHANGED <<remember, job, local, served, runs>>,
         Len(epochs') \in Nat, Len(epochs') >= Len(epochs),
         Pivoted' <=> Pivoted, Doc'.lists \subseteq Doc.lists,
         \A r \in Runs : /\ Was(Client(r)) => Was(Client(r))'
                         /\ Was(Code(r)) => Was(Code(r))'
                         /\ Client(r) \in Doc'.lists => Client(r) \in Current'
                              \/ (Current' = Current),
         registry'.phrase = registry.phrase, registry'.names \subseteq registry.names,
         registry'.sealed = Len(epochs')
           \/ (registry'.sealed = registry.sealed /\ Len(epochs') = Len(epochs))
  PROVE  JobInv(t)'
<1>1. /\ job[t] \in Jobs /\ Staged(job[t]) /\ OnLog(t) /\ OnRegistry(t)
      /\ job[t].from <= Len(epochs) /\ job[t].key <= Len(epochs) /\ Len(epochs) \in Nat
      /\ job[t].from \in Nat /\ job[t].key \in Nat
  BY Shapes DEF Inv, Typed, JobInv, Jobs
<1>2. Staged(job[t])'
  BY <1>1 DEF Staged
<1>3. OnLog(t)'
  <2> DEFINE j == job[t]
  <2>1. Successors(t)' = Successors(t) /\ PendingRecord(t)' = PendingRecord(t)
    BY DEF Successors, PendingRecord
  <2>2. j.at \in TailStages => j.run \in Runs /\ (j.at # "session" => j.code \in Runs)
    BY <1>1, Bounds DEF Staged, TailStages, Inv, Typed, AccountTyped
  <2>3. OpenStages \subseteq TailStages
    BY DEF OpenStages
  <2>4. remember /\ j.at \in OpenStages /\ Client(j.run) \in Doc'.lists => Client(j.run) \in Current'
    BY <1>1, <2>2, <2>3 DEF OnLog
  <2>5. remember /\ j.at \in TailStages =>
          /\ local[j.p] # NoRecord /\ local[j.p].run = j.run /\ Was(Client(j.run))'
          /\ j.at # "session" => Was(Code(j.code))'
    BY <1>1, <2>2 DEF OnLog
  <2>6. /\ j.at \in HookStages => ~Pivoted' /\ j.head >= 2
        /\ j.at \in HookStages \ {"record"} => served[j.p] = j.run
        /\ remember /\ j.at \in {"code", "pivot"} => local[j.p] = PendingRecord(t)
        /\ j.at \in {"probe", "reveal"} \cup HookStages =>
             \A q \in Phrases : local[q].run = j.run => q = j.p
        /\ j.at \in TailStages => Pivoted'
        /\ j.at = "append" => Doc'.lists \subseteq {Other} \cup Successors(t)
    BY <1>1 DEF OnLog
  <2> QED
    BY <2>1, <2>4, <2>5, <2>6 DEF OnLog
<1>4. OnRegistry(t)'
  BY <1>1 DEF OnRegistry, Staged
<1> QED
  BY <1>2, <1>3, <1>4 DEF JobInv

LEMMA OtherEditsStep ==
  ASSUME Inv, OtherEdits, UNCHANGED remember
  PROVE  Inv'
<1>1. /\ UNCHANGED <<remember, epochs, served, spaces, registry, local, job, saved, runs, failures>>
      /\ Publishes(Doc) /\ acts' \in 0..MaxActs
  BY Bounds DEF OtherEdits, Acts, Inv, Typed, AccountTyped
<1>2. Doc \in Entry /\ Quiet(Doc) /\ Typed /\ AccountInv /\ Len(epochs) \in Nat
  BY Shapes DEF Quiet, Inv, AccountInv, LogInv, Doc
<1>3. /\ AccountInv' /\ Doc' = Doc
      /\ log' \in Seq(Entry) /\ Len(log') = Len(log) + 1 /\ Len(log) \in Nat
      /\ Pivoted' <=> Pivoted
      /\ \A r \in Runs : /\ Client(r) \in Doc'.lists <=> Client(r) \in Doc.lists
                         /\ Was(Client(r))' <=> Was(Client(r))
                         /\ Was(Code(r))' <=> Was(Code(r))
  BY <1>1, <1>2, EntryKeeps
<1>4. Typed'
  BY <1>1, <1>2, <1>3 DEF Typed, AccountTyped, Records, Jobs
<1>5. Current' = Current
  BY <1>1 DEF Current
<1>6. \A t \in Tabs : JobInv(t)'
  BY <1>1, <1>2, <1>3, <1>5, OthersLeave
<1> QED
  BY <1>3, <1>4, <1>6 DEF Inv

LEMMA OtherSweepsStep ==
  ASSUME Inv, OtherSweeps, UNCHANGED remember
  PROVE  Inv'
<1>1. /\ UNCHANGED <<remember, log, served, spaces, local, job, saved, runs, failures>>
      /\ Rotates /\ acts' \in 0..MaxActs
      /\ registry' = [registry EXCEPT !.sealed = Len(epochs')]
  BY Bounds DEF OtherSweeps, Acts, Inv, Typed, AccountTyped
<1>2. /\ Typed /\ AccountInv /\ Len(epochs) \in Nat /\ Len(epochs) >= 1 /\ registry \in Registries
      /\ epochs' \in Seq(SUBSET Creds) /\ Len(epochs') \in Nat /\ Len(epochs') >= Len(epochs)
  BY <1>1, Shapes, Rotated DEF Inv, Typed, AccountTyped
<1>3. CASE Pivoted
  <2>1. Len(epochs') \in Nat \ {0} /\ Len(epochs') <= Len(epochs')
    BY <1>2
  <2>2. epochs'[Len(epochs')] = Current'
    BY DEF Current
  <2>3. /\ AccountInv' /\ Pivoted' /\ Doc' = Doc /\ (\A c : Was(c)' <=> Was(c))
        /\ registry' \in Registries /\ registry'.sealed = Len(epochs')
        /\ registry'.names = registry.names /\ registry'.phrase = registry.phrase
        /\ \A r \in Runs : Client(r) \in Doc.lists => Client(r) \in Current'
    BY <1>1, <1>2, <1>3, <2>1, <2>2, RotationAccount
  <2>4. Typed'
    BY <1>1, <1>2, <2>3 DEF Typed, AccountTyped, Jobs
  <2>5. \A t \in Tabs : JobInv(t)'
    BY <1>1, <1>2, <1>3, <2>3, OthersLeave
  <2> QED
    BY <2>3, <2>4, <2>5 DEF Inv
<1>4. CASE ~Pivoted
  <2>1. epochs' = epochs /\ registry.sealed = 1 /\ Len(epochs) = 1
    BY <1>1, <1>2, <1>4, EarlyRotation DEF AccountInv, Untouched
  <2>2. registry' = registry
    BY <1>1, <1>2, <2>1 DEF Registries
  <2>3. AccountInv'
    BY <1>1, <1>2, <2>1, <2>2, AccountKept DEF account, Typed, AccountTyped
  <2>4. Typed'
    BY <1>1, <1>2, <2>1, <2>2 DEF Typed, AccountTyped
  <2>5. /\ Doc' = Doc /\ (Pivoted' <=> Pivoted) /\ (\A c : Was(c)' <=> Was(c)) /\ Current' = Current
    BY <1>1, <2>1 DEF Doc, Pivoted, Was, EverListed, Current
  <2>6. \A t \in Tabs : JobInv(t)'
    BY <1>1, <1>2, <2>1, <2>2, <2>5, OthersLeave
  <2> QED
    BY <2>3, <2>4, <2>6 DEF Inv
<1> QED
  BY <1>3, <1>4

\* The account past the removal of a new credential.
LEMMA RemovalStep ==
  ASSUME Inv, Pivoted, NEW r \in Runs, NEW c \in {Client(r), Code(r)}, Removes(c),
         UNCHANGED remember, spaces' \in {spaces, spaces \ {c}}, acts' \in 0..MaxActs
  PROVE  Inv'
<1> DEFINE d == [Doc EXCEPT !.lists = @ \ {c}]
           lists == Doc.lists \ {c}
<1>1. /\ UNCHANGED <<remember, served, local, job, saved, runs, failures>>
      /\ Publishes(d) /\ epochs' = Append(epochs, Recipients(lists))
      /\ registry' = [registry EXCEPT !.sealed = Len(epochs'), !.names = @ \ {c}]
  BY DEF Removes
<1>2. /\ Typed /\ AccountInv /\ LogInv /\ RecordInv /\ RosterInv /\ SpendInv /\ RegistryInv
      /\ Doc \in Entry /\ registry \in Registries /\ Len(log) \in Nat
      /\ Len(epochs) \in Nat /\ Len(epochs) >= 1 /\ r \in Nat
  BY Shapes, Bounds DEF Inv, AccountInv, Typed, AccountTyped
<1>3. /\ c \notin {Old, Spent, Other} /\ \A p : Phrase(p) # c
      /\ Old # Spent
  BY <1>2, CredsApart
<1>4. d \in Entry /\ d.lists = lists /\ d.ladder = Doc.ladder
  BY <1>2 DEF Entry
<1>5. lists \in SUBSET Creds /\ lists \subseteq Doc.lists /\ Spent \notin lists
      /\ \A x \in Doc.lists : x # c => x \in lists
  BY <1>4 DEF Pivoted, Entry
<1>6. c \notin lists
  OBVIOUS
<1> HIDE DEF d, lists
<1>7. Quiet(d)
  BY <1>4, <1>5 DEF Quiet, Pivoted
<1>8. /\ log' \in Seq(Entry) /\ Len(log') = Len(log) + 1 /\ Doc' = d
      /\ LogInv' /\ Pivoted'
      /\ \A s \in Runs : /\ Was(Client(s))' <=> Was(Client(s))
                         /\ Was(Code(s))' <=> Was(Code(s))
  BY <1>1, <1>2, <1>4, <1>7, Published, QuietEntry
<1>9. Recipients(lists) \in SUBSET Creds /\ Recipients(lists) \subseteq lists
  BY <1>2, <1>5, RecipientsShape
<1>10. /\ epochs' \in Seq(SUBSET Creds) /\ Len(epochs') = Len(epochs) + 1
       /\ Current' = Recipients(lists)
  BY <1>1, <1>2, <1>9, Appended
<1>11. /\ registry' \in Registries /\ registry'.sealed = Len(epochs')
       /\ registry'.names = registry.names \ {c} /\ registry'.phrase = registry.phrase
  <2> DEFINE n == Len(epochs')
             names == registry.names \ {c}
  <2>1. n \in Nat \ {0} /\ names \in SUBSET Creds
    BY <1>2, <1>10 DEF Registries
  <2>2. registry' = [registry EXCEPT !.sealed = n, !.names = names]
    BY <1>1, <1>2 DEF Registries
  <2> HIDE DEF n, names
  <2>3. /\ registry' \in Registries /\ registry'.sealed = n
        /\ registry'.names = names /\ registry'.phrase = registry.phrase
    BY <1>2, <2>1, <2>2 DEF Registries
  <2> QED
    BY <2>3 DEF n, names
<1>12. \A s \in Runs : Client(s) \in lists => Client(s) \in Current'
  BY <1>10, Bounds, CredKinds DEF Recipients
<1>13. \A s \in Runs : StruckOut(Client(s)) => StruckOut(Client(s))'
  BY <1>4, <1>5, <1>8 DEF StruckOut, Was
<1>14. RecordInv'
  <2>1. \A p \in Phrases : local[p] # NoRecord => local[p].run \in Runs
    BY <1>2, Bounds DEF RecordInv, Typed, AccountTyped
  <2> QED
    BY <1>1, <1>2, <1>8, <1>11, <2>1, Bounds DEF RecordInv
<1>15. RosterInv'
  <2>1. Current' \subseteq Doc'.lists /\ Spent \notin Current'
    BY <1>4, <1>5, <1>8, <1>9, <1>10
  <2> QED
    BY <2>1 DEF RosterInv
<1>16. SpendInv'
  <2> SUFFICES ASSUME remember, ~Disconnected'
               PROVE  \E p \in Phrases :
                        /\ Listed(p)' /\ served[p] # 0
                        /\ Client(local[p].run) \in Current'
                        /\ \A x \in Runs : Was(Code(x)) =>
                             Code(x) \in saved \/ (local[p].pending /\ local[p].code = x)
    BY <1>1, <1>8 DEF SpendInv
  <2>1. ~Disconnected
    BY <1>13 DEF Disconnected
  <2>2. PICK p \in Phrases :
          /\ Listed(p) /\ served[p] # 0
          /\ \A x \in Runs : Was(Code(x)) =>
               Code(x) \in saved \/ (local[p].pending /\ local[p].code = x)
    BY <1>2, <2>1 DEF SpendInv
  <2>3. local[p].run \in Runs /\ Client(local[p].run) \in Doc.lists /\ local[p] # NoRecord
    BY <1>2, <2>2, Bounds DEF RecordInv, Listed, Typed, AccountTyped
  <2>4. Client(local[p].run) # c
    <3>1. Was(Client(local[p].run))
      BY <1>2, <2>3, ListedApart
    <3> QED
      BY <1>4, <1>6, <1>8, <2>3, <3>1 DEF Disconnected, StruckOut, Was
  <2>5. Client(local[p].run) \in lists
    BY <1>5, <2>3, <2>4
  <2> QED
    BY <1>1, <1>4, <1>8, <1>12, <2>2, <2>3, <2>5 DEF Listed
<1>17. RegistryInv'
  <2>1. \A s \in Runs : Code(s) \in registry'.names => Spent \notin registry'.names
    BY <1>2, <1>11 DEF RegistryInv
  <2>2. Old \in registry'.names => Old \in spaces'
    BY <1>2, <1>3, <1>11 DEF RegistryInv
  <2>3. d.ladder # 0 => \E p \in Phrases : Phrase(p) \in d.lists /\ served[p] = d.ladder
    <3> SUFFICES ASSUME d.ladder # 0
                 PROVE  \E p \in Phrases : Phrase(p) \in d.lists /\ served[p] = d.ladder
      OBVIOUS
    <3>1. PICK p \in Phrases : Phrase(p) \in Doc.lists /\ served[p] = Doc.ladder
      BY <1>2, <1>4 DEF RegistryInv
    <3> QED
      BY <1>3, <1>4, <1>5, <3>1
  <2>4. (LET opening == (Doc.lists \cap Current) \ {Spent, Other} IN
           (opening # {} => opening \cap epochs[registry.sealed] # {}))'
    BY <1>11, SealedToCurrent
  <2> QED
    BY <1>1, <1>8, <2>1, <2>2, <2>3, <2>4 DEF RegistryInv
<1>18. AccountInv'
  BY <1>8, <1>14, <1>15, <1>16, <1>17 DEF AccountInv
<1>19. Typed'
  BY <1>1, <1>2, <1>8, <1>10, <1>11 DEF Typed, AccountTyped, Records, Jobs
<1>20. \A t \in Tabs : JobInv(t)'
  BY <1>1, <1>2, <1>4, <1>5, <1>8, <1>10, <1>11, <1>12, OthersLeave
<1> QED
  BY <1>18, <1>19, <1>20 DEF Inv

LEMMA OtherRevokesStep ==
  ASSUME Inv, OtherRevokes, UNCHANGED remember
  PROVE  Inv'
<1>1. PICK r \in Runs : /\ Code(r) \in registry.names /\ Removes(Code(r))
                        /\ spaces' = spaces \ {Code(r)}
  BY DEF OtherRevokes
<1>2. acts' \in 0..MaxActs
  BY Bounds DEF OtherRevokes, Acts, Inv, Typed, AccountTyped
<1>3. Pivoted
  <2>1. Code(r) \notin {Old, Spent}
    BY CredsApart, Bounds
  <2> QED
    BY <1>1, <2>1 DEF Inv, AccountInv, Untouched
<1> QED
  BY <1>1, <1>2, <1>3, RemovalStep

LEMMA OtherDisconnectsStep ==
  ASSUME Inv, OtherDisconnects, UNCHANGED remember
  PROVE  Inv'
<1>1. PICK r \in Runs : Client(r) \in Doc.lists /\ Removes(Client(r))
  BY DEF OtherDisconnects
<1>2. acts' \in 0..MaxActs /\ spaces' = spaces
  BY Bounds DEF OtherDisconnects, Acts, Inv, Typed, AccountTyped
<1>3. Pivoted
  BY <1>1, ListedApart DEF Inv, AccountInv
<1> QED
  BY <1>1, <1>2, <1>3, RemovalStep

-----------------------------------------------------------------------------
(***************************************************************************)
(* The account before any spend, every step, and what follows.             *)
(***************************************************************************)
LEMMA InitInv == Init => Inv
<1> SUFFICES ASSUME Init PROVE Inv
  OBVIOUS
<1> DEFINE d == [lists |-> Before, revealed |-> FALSE, ladder |-> 0]
<1>1. /\ Standing \in SUBSET Creds /\ Before \in SUBSET Creds /\ Old # Spent
      /\ Spent \notin Standing /\ Spent \in Before /\ Old \in Before
  BY CredsTyped, CredsApart DEF Before
<1>2. /\ log = <<[lists |-> Standing, revealed |-> FALSE, ladder |-> 0], d>>
      /\ epochs = <<Before>>
  BY DEF Init, Before
<1>3. log \in Seq(Entry) /\ Len(log) = 2 /\ Doc = d /\ log[1].lists = Standing /\ log[2] = d
  <2>1. d \in Entry /\ [lists |-> Standing, revealed |-> FALSE, ladder |-> 0] \in Entry
    BY <1>1, Bounds DEF Entry
  <2> QED
    BY <1>2, <2>1 DEF Doc
<1>4. epochs \in Seq(SUBSET Creds) /\ Len(epochs) = 1 /\ epochs[1] = Before /\ Current = Before
  <2>1. epochs \in Seq(SUBSET Creds) /\ Len(epochs) = 1 /\ epochs[1] = Before
    BY <1>1, <1>2
  <2> QED
    BY <2>1 DEF Current
<1>5. Doc.lists = Before /\ Doc.ladder = 0 /\ ~Pivoted
  BY <1>1, <1>3 DEF Pivoted
<1>6. \A r \in Runs : /\ Client(r) \notin Before /\ Client(r) \notin Standing
                      /\ Code(r) \notin Before /\ Code(r) \notin Standing
  BY CredsTyped, CredsApart, Bounds DEF Before
<1>7. \A r \in Runs : ~Was(Client(r)) /\ ~Was(Code(r))
  <2>1. \A i \in 1..2 : log[i].lists \in {Standing, Before}
    BY <1>3
  <2> QED
    BY <1>3, <1>6, <2>1 DEF Was, EverListed
<1>8. registry = [sealed |-> 1, names |-> {Old, Spent}, phrase |-> NoPhrase, standing |-> FALSE]
  BY DEF Init
<1>9. AccountTyped
  <2>1. registry \in Registries /\ registry.sealed = 1
    BY <1>8, CredsTyped DEF Registries
  <2>2. NoRecord \in Records /\ NoRecord.head = 0
    BY Bounds DEF NoRecord, Records
  <2>3. local \in [Phrases -> Records] /\ \A p \in Phrases : local[p].head <= Len(log)
    BY <1>3, <2>2 DEF Init
  <2>4. served \in [Phrases -> 0..MaxRuns] /\ spaces \in SUBSET Creds
    BY Bounds, CredsTyped DEF Init
  <2>5. /\ saved \in SUBSET {Code(r) : r \in Runs} /\ remember \in BOOLEAN
        /\ runs \in 0..MaxRuns /\ acts \in 0..MaxActs /\ failures \in 0..MaxFailures
    BY Bounds DEF Init
  <2> QED
    BY <1>3, <1>4, <2>1, <2>3, <2>4, <2>5 DEF AccountTyped
<1>10. job = [t \in Tabs |-> Idle] /\ (\A t \in Tabs : job[t] = Idle)
  BY DEF Init
<1>11. Typed
  BY <1>3, <1>4, <1>9, <1>10, IdleShape DEF Typed
<1>12. LogInv
  <2>1. \A i \in 1..Len(log) :
          /\ Spent \in log[i].lists => log[i].lists = Before /\ log[i].ladder = 0
          /\ ~(i >= 2 /\ Spent \notin log[i].lists)
    BY <1>1, <1>3
  <2>2. \A r \in Runs : Client(r) \notin Doc.lists
    BY <1>5, <1>6
  <2> QED
    BY <1>3, <1>5, <1>7, <2>1, <2>2 DEF LogInv
<1>13. Untouched
  BY <1>2, <1>8 DEF Untouched, Init
<1>14. RecordInv
  <2>1. \A p \in Phrases : local[p] = NoRecord /\ local[p].run = 0
    BY DEF Init, NoRecord
  <2> QED
    BY <2>1 DEF RecordInv
<1>15. RosterInv
  <2>1. \A r \in Runs : ~StruckOut(Client(r))
    BY <1>7 DEF StruckOut, Was
  <2> QED
    BY <1>4, <1>5, <2>1 DEF RosterInv
<1>16. SpendInv
  BY <1>5 DEF SpendInv
<1>17. RegistryInv
  <2>1. \A r \in Runs : Code(r) \notin registry.names
    BY <1>8, CredsApart, Bounds
  <2>2. Old \in spaces
    BY DEF Init
  <2>3. Old \in Doc.lists \cap Current
    BY <1>1, <1>4, <1>5
  <2>4. epochs[registry.sealed] = Current
    BY <1>4, <1>8
  <2> QED
    BY <1>5, <2>1, <2>2, <2>4 DEF RegistryInv
<1>18. \A t \in Tabs : JobInv(t)
  <2> SUFFICES ASSUME NEW t \in Tabs PROVE JobInv(t)
    OBVIOUS
  <2>1. Staged(job[t])
    BY <1>10, IdleShape DEF Staged, HookStages, TailStages, RememberedStages, KeyStages
  <2>2. OnLog(t)
    BY <1>10, IdleShape DEF OnLog, HookStages, TailStages, OpenStages
  <2>3. OnRegistry(t)
    BY <1>8, <1>10, IdleShape DEF OnRegistry
  <2> QED
    BY <2>1, <2>2, <2>3 DEF JobInv
<1> QED
  BY <1>5, <1>11, <1>12, <1>13, <1>14, <1>15, <1>16, <1>17, <1>18 DEF Inv, AccountInv

LEMMA NextInv ==
  ASSUME OneTab, Inv, Next
  PROVE  Inv'
<1>1. UNCHANGED remember
  BY DEF Next
<1>2. ASSUME NEW t \in Tabs, Step(t) PROVE Inv'
  <2>1. CASE Probe(t) \/ Reveal(t) \/ PutRecord(t) \/ Keep(t) \/ PutCode(t) \/ Pivot(t)
    BY <1>1, <2>1, ProbeStep, RevealStep, PutRecordStep, KeepStep, PutCodeStep, PivotStep
  <2>2. CASE Escrow(t) \/ EscrowThrows(t) \/ Wrap(t) \/ Stand(t) \/ RotateOff(t) \/ Reseal(t)
    BY <1>1, <2>2, EscrowStep, EscrowThrowsStep, WrapStep, StandStep, RotateOffStep, ResealStep
  <2>3. CASE \/ ReplaceRecipients(t) \/ Prepare(t) \/ WriteRegistry(t) \/ DeleteSpaces(t)
             \/ DeleteSpentSpace(t)
    BY <1>1, <2>3, ReplaceRecipientsStep, PrepareStep, WriteRegistryStep, DeleteSpacesStep,
       DeleteSpentSpaceStep
  <2>4. CASE Confirm(t) \/ Settle(t) \/ Read(t) \/ ReadCode(t) \/ BackfillEntries(t)
    BY <1>1, <2>4, ConfirmStep, SettleStep, ReadStep, ReadCodeStep, BackfillEntriesStep
  <2> QED
    BY <1>2, <2>1, <2>2, <2>3, <2>4 DEF Step
<1>3. ASSUME NEW t \in Tabs, Sweep(t) \/ Tear(t) PROVE Inv'
  BY <1>1, <1>3, SweepStep, TearStep
<1>4. ASSUME NEW t \in Tabs, NEW p \in Phrases, Start(t, p) \/ LogIn(t, p) PROVE Inv'
  BY <1>1, <1>4, StartStep, LogInStep
<1>5. ASSUME Others PROVE Inv'
  BY <1>1, <1>5, OtherEditsStep, OtherSweepsStep, OtherRevokesStep, OtherDisconnectsStep DEF Others
<1> QED
  BY <1>2, <1>3, <1>4, <1>5 DEF Next

LEMMA StutterInv ==
  ASSUME Inv, UNCHANGED vars
  PROVE  Inv'
<1>1. UNCHANGED <<remember, account, local, job, saved, runs, acts, failures>>
  BY DEF vars, counts
<1>2. Typed'
  BY <1>1 DEF Inv, Typed, AccountTyped, account
<1>3. AccountInv'
  BY <1>1, Bounds, AccountKept DEF Inv, Typed, AccountTyped
<1>4. ASSUME NEW t \in Tabs PROVE JobInv(t)'
  <2>1. /\ Len(epochs') = Len(epochs) /\ Len(epochs) \in Nat /\ Doc' = Doc /\ Current' = Current
        /\ (Pivoted' <=> Pivoted) /\ (\A c : Was(c)' <=> Was(c))
    BY <1>1, Shapes DEF Inv, Doc, Current, Pivoted, Was, EverListed, account
  <2> QED
    BY <1>1, <2>1, OthersLeave DEF account
<1> QED
  BY <1>2, <1>3, <1>4 DEF Inv

LEMMA AlwaysInv ==
  ASSUME OneTab
  PROVE  Spec => []Inv
<1>1. Init => Inv
  BY InitInv
<1>2. Inv /\ [Next]_vars => Inv'
  BY NextInv, StutterInv
<1> QED
  BY <1>1, <1>2, PTL DEF Spec

\* With one tab, the account stays reachable: the spent code still opens it, or
\* a record of this browser names a client the document lists and the roster
\* lets in, or lets in by way of the code's own key; whatever stops, fails or is
\* answered from an old log, and whatever another client does.  Every variable
\* keeps its shape.
THEOREM SpendReachable ==
  ASSUME OneTab
  PROVE  Spec => []Reachable
<1>1. ASSUME Inv PROVE TypeOK
  <2>1. Typed /\ Len(log) \in Nat /\ Len(epochs) \in Nat /\ Len(epochs) >= 1
    BY <1>1, Shapes DEF Inv
  <2>2. /\ \A i \in 1..Len(log) : log[i] \in Entry
        /\ \A i \in 1..Len(epochs) : epochs[i] \subseteq Creds
    BY <1>1, Shapes DEF Inv
  <2>3. registry \in [sealed : 1..Len(epochs), names : SUBSET Creds,
                      phrase : Phrases \cup {NoPhrase}, standing : BOOLEAN]
    BY <2>1 DEF Typed, AccountTyped, Registries
  <2>4. \A p \in Phrases : local[p] \in
          [run : 0..MaxRuns, code : 0..MaxRuns, head : 0..Len(log), pending : BOOLEAN]
    BY <2>1 DEF Typed, AccountTyped, Records
  <2>5. ASSUME NEW t \in Tabs
        PROVE  /\ job[t].at \in Stages /\ job[t].p \in Phrases \cup {NoPhrase}
               /\ job[t].phase \in {"tail", "again", "resume", "confirm"}
               /\ job[t].run \in 0..MaxRuns /\ job[t].code \in 0..MaxRuns
               /\ job[t].doc \in 0..Len(log) /\ job[t].head \in 0..Len(log)
               /\ job[t].from \in 0..Len(epochs) /\ job[t].key \in 0..Len(epochs)
               /\ job[t].reg \in {"written", "not-owed", "failed"}
               /\ job[t].arm \in {"backfill", "upgrade", "drop", "none"}
               /\ job[t].drop \subseteq Creds
    BY <2>1 DEF Typed, Jobs
  <2> QED
    BY <2>1, <2>2, <2>3, <2>4, <2>5 DEF TypeOK, Typed, AccountTyped, Entry
<1>2. ASSUME Inv, remember
      PROVE  \/ Spent \in Doc.lists \cap Current \cap spaces
             \/ Disconnected
             \/ \E p \in Phrases :
                  /\ Listed(p) /\ served[p] # 0
                  /\ \/ Client(local[p].run) \in Current
                     \/ local[p].pending /\ Opens(Spent)
  <2>1. CASE Pivoted
    BY <1>2, <2>1 DEF Inv, AccountInv, SpendInv
  <2>2. CASE ~Pivoted
    BY <1>2, <2>2 DEF Inv, AccountInv, Untouched, Pivoted, Current, Before
  <2> QED
    BY <2>1, <2>2
<1>3. Inv => Reachable
  BY <1>1, <1>2 DEF Reachable
<1> QED
  BY <1>3, AlwaysInv, PTL

\* With one tab, a replacement code the account took in is saved, or waits on
\* the pending record of a listed client.
THEOREM SpendCodeIsKept ==
  ASSUME OneTab
  PROVE  Spec => []CodeIsKept
<1>1. Inv => CodeIsKept
  <2> SUFFICES ASSUME Inv, remember, ~Disconnected,
                      NEW c \in Runs, Was(Code(c)), Code(c) \notin saved
               PROVE  \E p \in Phrases : Listed(p) /\ local[p].pending /\ local[p].code = c
    BY DEF CodeIsKept, Was
  <2>1. Pivoted
    BY ListedApart DEF Inv, AccountInv
  <2> QED
    BY <2>1 DEF Inv, AccountInv, SpendInv
<1> QED
  BY <1>1, AlwaysInv, PTL

\* With one tab, what is recorded of the credentials is true of them: the
\* registry against the log, the Spaces and the roster, the document's ladder
\* against the unlock records.
THEOREM SpendRegistryIsTrue ==
  ASSUME OneTab
  PROVE  Spec => []RegistryIsTrue
<1>1. Inv => RegistryIsTrue
  BY DEF Inv, AccountInv, RecordInv, RegistryInv, RegistryIsTrue, Settled
<1> QED
  BY <1>1, AlwaysInv, PTL

\* A record is given up only where its client is out and the code is struck,
\* whichever earlier state of the log the login was answered from.
THEOREM SpendGivesUpRightly ==
  ASSUME OneTab
  PROVE  Spec => GivenUpRightly
<1> DEFINE Right == \A p \in Phrases : local[p] # NoRecord /\ local'[p] = NoRecord =>
                      Client(local[p].run) \notin Doc.lists /\ Spent \notin Doc.lists
<1>1. ASSUME Inv, [Next]_vars PROVE Right
  <2> SUFFICES ASSUME NEW p \in Phrases, local[p] # NoRecord, local'[p] = NoRecord
               PROVE  Client(local[p].run) \notin Doc.lists /\ Pivoted
    BY DEF Pivoted
  <2>1. local' # local
    OBVIOUS
  <2>2. ASSUME NEW t \in Tabs, Keep(t) PROVE FALSE
    <3>1. PendingRecord(t).pending /\ ~NoRecord.pending
      BY DEF PendingRecord, NoRecord
    <3> QED
      BY <1>1, <2>2, <3>1 DEF Keep, Inv, Typed, AccountTyped
  <2>3. ASSUME NEW t \in Tabs, Settle(t), UNCHANGED remember PROVE FALSE
    BY <1>1, <2>3, SettleAccount DEF Settle, At, counts
  <2>4. ASSUME NEW t \in Tabs, NEW q \in Phrases, LogIn(t, q)
        PROVE  Client(local[p].run) \notin Doc.lists /\ Pivoted
    <3>1. PICK k \in 1..Len(log) :
            local' = IF Route(k, local[q]) \in {"wipe", "discard"}
                     THEN [local EXCEPT ![q] = NoRecord] ELSE local
      BY <2>4 DEF LogIn
    <3>2. Route(k, local[q]) \in {"wipe", "discard"} /\ p = q
      BY <1>1, <2>1, <3>1 DEF Inv, Typed, AccountTyped
    <3> QED
      BY <1>1, <3>2, RouteTells DEF Inv, AccountInv
  <2>5. CASE \E t \in Tabs : Step(t) /\ UNCHANGED remember
    <3>1. PICK t \in Tabs : Step(t) /\ UNCHANGED remember
      BY <2>5
    <3>2. Keep(t) \/ Settle(t) \/ local' = local
      BY <3>1 DEF Step, Probe, Reveal, PutRecord, PutCode, Pivot, Escrow, EscrowThrows, Wrap, Stand,
         RotateOff, Reseal, ReplaceRecipients, Prepare, WriteRegistry, DeleteSpaces,
         DeleteSpentSpace, Confirm, Read, ReadCode, BackfillEntries
    <3> QED
      BY <2>1, <2>2, <2>3, <3>1, <3>2
  <2>6. CASE \E t \in Tabs : Sweep(t) \/ Tear(t) \/ \E q \in Phrases : Start(t, q)
    BY <2>1, <2>6 DEF Sweep, Tear, Start
  <2>7. CASE Others
    BY <2>1, <2>7 DEF Others, OtherEdits, OtherSweeps, OtherRevokes, OtherDisconnects, Removes
  <2>8. CASE UNCHANGED vars
    BY <2>1, <2>8 DEF vars
  <2> QED
    BY <1>1, <2>4, <2>5, <2>6, <2>7, <2>8 DEF Next
<1>2. Inv /\ [Next]_vars => [Right]_vars
  BY <1>1
<1> QED
  BY <1>2, AlwaysInv, PTL DEF Spec, GivenUpRightly
====
