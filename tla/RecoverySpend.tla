---- MODULE RecoverySpend ----
(***************************************************************************)
(* A recovery code spent for a new passphrase.  The remembered spend       *)
(* persists the passphrase's unlock record, the browser's pending          *)
(* client-key record and the replacement code's record before the log      *)
(* entry that strikes the spent code, and finishes behind it; a spend torn *)
(* past the entry is finished by the next login from the pending record    *)
(* alone.  The transient spend keeps nothing local: its entry publishes    *)
(* the passphrase, and one roster append follows it.                       *)
(*                                                                         *)
(* A run stands for the keys one run of the ceremony mints: its client,    *)
(* its ladder and, unless a torn run's are used again, its replacement     *)
(* code.  An epoch of the roster is the set of its recipients.             *)
(***************************************************************************)
EXTENDS Naturals, FiniteSets, Sequences

CONSTANTS
  Tabs,
  Phrases,      \* the new passphrases the user may choose
  NoPhrase,
  OtherActs,    \* what another enrolled client may do meanwhile
  MaxActs,      \* bound: its acts
  MaxRuns,      \* bound: runs of the ceremony
  MaxFailures   \* bound: failed calls, stale reads and closed tabs

ASSUME SpendAssumption ==
  /\ NoPhrase \notin Phrases
  /\ OtherActs \subseteq {"edit", "sweep", "revoke", "disconnect"}
  /\ MaxActs \in Nat /\ MaxRuns \in Nat /\ MaxFailures \in Nat

Runs == 1..MaxRuns

Old == <<"old", 0>>       \* a credential from before, a passkey say
Spent == <<"spent", 0>>   \* the recovery code the user types
Other == <<"other", 0>>   \* another enrolled client
Client(r) == <<"client", r>>
Code(r) == <<"code", r>>
Phrase(p) == <<"phrase", p>>
Creds == {Old, Spent, Other} \cup {Client(r) : r \in Runs}
           \cup {Code(r) : r \in Runs} \cup {Phrase(p) : p \in Phrases}

VARIABLES
  remember,  \* whether the spend is the remembered one
  log,       \* the account log: each entry's document
  epochs,    \* the roster's epochs
  served,    \* the run whose unlock record stands at each passphrase's Space
  spaces,    \* the other unlock Spaces that stand
  registry,  \* the unlock-methods registry and the epoch it is sealed to
  local,     \* the browser's client-key record under each passphrase
  job,       \* each tab's ceremony, prompt or session
  saved,     \* the codes the user has confirmed saving
  runs, acts, failures

account == <<log, epochs, served, spaces, registry>>
counts == <<runs, acts, failures>>
vars == <<remember, account, local, job, saved, counts>>

Stages == {"idle", "probe", "reveal", "record", "keep", "code", "pivot",
           "escrow", "escrowCode", "wrap", "stand", "rotate", "reseal",
           "append", "prepare", "registry", "delete", "spentSpace", "shown", "settle",
           "saved", "read", "readCode", "session"}

NoRecord == [run |-> 0, code |-> 0, head |-> 0, pending |-> FALSE]
Idle == [at |-> "idle", phase |-> "tail", p |-> NoPhrase, run |-> 0,
         code |-> 0, doc |-> 0, head |-> 0, from |-> 0, key |-> 0,
         standing |-> FALSE, reg |-> "failed", arm |-> "backfill",
         drop |-> {}, live |-> FALSE]

\* The types; a key a tab holds is one the roster has.
TypeOK ==
  /\ remember \in BOOLEAN
  /\ \A i \in 1..Len(log) :
       log[i] \in [lists : SUBSET Creds, revealed : BOOLEAN, ladder : 0..MaxRuns]
  /\ \A i \in 1..Len(epochs) : epochs[i] \subseteq Creds
  /\ served \in [Phrases -> 0..MaxRuns]
  /\ spaces \subseteq Creds
  /\ registry \in [sealed : 1..Len(epochs), names : SUBSET Creds,
                   phrase : Phrases \cup {NoPhrase}, standing : BOOLEAN]
  /\ \A p \in Phrases : local[p] \in
       [run : 0..MaxRuns, code : 0..MaxRuns, head : 0..Len(log), pending : BOOLEAN]
  /\ \A t \in Tabs :
       /\ job[t].at \in Stages /\ job[t].p \in Phrases \cup {NoPhrase}
       /\ job[t].phase \in {"tail", "again", "resume", "confirm"}
       /\ job[t].run \in 0..MaxRuns /\ job[t].code \in 0..MaxRuns
       /\ job[t].doc \in 0..Len(log) /\ job[t].head \in 0..Len(log)
       /\ job[t].from \in 0..Len(epochs) /\ job[t].key \in 0..Len(epochs)
       /\ job[t].reg \in {"written", "not-owed", "failed"}
       /\ job[t].arm \in {"backfill", "upgrade", "drop", "none"}
       /\ job[t].drop \subseteq Creds
  /\ saved \subseteq {Code(r) : r \in Runs}
  /\ runs \in 0..MaxRuns /\ acts \in 0..MaxActs /\ failures \in 0..MaxFailures

Standing == {Old} \cup IF OtherActs = {} THEN {} ELSE {Other}
Init ==
  /\ remember \in BOOLEAN
  /\ log = <<[lists |-> Standing, revealed |-> FALSE, ladder |-> 0],
             [lists |-> Standing \cup {Spent}, revealed |-> FALSE, ladder |-> 0]>>
  /\ epochs = <<Standing \cup {Spent}>>
  /\ served = [p \in Phrases |-> 0]
  /\ spaces = {Old, Spent}
  /\ registry = [sealed |-> 1, names |-> {Old, Spent}, phrase |-> NoPhrase,
                 standing |-> FALSE]
  /\ local = [p \in Phrases |-> NoRecord]
  /\ job = [t \in Tabs |-> Idle]
  /\ saved = {} /\ runs = 0 /\ acts = 0 /\ failures = 0

Doc == log[Len(log)]
Current == epochs[Len(epochs)]
EverListed(c, k) == \E i \in 1..k : c \in log[i].lists
Publishes(d) == log' = Append(log, d)

At(t, at) == job[t].at = at
Goes(t, at) == job' = [job EXCEPT ![t].at = at]
Counted == failures < MaxFailures /\ failures' = failures + 1
Fine == UNCHANGED failures

\* Recipients are escrowed into every epoch, by an owner that opens them all.
\* Mutant of Wrapped: a fresh epoch takes them in.
WrappedFresh(cs) == Append(epochs, Current \cup cs)
Wrapped(cs) == [i \in 1..Len(epochs) |-> epochs[i] \cup cs]
Opens(owner) == \A i \in 1..Len(epochs) : owner \in epochs[i]
Escrows(owner, c) == Opens(owner) /\ epochs' = Wrapped({c})

\* A rotation wraps to whom the document lists.  A passphrase or passkey is
\* listed by commitment alone, and its key is on the roster's current entry.
ByCommitment(c) == c[1] \in {"old", "phrase"}
Recipients(lists) == {c \in lists : ByCommitment(c) => c \in Current}
Rotates ==
  epochs' = IF Recipients(Doc.lists) = Current THEN epochs
            ELSE Append(epochs, Recipients(Doc.lists))

(***************************************************************************)
(* The ceremony up to the add-and-retire entry.                            *)
(***************************************************************************)
\* The code's record is read and the account log verified: `doc` is the
\* document every later check of this run holds against.
Start(t, p) ==
  /\ At(t, "idle") /\ runs < MaxRuns /\ Spent \in spaces
  /\ runs' = runs + 1
  /\ job' = [job EXCEPT ![t] = [Idle EXCEPT !.at = "probe", !.p = p,
                                  !.run = runs + 1, !.doc = Len(log)]]
  /\ UNCHANGED <<account, local, saved, acts, failures>>

\* A standing record is overwritten only if the document read lists no
\* inventory of its credential.
Collides(t) ==
  served[job[t].p] # 0 /\ Phrase(job[t].p) \in log[job[t].doc].lists

\* A torn run's pending record lends its replacement code.
OwnPending(t) == remember /\ local[job[t].p].pending

Probe(t) ==
  /\ At(t, "probe")
  /\ job' = [job EXCEPT ![t] =
       IF Collides(t) THEN Idle
       ELSE [@ EXCEPT !.at = "reveal",
               !.code = IF OwnPending(t) THEN local[job[t].p].code
                        ELSE job[t].run]]
  /\ UNCHANGED <<account, local, saved, counts>>

\* The reveal entry, refused once the code is struck.
Reveal(t) ==
  /\ At(t, "reveal")
  /\ LET refused == Spent \notin Doc.lists IN
     /\ IF refused \/ Doc.revealed THEN UNCHANGED log
        ELSE Publishes([Doc EXCEPT !.revealed = TRUE])
     /\ job' = [job EXCEPT ![t] =
          IF refused THEN Idle
          ELSE [@ EXCEPT !.at = "record", !.head = Len(log')]]
  /\ UNCHANGED <<epochs, served, spaces, registry, local, saved, counts>>

\* The hook behind it: the passphrase's unlock record, the browser's pending
\* record, the replacement code's record.
RecordOf(t) == job[t].run
\* Mutant of AfterRecord: the pending record is left to the completion.
AfterRecordCode == "code"
AfterRecord == IF remember THEN "keep" ELSE "code"

PutRecord(t) ==
  /\ At(t, "record")
  /\ LET p == job[t].p IN
     IF Collides(t)
     THEN UNCHANGED served /\ job' = [job EXCEPT ![t] = Idle]
     ELSE served' = [served EXCEPT ![p] = RecordOf(t)]
          /\ Goes(t, AfterRecord)
  /\ UNCHANGED <<log, epochs, spaces, registry, local, saved, counts>>

\* Mutant of PendingRecord: it holds a code of the run's own.
PendingRecordMinted(t) ==
  [run |-> job[t].run, code |-> job[t].run, head |-> job[t].head,
   pending |-> TRUE]
PendingRecord(t) ==
  [run |-> job[t].run, code |-> job[t].code, head |-> job[t].head,
   pending |-> TRUE]
Keep(t) ==
  /\ At(t, "keep")
  /\ local' = [local EXCEPT ![job[t].p] = PendingRecord(t)]
  /\ Goes(t, "code")
  /\ UNCHANGED <<account, saved, counts>>

PutCode(t) ==
  /\ At(t, "code")
  /\ spaces' = spaces \cup {Code(job[t].code)}
  /\ Goes(t, "pivot")
  /\ UNCHANGED <<log, epochs, served, registry, local, saved, counts>>

\* What the entry adds, for what it strikes: every credential from before.
Successors(t) ==
  {Code(job[t].code), IF remember THEN Client(job[t].run) ELSE Phrase(job[t].p)}
Struck == {c \in Creds : c[1] \in {"old", "spent", "phrase"}}

\* The add-and-retire entry, compare-and-swap on the head the hook ran at; a
\* conflict goes back to the reveal, and the hook fires again.
Pivot(t) ==
  /\ At(t, "pivot")
  /\ IF Len(log) = job[t].head
     THEN /\ Publishes([Doc EXCEPT !.lists = (@ \ Struck) \cup Successors(t),
                          !.ladder = IF remember THEN 0 ELSE job[t].run])
          /\ Goes(t, IF remember THEN "escrow" ELSE "append")
     ELSE UNCHANGED log /\ Goes(t, "reveal")
  /\ UNCHANGED <<epochs, served, spaces, registry, local, saved, counts>>

(***************************************************************************)
(* The remembered spend's tail, as the client just published.              *)
(***************************************************************************)
Me(t) == Client(job[t].run)

\* The escrows are owned by the spent code; failing them ends the run.
EscrowStage(t) ==
  \/ /\ At(t, "escrow") /\ Escrows(Spent, Me(t)) /\ Goes(t, "escrowCode")
  \/ /\ At(t, "escrowCode") /\ Escrows(Spent, Code(job[t].code))
     /\ Goes(t, "wrap")

Escrow(t) ==
  /\ EscrowStage(t)
  /\ UNCHANGED <<log, served, spaces, registry, local, saved, counts>>

\* A step that throws ends the run: the page shows the error.
EscrowThrows(t) ==
  /\ job[t].at \in {"escrow", "escrowCode", "append"} /\ ~Opens(Spent)
  /\ job' = [job EXCEPT ![t] = Idle]
  /\ UNCHANGED <<account, local, saved, counts>>

\* The passphrase is made standing, best-effort: its wrap, owned by the new
\* client, and its document entry.
Unestablished(t) ==
  Goes(t, IF job[t].phase = "resume" THEN "prepare" ELSE "rotate")
Established(t) ==
  job' = [job EXCEPT ![t].standing = TRUE,
            ![t].at = IF job[t].phase = "resume" THEN "prepare" ELSE "rotate"]

Wrap(t) ==
  /\ At(t, "wrap")
  /\ LET c == Phrase(job[t].p) IN
     \/ /\ c \in Current /\ job[t].phase = "resume" /\ Fine
        /\ UNCHANGED epochs /\ Goes(t, "stand")
     \/ Escrows(Me(t), c) /\ Fine /\ Goes(t, "stand")
     \/ (IF Opens(Me(t)) THEN Counted ELSE Fine) /\ UNCHANGED epochs
        /\ Unestablished(t)
  /\ UNCHANGED <<log, served, spaces, registry, local, saved, runs, acts>>

\* The entry's answer may be lost behind it.
Stand(t) ==
  /\ At(t, "stand")
  /\ LET c == Phrase(job[t].p)
         there == c \in Doc.lists
         entry == [Doc EXCEPT !.lists = @ \cup {c},
                              !.ladder = served[job[t].p]] IN
     \/ /\ IF there THEN UNCHANGED log ELSE Publishes(entry)
        /\ Established(t) /\ Fine
     \/ /\ UNCHANGED log \/ (~there /\ Publishes(entry))
        /\ Unestablished(t) /\ Counted
  /\ UNCHANGED <<epochs, served, spaces, registry, local, saved, runs, acts>>

NewKey == Len(epochs')

\* The mandatory rotation; a client that cannot read the roster throws.
RotateOff(t) ==
  /\ At(t, "rotate")
  /\ IF Me(t) \in Current
     THEN /\ Rotates
          /\ job' = [job EXCEPT ![t].at = "reseal", ![t].from = Len(epochs),
                                ![t].key = NewKey]
     ELSE UNCHANGED epochs /\ job' = [job EXCEPT ![t] = Idle]
  /\ UNCHANGED <<log, served, spaces, registry, local, saved, counts>>

\* The registry is sealed to the rotated key, best-effort.
Reseal(t) ==
  /\ At(t, "reseal")
  /\ \/ /\ registry.sealed = job[t].from /\ Fine
        /\ registry' = [registry EXCEPT !.sealed = job[t].key]
     \/ /\ IF registry.sealed = job[t].from THEN Counted ELSE Fine
        /\ UNCHANGED registry
  /\ Goes(t, "registry")
  /\ UNCHANGED <<log, epochs, served, spaces, local, saved, runs, acts>>

\* The transient spend's one append: the code out, the passphrase and the
\* replacement in, and a fresh epoch.
ReplaceRecipients(t) ==
  /\ At(t, "append") /\ Opens(Spent)
  /\ epochs' = Append(Wrapped(Successors(t)),
                      Recipients(Doc.lists) \cup Successors(t))
  /\ job' = [job EXCEPT ![t].at = "registry", ![t].from = Len(epochs),
               ![t].key = Len(epochs) + 1, ![t].standing = TRUE]
  /\ UNCHANGED <<log, served, spaces, registry, local, saved, counts>>

(***************************************************************************)
(* The registry step: the struck credentials' entries out and the          *)
(* successors' in, then the unlock Spaces of the entries that went.        *)
(***************************************************************************)
\* The transient spend reads under the old key and writes under the new.
Readable(t) ==
  registry.sealed = job[t].key \/ (~remember /\ registry.sealed = job[t].from)

\* What a registry step writes past the drop: both successors, the upgrade of a
\* bare passphrase entry, or nothing.
Arm(t) ==
  IF Code(job[t].code) \notin registry.names \/ registry.phrase # job[t].p THEN "backfill"
  ELSE IF job[t].standing /\ ~registry.standing THEN "upgrade"
  ELSE "drop"

\* The resume picks its arm, binding the replacement's record again where it
\* backfills; preparing may fail, which leaves the confirm no step to retry.
Prepare(t) ==
  /\ At(t, "prepare")
  /\ \/ /\ Readable(t) /\ Fine
        /\ spaces' = IF Arm(t) = "backfill" THEN spaces \cup {Code(job[t].code)}
                     ELSE spaces
        /\ job' = [job EXCEPT ![t].at = "registry", ![t].arm = Arm(t)]
     \/ /\ IF Readable(t) THEN Counted ELSE Fine
        /\ UNCHANGED spaces
        /\ job' = [job EXCEPT ![t].at = "shown", ![t].arm = "none"]
  /\ UNCHANGED <<log, epochs, served, registry, local, saved, runs, acts>>

\* A retired credential is one the entry struck; the spent code's entry goes
\* by its id, where successors are written.
Retired == registry.names \cap {Old}

IsStanding(t) ==
  job[t].standing \/ (registry.phrase = job[t].p /\ registry.standing)
Written(t) ==
  LET backfills == job[t].arm = "backfill" IN
  [sealed |-> job[t].key,
   names |-> IF backfills
             THEN ((registry.names \ Retired) \ {Spent}) \cup {Code(job[t].code)}
             ELSE registry.names \ Retired,
   phrase |-> IF job[t].arm = "drop" THEN registry.phrase ELSE job[t].p,
   standing |-> IF job[t].arm = "drop" THEN registry.standing
                ELSE IsStanding(t)]

\* A write that is not known to have landed deletes nothing.
DropOf(landed) == IF landed THEN Retired ELSE {}

WriteRegistry(t) ==
  /\ At(t, "registry")
  /\ LET owed == Written(t) # registry
         Done(reg, landed) ==
           job' = [job EXCEPT ![t].at = "delete", ![t].reg = reg,
                              ![t].drop = DropOf(landed)] IN
     \/ /\ Readable(t) /\ Fine
        /\ registry' = Written(t)
        /\ Done(IF owed THEN "written" ELSE "not-owed", TRUE)
     \/ /\ Readable(t) /\ owed /\ Counted
        /\ registry' \in {registry, Written(t)}
        /\ Done("failed", FALSE)
     \/ ~Readable(t) /\ Fine /\ UNCHANGED registry /\ Done("failed", FALSE)
  /\ UNCHANGED <<log, epochs, served, spaces, local, saved, runs, acts>>

\* The transient spend tries a failed write once more, having nothing a later
\* login could try it from.
AfterDelete(t) ==
  CASE job[t].phase = "resume" -> "shown"
    [] job[t].phase = "confirm" -> "settle"
    [] job[t].phase = "tail" /\ ~remember /\ job[t].reg = "failed" -> "registry"
    [] OTHER -> "spentSpace"
DeleteSpaces(t) ==
  /\ At(t, "delete")
  /\ \/ spaces' = spaces \ job[t].drop /\ Fine
     \/ job[t].drop # {} /\ UNCHANGED spaces /\ Counted
  /\ job' = [job EXCEPT ![t].at = AfterDelete(t), ![t].drop = {},
               ![t].phase = IF AfterDelete(t) = "registry" THEN "again" ELSE @]
  /\ UNCHANGED <<log, epochs, served, registry, local, saved, runs, acts>>

DeleteSpentSpace(t) ==
  /\ At(t, "spentSpace")
  /\ \/ spaces' = spaces \ {Spent} /\ Fine
     \/ UNCHANGED spaces /\ Counted
  /\ Goes(t, "shown")
  /\ UNCHANGED <<log, epochs, served, registry, local, saved, runs, acts>>

(***************************************************************************)
(* The save confirm, which clears the pending record.                      *)
(***************************************************************************)
\* A registry write that failed is tried again first; without one to try, or
\* when it fails again, the record stays pending.
Confirm(t) ==
  /\ At(t, "shown")
  /\ job' = [job EXCEPT ![t].at = IF remember /\ job[t].reg = "failed" /\ job[t].arm # "none"
                                  THEN "registry" ELSE "settle",
                        ![t].phase = "confirm"]
  /\ UNCHANGED <<account, local, saved, counts>>

Clears(t) == job[t].reg # "failed"
Settle(t) ==
  /\ At(t, "settle")
  /\ local' = IF remember /\ Clears(t) /\ local[job[t].p] # NoRecord
              THEN [local EXCEPT ![job[t].p].pending = FALSE,
                                 ![job[t].p].code = 0] ELSE local
  /\ saved' = saved \cup {Code(job[t].code)}
  /\ Goes(t, "saved")
  /\ UNCHANGED <<account, counts>>

(***************************************************************************)
(* The login under the new passphrase, and the resume.                     *)
(***************************************************************************)
\* A served log short of the head the entry was built on decides nothing.
Behind(k, rec) == k < rec.head

Route(k, rec) ==
  IF Client(rec.run) \in log[k].lists THEN IF rec.pending THEN "read" ELSE "session"
  ELSE IF rec.pending /\ Behind(k, rec) THEN "behind"
  ELSE IF EverListed(Client(rec.run), k) THEN "wipe"
  ELSE IF rec.pending /\ Spent \notin log[k].lists THEN "discard"
  ELSE "refused"

\* A record-less browser is not followed further.
LogIn(t, p) ==
  /\ remember /\ job[t].at \in {"idle", "saved", "session"}
  /\ served[p] # 0 /\ local[p] # NoRecord
  /\ \E k \in 1..Len(log) :
       /\ IF k = Len(log) THEN Fine ELSE Counted
       /\ LET rec == local[p]
              route == Route(k, rec)
              owes == job[t].at = "saved" /\ ~job[t].live /\ job[t].p = p IN
          /\ job' = [job EXCEPT ![t] =
               IF route = "read"
               THEN [Idle EXCEPT !.at = "read", !.phase = "resume", !.p = p,
                       !.run = rec.run, !.code = rec.code]
               ELSE IF route = "session"
               THEN [Idle EXCEPT !.at = "session", !.p = p, !.run = rec.run,
                       !.code = IF owes THEN job[t].code ELSE 0,
                       !.key = Len(epochs), !.live = TRUE]
               ELSE Idle]
          /\ local' = IF route \in {"wipe", "discard"}
                      THEN [local EXCEPT ![p] = NoRecord] ELSE local
  /\ UNCHANGED <<account, saved, runs, acts>>

\* The roster is read under the client's own wrap, or the spent code's key
\* escrows the client first.
\* Mutant of ReadRoster: the client's own wrap is all there is.
ReadRosterOwn(t) == Me(t) \in Current /\ UNCHANGED epochs
ReadRoster(t) == IF Me(t) \in Current THEN UNCHANGED epochs
                 ELSE Escrows(Spent, Me(t))
Read(t) ==
  /\ At(t, "read")
  /\ \/ ReadRoster(t) /\ Goes(t, "readCode")
     \/ /\ Me(t) \notin Current /\ ~Opens(Spent)
        /\ UNCHANGED epochs /\ job' = [job EXCEPT ![t] = Idle]
  /\ UNCHANGED <<log, served, spaces, registry, local, saved, counts>>

\* The replacement code's wrap, best-effort; the key is the current epoch's.
ReadCode(t) ==
  /\ At(t, "readCode")
  /\ \/ /\ Code(job[t].code) \in Current /\ UNCHANGED epochs /\ Fine
     \/ /\ Code(job[t].code) \notin Current
        /\ \/ Escrows(Spent, Code(job[t].code)) /\ Fine
           \/ UNCHANGED epochs /\ IF Opens(Spent) THEN Counted ELSE Fine
  /\ job' = [job EXCEPT ![t].at = "wrap", ![t].key = Len(epochs), ![t].live = TRUE]
  /\ UNCHANGED <<log, served, spaces, registry, local, saved, runs, acts>>

\* A login's sweep: the roster is rotated onto the document and the registry
\* sealed to its key, which the session adopts.
Sweep(t) ==
  /\ job[t].at \in {"shown", "saved", "session"} /\ job[t].live
  /\ Me(t) \in Current /\ Me(t) \in Doc.lists
  /\ Rotates
  /\ registry' = [registry EXCEPT !.sealed = Len(epochs')]
  /\ job' = [job EXCEPT ![t].key = Len(epochs')]
  /\ UNCHANGED <<log, served, spaces, local, saved, counts>>

\* The recover page writes its two recovery entries once more behind the login.
BackfillEntries(t) ==
  /\ At(t, "session") /\ job[t].code # 0
  /\ registry' = IF registry.sealed = job[t].key
                 THEN [registry EXCEPT !.names = (@ \ {Spent}) \cup {Code(job[t].code)}]
                 ELSE registry
  /\ job' = [job EXCEPT ![t].code = 0]
  /\ UNCHANGED <<log, epochs, served, spaces, local, saved, counts>>

\* A tab is closed or reloaded, or one of its calls fails for good.
Tear(t) ==
  /\ job[t].at # "idle" /\ Counted
  /\ job' = [job EXCEPT ![t] = Idle]
  /\ UNCHANGED <<account, local, saved, runs, acts>>

(***************************************************************************)
(* Another enrolled client.                                                *)
(***************************************************************************)
Acts(act) == act \in OtherActs /\ acts < MaxActs /\ acts' = acts + 1

\* Some edit of its own.
OtherEdits ==
  /\ Acts("edit") /\ Publishes(Doc)
  /\ UNCHANGED <<epochs, served, spaces, registry, local, job, saved, runs, failures>>

\* Its login sweep.
OtherSweeps ==
  /\ Acts("sweep") /\ Rotates
  /\ registry' = [registry EXCEPT !.sealed = Len(epochs')]
  /\ UNCHANGED <<log, served, spaces, local, job, saved, runs, failures>>

\* It takes a credential out: the document, the roster, the registry.
Removes(c) ==
  /\ Publishes([Doc EXCEPT !.lists = @ \ {c}])
  /\ epochs' = Append(epochs, Recipients(Doc.lists \ {c}))
  /\ registry' = [registry EXCEPT !.sealed = Len(epochs'), !.names = @ \ {c}]
  /\ UNCHANGED <<served, local, job, saved, runs, failures>>

\* It revokes the replacement code, which the registry lists.
OtherRevokes ==
  /\ Acts("revoke")
  /\ \E r \in Runs : /\ Code(r) \in registry.names
                    /\ Removes(Code(r))
                    /\ spaces' = spaces \ {Code(r)}

\* It disconnects the new client.
OtherDisconnects ==
  /\ Acts("disconnect")
  /\ \E r \in Runs : Client(r) \in Doc.lists /\ Removes(Client(r))
  /\ UNCHANGED spaces

Step(t) ==
  \/ Probe(t) \/ Reveal(t) \/ PutRecord(t) \/ Keep(t) \/ PutCode(t) \/ Pivot(t)
  \/ Escrow(t) \/ EscrowThrows(t) \/ Wrap(t) \/ Stand(t) \/ RotateOff(t)
  \/ Reseal(t) \/ ReplaceRecipients(t) \/ Prepare(t) \/ WriteRegistry(t)
  \/ DeleteSpaces(t) \/ DeleteSpentSpace(t) \/ Confirm(t) \/ Settle(t)
  \/ Read(t) \/ ReadCode(t) \/ BackfillEntries(t)
Others == OtherEdits \/ OtherSweeps \/ OtherRevokes \/ OtherDisconnects

Next ==
  /\ \/ \E t \in Tabs :
          \/ Step(t) \/ Sweep(t) \/ Tear(t)
          \/ \E p \in Phrases : Start(t, p) \/ LogIn(t, p)
     \/ Others
  /\ UNCHANGED remember

Spec == Init /\ [][Next]_vars

\* The calls under way get their answers; a session that stays open finishes
\* its sweep; the user logs in now and again.
Fairness ==
  \A t \in Tabs :
    /\ WF_vars(Step(t) /\ UNCHANGED remember)
    /\ SF_vars(Sweep(t) /\ UNCHANGED remember)
    /\ \A p \in Phrases : WF_vars(LogIn(t, p) /\ UNCHANGED remember)
FairSpec == Spec /\ Fairness

(***************************************************************************)
(* Properties.                                                             *)
(***************************************************************************)
StruckOut(c) == EverListed(c, Len(log)) /\ c \notin Doc.lists
Disconnected == \E r \in Runs : StruckOut(Client(r))
Settled(p) == local[p] # NoRecord /\ ~local[p].pending
Listed(p) == local[p] # NoRecord /\ Client(local[p].run) \in Doc.lists

\* At every point the account is reached by the typed code still, or by the
\* new passphrase on this browser: its record names a client the document
\* lists, which opens the roster or holds the spent code's key to it.  Every
\* variable keeps its shape.
Reachable ==
  /\ TypeOK
  /\ remember =>
       \/ Spent \in Doc.lists \cap Current \cap spaces
       \/ Disconnected
       \/ \E p \in Phrases :
            /\ Listed(p) /\ served[p] # 0
            /\ \/ Client(local[p].run) \in Current
               \/ local[p].pending /\ Opens(Spent)

\* A replacement code the account took is on the pending record until the user
\* has confirmed saving it, whichever run minted it.
CodeIsKept ==
  remember =>
    \A c \in Runs : EverListed(Code(c), Len(log)) =>
      \/ Code(c) \in saved \/ Disconnected
      \/ \E p \in Phrases : Listed(p) /\ local[p].pending /\ local[p].code = c

\* What is recorded of the credentials is true of them.  A settled record leaves
\* a registry that names nothing the spend struck, and the passphrase it was
\* settled under; the registry names no struck credential whose unlock Space is
\* gone; once a listed credential of the spender's opens the roster, one opens
\* the epoch the registry is sealed to; and the ladder the document publishes
\* is the one in the record the passphrase opens.
RegistryIsTrue ==
  LET opening == (Doc.lists \cap Current) \ {Spent, Other} IN
  /\ remember =>
       \A p \in Phrases : Settled(p) =>
         registry.names \cap {Old, Spent} = {} /\ registry.phrase = p
  /\ Old \in registry.names => Old \in spaces
  /\ opening # {} => opening \cap epochs[registry.sealed] # {}
  /\ Doc.ladder # 0 =>
       \E p \in Phrases : Phrase(p) \in Doc.lists /\ served[p] = Doc.ladder

\* A record is given up only where its client is out and the code is struck,
\* however old the log a server hands the login.
GivenUpRightly ==
  [][\A p \in Phrases : local[p] # NoRecord /\ local'[p] = NoRecord =>
        Client(local[p].run) \notin Doc.lists /\ Spent \notin Doc.lists]_vars

\* No record is given up wrongly; and a spend past its entry is finished, the
\* spent code out of the roster and the browser's record settled.
Finishes ==
  /\ GivenUpRightly
  /\ (\E r \in Runs : Client(r) \in Doc.lists)
       ~> (Disconnected \/ (Spent \notin Current /\ \E p \in Phrases :
                              Settled(p) /\ Listed(p)))
====
