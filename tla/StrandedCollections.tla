---- MODULE StrandedCollections ----
(***************************************************************************)
(* A transient session's stranded collections: the ciphers a rebuild finds *)
(* no epoch of the session's user key for, the report of them, the binding *)
(* that runs the repair behind it, and the repair, beside the session's    *)
(* own ceremonies and the rotations of other clients.                      *)
(***************************************************************************)
EXTENDS Naturals

CONSTANTS
  Collections,
  MaxKey,       \* bound: the user key's generations
  MaxFailures   \* bound: reads, fetches and appends that fail

StrandsAssumption == MaxKey \in Nat \ {0} /\ MaxFailures \in Nat

VARIABLES
  roster,    \* the user key's current generation in the account's roster
  broken,    \* the collections no append moves
  coll,      \* the generation each collection's current epoch wraps to
  key,       \* the generation this session holds
  view,      \* what each of its ciphers was built from
  stranded,  \* the collections whose cipher refuses
  reports,   \* whether a callback of the storage waits for its microtask
  gate, disposed, rotating,
  running, dirty, seen,   \* the binding
  run, spent,             \* the run of the encounter, and its budget
  met,       \* the collections a run of the repair has met (history)
  failures

binding == <<running, dirty, seen>>
account == <<roster, broken, coll>>
ciphers == <<key, view, stranded, reports>>
session == <<gate, disposed, rotating>>
vars == <<account, ciphers, session, binding, run, spent, met, failures>>

Keys == 1..MaxKey
NoRun == [at |-> "idle", fresh |-> FALSE, read |-> 0, behind |-> FALSE,
          candidates |-> {}, moved |-> FALSE]

\* The types, what a refusing cipher means, and that the binding counts the run
\* that is under way.
TypeOK ==
  /\ roster \in Keys /\ key \in 1..roster
  /\ coll \in [Collections -> 1..roster] /\ broken \subseteq Collections
  /\ \A c \in Collections : view[c] \in 1..coll[c]
  /\ stranded = {c \in Collections : view[c] < key}
  /\ seen \subseteq Collections /\ met \subseteq Collections
  /\ run \in [at : {"idle", "gated", "list", "read", "follow", "check", "cascade",
                    "refresh", "grade"},
              fresh : BOOLEAN, read : 0..roster, behind : BOOLEAN,
              candidates : SUBSET Collections, moved : BOOLEAN]
  /\ running <=> run.at # "idle"
  /\ dirty => running
  /\ {reports, gate, disposed, rotating, spent} \subseteq BOOLEAN
  /\ failures \in 0..MaxFailures

\* A session built on the current key over collections a torn rotation may have
\* left behind; no callback was set when its first ciphers were built.
Init ==
  /\ roster \in Keys /\ key = roster /\ broken \in SUBSET Collections
  /\ coll \in [Collections -> 1..roster] /\ view = coll
  /\ stranded = {c \in Collections : view[c] < key}
  /\ reports = FALSE
  /\ gate = FALSE /\ disposed = FALSE /\ rotating = FALSE
  /\ running = FALSE /\ dirty = FALSE /\ seen = {}
  /\ run = NoRun /\ spent = FALSE
  /\ met = {} /\ failures = 0

Spend == failures < MaxFailures /\ failures' = failures + 1
Goes(at) == run' = [run EXCEPT !.at = at]

(***************************************************************************)
(* The storage manager.                                                    *)
(***************************************************************************)
\* The ciphers rebuilt under key k from the descriptors that were fetched, and
\* the report of those that refuse.
Rebuilds(k, fetched) ==
  /\ key' = k
  /\ view' = [c \in Collections |-> IF c \in fetched THEN coll[c] ELSE view[c]]
  /\ stranded' = {c \in Collections : view'[c] < k}
  /\ reports' = (reports \/ stranded' # {})
  /\ UNCHANGED met

\* A read that met an unknown epoch, a share or an unshare rebuilds them, each
\* for a descriptor that has moved.
Refresh ==
  /\ ~disposed
  /\ \E fetched \in SUBSET Collections :
       /\ \E c \in fetched : view[c] # coll[c]
       /\ Rebuilds(key, fetched)
  /\ UNCHANGED <<account, session, binding, run, spent, failures>>

(***************************************************************************)
(* The binding (encounterSites.ts).                                        *)
(***************************************************************************)
Fresh(candidates) == candidates \ seen # {}

StartRun ==
  /\ run' = [NoRun EXCEPT !.at = "gated", !.fresh = Fresh(stranded)]
  /\ seen' = seen \cup stranded
  /\ running' = TRUE

OnStranded ==
  \/ disposed /\ UNCHANGED <<binding, run>>
  \/ ~disposed /\ running /\ dirty' = TRUE /\ UNCHANGED <<running, seen, run>>
  \/ ~disposed /\ ~running /\ StartRun /\ UNCHANGED dirty

Reported ==
  /\ reports /\ reports' = FALSE
  /\ OnStranded
  /\ UNCHANGED <<account, key, view, stranded, session, spent, met, failures>>

\* The gate of the session's encounters opens, and replays what was stranded
\* before the callback was set.
\* Mutant of Replays: the gate opens and nothing is replayed.
ReplaysNothing == UNCHANGED <<binding, run>>
Replays == IF stranded = {} THEN UNCHANGED <<binding, run>> ELSE OnStranded

OpenGate ==
  /\ ~gate /\ gate' = TRUE
  /\ Replays
  /\ UNCHANGED <<account, ciphers, disposed, rotating, spent, met, failures>>

\* The run's end, and the trailing run behind it.
Ends(outcome) ==
  /\ spent' = CASE outcome = "failed" -> TRUE
                [] outcome = "clean" -> FALSE
                [] outcome = "skipped" -> spent
  /\ IF dirty /\ ~disposed
     THEN StartRun
     ELSE running' = FALSE /\ run' = NoRun /\ UNCHANGED seen
  /\ dirty' = FALSE

(***************************************************************************)
(* The repair (STRANDED_COLLECTION_ENCOUNTER behind runEncounter).         *)
(***************************************************************************)
Gated ==
  /\ run.at = "gated" /\ gate
  /\ IF disposed \/ (spent /\ ~run.fresh)
     THEN Ends("skipped")
     ELSE Goes("list") /\ UNCHANGED <<binding, spent>>
  /\ UNCHANGED <<account, ciphers, session, met, failures>>

Listed ==
  /\ run.at = "list"
  /\ met' = met \cup stranded
  /\ IF stranded = {} THEN Ends("clean")
     ELSE Goes("read") /\ UNCHANGED <<binding, spent>>
  /\ UNCHANGED <<account, ciphers, session, failures>>

\* The fresh roster read, which may fail.
ReadRoster ==
  /\ run.at = "read"
  /\ \/ /\ run' = [run EXCEPT !.at = IF key < roster THEN "follow" ELSE "check",
                              !.read = roster, !.behind = key < roster]
        /\ UNCHANGED <<binding, spent, failures>>
     \/ Spend /\ Ends("failed")
  /\ UNCHANGED <<account, ciphers, session, met>>

\* Behind the roster the session adopts its key, unless a ceremony of its own
\* owns it.
Follow ==
  /\ run.at = "follow"
  /\ \/ /\ ~rotating /\ key < run.read
        /\ \E fetched \in SUBSET Collections : Rebuilds(run.read, fetched)
        /\ Goes("check") /\ UNCHANGED <<binding, spent, failures>>
     \/ /\ key >= run.read
        /\ Goes("check") /\ UNCHANGED <<ciphers, met, binding, spent, failures>>
     \/ /\ rotating /\ key < run.read
        /\ Ends("clean") /\ UNCHANGED <<ciphers, met, failures>>
     \/ /\ Spend
        /\ Ends("failed") /\ UNCHANGED <<ciphers, met>>
  /\ UNCHANGED <<account, session>>

StandsDown == disposed \/ rotating

Check ==
  /\ run.at = "check"
  /\ IF (run.behind /\ stranded = {}) \/ StandsDown
     THEN Ends("clean")
     ELSE /\ run' = [run EXCEPT !.at = "cascade", !.candidates = stranded]
          /\ UNCHANGED <<binding, spent>>
  /\ UNCHANGED <<account, ciphers, session, met, failures>>

\* Every candidate on an older generation than the read is moved onto it, one
\* that fails left where it is.
Onto(c) == IF coll[c] < run.read THEN run.read ELSE coll[c]

Cascade ==
  /\ run.at = "cascade"
  /\ \E done \in SUBSET (run.candidates \ broken) :
       /\ IF done = run.candidates \ broken THEN UNCHANGED failures ELSE Spend
       /\ coll' = [c \in Collections |-> IF c \in done THEN Onto(c) ELSE coll[c]]
  /\ run' = [run EXCEPT !.at = "refresh", !.moved = coll' # coll]
  /\ UNCHANGED <<roster, broken, ciphers, session, binding, spent, met>>

RefreshCascaded ==
  /\ run.at = "refresh"
  /\ IF run.moved \/ stranded # {}
     THEN \E fetched \in SUBSET Collections :
            /\ IF fetched = Collections THEN UNCHANGED failures ELSE Spend
            /\ Rebuilds(key, fetched)
     ELSE UNCHANGED <<ciphers, met, failures>>
  /\ Goes("grade")
  /\ UNCHANGED <<account, session, binding, spent>>

Grade ==
  /\ run.at = "grade"
  /\ Ends(IF run.candidates \cap stranded # {} THEN "failed" ELSE "clean")
  /\ UNCHANGED <<account, ciphers, session, met, failures>>

(***************************************************************************)
(* The session's own rotating ceremony, and other clients'.                *)
(***************************************************************************)
\* A rotating ceremony waits out an adoption under way.
RotateStarts ==
  /\ ~rotating /\ ~disposed /\ roster < MaxKey /\ key = roster
  /\ rotating' = TRUE
  /\ UNCHANGED <<account, ciphers, gate, disposed, binding, run, spent, met, failures>>

\* It moves the collections it can and rebuilds the ciphers under the new key.
RotateLands ==
  /\ rotating /\ roster < MaxKey /\ rotating' = FALSE
  /\ roster' = roster + 1
  /\ \E moved \in SUBSET (Collections \ broken) :
       /\ IF moved = Collections \ broken THEN UNCHANGED failures ELSE Spend
       /\ coll' = [c \in Collections |-> IF c \in moved THEN roster' ELSE coll[c]]
  /\ key' = roster'
  /\ view' = coll'
  /\ stranded' = {c \in Collections : view'[c] < key'}
  /\ reports' = (reports \/ stranded' # {})
  /\ UNCHANGED met
  /\ UNCHANGED <<broken, gate, disposed, binding, run, spent>>

\* Another client rotates, its fan-out torn anywhere.
OtherRotates ==
  /\ roster < MaxKey /\ ~rotating
  /\ roster' = roster + 1
  /\ \E moved \in SUBSET (Collections \ broken) :
       coll' = [c \in Collections |-> IF c \in moved THEN roster' ELSE coll[c]]
  /\ UNCHANGED <<broken, ciphers, session, binding, run, spent, met, failures>>

DisposeSession ==
  /\ ~disposed /\ disposed' = TRUE
  /\ UNCHANGED <<account, ciphers, gate, rotating, binding, run, spent, met, failures>>

Repair ==
  \/ Gated \/ Listed \/ ReadRoster \/ Follow \/ Check
  \/ Cascade \/ RefreshCascaded \/ Grade

Next ==
  \/ Refresh \/ Reported \/ OpenGate \/ Repair
  \/ RotateStarts \/ RotateLands \/ OtherRotates \/ DisposeSession

Spec == Init /\ [][Next]_vars

\* The gate always opens, a microtask runs, a run and a ceremony go on.
FairSpec ==
  /\ Spec
  /\ WF_vars(Reported) /\ WF_vars(OpenGate) /\ WF_vars(Repair) /\ WF_vars(RotateLands)

(***************************************************************************)
(* Properties.                                                             *)
(***************************************************************************)
\* No collection is moved back onto a retired generation, though the repair
\* holds a roster read that may be old by the time it writes.
CollectionsForward == [][\A c \in Collections : coll'[c] >= coll[c]]_vars

\* Every collection is met by a run when it is first stranded, whatever was
\* running when it was reported and however often the runs before it failed.
StrandIsMet ==
  \A c \in Collections :
    c \in stranded ~> c \notin stranded \/ c \in met \/ disposed

\* The binding comes to rest: its own rebuilds, which report the strands again,
\* do not keep it running for ever.
ComesToRest == <>[]~running
====
