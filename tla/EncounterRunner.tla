---- MODULE EncounterRunner ----
(***************************************************************************)
(* One session's background repairs: the login mender block, the gate it   *)
(* holds shut, and the encounters (repairs raised where a page met the     *)
(* damage) that wait behind the gate, join a run in flight, and stop after *)
(* one failure.  Every action is one synchronous stretch of the event      *)
(* loop: what the code does between two awaits.                            *)
(***************************************************************************)
EXTENDS Naturals, Sequences, FiniteSets

CONSTANTS
  Calls,     \* the calls of runEncounter the session makes
  Regs,      \* the encounter registrations
  Inbox,     \* those that wait for the login's inbox pass and run another
  Admitted,  \* those the session's authorities admit
  Block,     \* the block's registrations, in order
  Writers,   \* those of the block that write the registry (the seed among them)
  Skipped,   \* those of the block the registry does not admit on this route
  Seed,      \* the block's seed, or NoSeed
  NoSeed,
  NoCall

BlockRegs == {Block[i] : i \in 1..Len(Block)}

ASSUME RunnerAssumption ==
  /\ Inbox \subseteq Regs
  /\ Admitted \subseteq Regs
  /\ Writers \subseteq BlockRegs
  /\ Skipped \subseteq BlockRegs
  /\ Seed # NoSeed => Seed = Block[1] /\ Seed \in Writers
  /\ NoCall \notin Calls
  \* a registration stands once in the block
  /\ Block \in Seq(BlockRegs)
  /\ \A i, j \in 1..Len(Block) : Block[i] = Block[j] => i = j

VARIABLES
  call,      \* each call: where it stands, its registration, its evidence
  flights,   \* each registration's run in flight
  spent,     \* the registrations whose last run spent the session's budget
  gate,      \* whether the encounter gate is open
  at,        \* the block registration that runs next
  awaited,   \* what registryReady still waits for
  ready,     \* whether registryReady has settled
  mends,     \* whether session.mends has settled
  tail,      \* the login's inbox tail: not started, running or settled
  tornDown,  \* whether the session was torn down
  covered,   \* the calls whose registration began to converge since they
             \* were raised (history)
  last       \* how each registration's last run ended (history)

block == <<gate, at, awaited, ready, mends, tail>>
history == <<covered, last>>
runnerVars == <<call, flights, spent, gate, at, awaited, ready, mends, tail,
          tornDown, covered, last>>

Idle == [at |-> "idle", reg |-> NoCall, fresh |-> FALSE, on |-> NoCall]

\* A run's outcome: it converged, it spent the budget, or it never converged.
Converged == {"clean", "failed"}
Outcomes == Converged \cup {"refused", "disposed", "spent"}

Running == {"gated", "inbox", "converging", "settled"}
States == {"idle", "joined", "waiting"} \cup Running \cup Outcomes

RunnerTypeOK ==
  /\ call \in [Calls -> [at : States, reg : Regs \cup {NoCall},
                         fresh : BOOLEAN, on : Calls \cup {NoCall} \cup Outcomes]]
  /\ flights \in [Regs -> Calls \cup {NoCall}]
  /\ spent \subseteq Regs
  /\ gate \in BOOLEAN /\ ready \in BOOLEAN /\ mends \in BOOLEAN
  /\ at \in 1..(Len(Block) + 1)
  /\ awaited \subseteq Writers
  /\ tail \in {"none", "running", "settled"}
  /\ tornDown \in BOOLEAN
  /\ covered \subseteq Calls
  /\ last \in [Regs -> Converged]

RunnerInit ==
  /\ call = [c \in Calls |-> Idle]
  /\ flights = [r \in Regs |-> NoCall]
  /\ spent = {}
  /\ gate = FALSE
  /\ at = 1
  /\ awaited = Writers \ Skipped
  /\ ready = (Writers \subseteq Skipped)
  /\ mends = FALSE
  /\ tail = "none"
  /\ tornDown = FALSE
  /\ covered = {}
  /\ last = [r \in Regs |-> "clean"]

(***************************************************************************)
(* The block.                                                              *)
(***************************************************************************)
\* openEncounterGateBehindBlock: the gate opens behind registryReady.
OpenEncounterGate ==
  /\ ready /\ ~gate
  /\ gate' = TRUE
  /\ UNCHANGED <<call, flights, spent, at, awaited, ready, mends, tail,
                 tornDown, history>>

\* A block registration reports (or is skipped, or throws and is reported as
\* failed); the last registry writer settles registryReady.
\* Mutant of Reports: registryReady settles with the first report.
ReportsFirst(r) == awaited' = IF r \in awaited THEN {} ELSE awaited
Reports(r) == awaited' = awaited \ {r}

BlockStep ==
  /\ at <= Len(Block)
  /\ Reports(Block[at])
  /\ ready' = (ready \/ awaited' = {})
  /\ at' = at + 1
  /\ UNCHANGED <<call, flights, spent, gate, mends, tail, tornDown, history>>

\* A seed that fails ends the block, its registry writers unreported.
SeedFails ==
  /\ at = 1 /\ Seed # NoSeed /\ Seed \notin Skipped
  /\ at' = Len(Block) + 1
  /\ Reports(Seed)
  /\ ready' = (ready \/ awaited' = {})
  /\ UNCHANGED <<call, flights, spent, gate, mends, tail, tornDown, history>>

\* The backstop behind the block.
BlockEnds ==
  /\ at = Len(Block) + 1 /\ ~mends
  /\ ready' = TRUE
  /\ mends' = TRUE
  /\ UNCHANGED <<call, flights, spent, gate, at, awaited, tail, tornDown,
                 history>>

\* The inbox tail runs behind the whole block; a guest's settles at once.
TailStarts ==
  /\ mends /\ tail = "none"
  /\ tail' \in {"running", "settled"}
  /\ UNCHANGED <<call, flights, spent, gate, at, awaited, ready, mends,
                 tornDown, history>>

TailSettles ==
  /\ tail = "running"
  /\ tail' = "settled"
  /\ UNCHANGED <<call, flights, spent, gate, at, awaited, ready, mends,
                 tornDown, history>>

(***************************************************************************)
(* runEncounter.                                                           *)
(***************************************************************************)
\* Puts call c in flight for its registration.
Fly(c, r, fresh) ==
  /\ call' = [call EXCEPT ![c] = [at |-> "gated", reg |-> r, fresh |-> fresh,
                                  on |-> NoCall]]
  /\ flights' = [flights EXCEPT ![r] = c]

\* Whether a call joins the run in flight instead of waiting it out.
\* Mutant of Joins: a caller with fresh evidence joins too.
JoinsAnyway(r, fresh) == flights[r] # NoCall
Joins(r, fresh) == flights[r] # NoCall /\ ~fresh

RaiseRefused(c, r, fresh) ==
  /\ call[c].at = "idle" /\ r \notin Admitted
  /\ call' = [call EXCEPT ![c] = [at |-> "refused", reg |-> r,
                                  fresh |-> fresh, on |-> NoCall]]
  /\ UNCHANGED <<flights, spent, block, tornDown, history>>

RaiseJoins(c, r, fresh) ==
  /\ call[c].at = "idle" /\ r \in Admitted
  /\ Joins(r, fresh)
  /\ call' = [call EXCEPT ![c] = [at |-> "joined", reg |-> r, fresh |-> fresh,
                                  on |-> flights[r]]]
  /\ UNCHANGED <<flights, spent, block, tornDown, history>>

RaiseWaits(c, r, fresh) ==
  /\ call[c].at = "idle" /\ r \in Admitted
  /\ flights[r] # NoCall /\ ~Joins(r, fresh)
  /\ call' = [call EXCEPT ![c] = [at |-> "waiting", reg |-> r,
                                  fresh |-> fresh, on |-> flights[r]]]
  /\ UNCHANGED <<flights, spent, block, tornDown, history>>

RaiseRuns(c, r, fresh) ==
  /\ call[c].at = "idle" /\ r \in Admitted /\ flights[r] = NoCall
  /\ Fly(c, r, fresh)
  /\ UNCHANGED <<spent, block, tornDown, history>>

\* The run behind the gate: the teardown and the budget are looked at, and
\* then the converger starts (an inbox one behind the login's own pass).
Settles(c, outcome) ==
  call' = [call EXCEPT ![c].at = "settled", ![c].on = outcome]

GateDisposed(c) ==
  /\ call[c].at = "gated" /\ gate /\ tornDown
  /\ Settles(c, "disposed")
  /\ UNCHANGED <<flights, spent, block, tornDown, history>>

Spends(c) == call[c].reg \in spent /\ ~call[c].fresh

GateSpent(c) ==
  /\ call[c].at = "gated" /\ gate /\ ~tornDown
  /\ Spends(c)
  /\ Settles(c, "spent")
  /\ UNCHANGED <<flights, spent, block, tornDown, history>>

\* The calls pending for a registration: a run that starts now reads the
\* evidence of every one of them.
Pending(r) == {c \in Calls : call[c].reg = r
                             /\ call[c].at \in {"joined", "waiting", "gated"}}

GateConverges(c) ==
  /\ call[c].at = "gated" /\ gate /\ ~tornDown
  /\ ~Spends(c)
  /\ call' = [call EXCEPT ![c].at = IF call[c].reg \in Inbox THEN "inbox"
                                    ELSE "converging"]
  /\ covered' = covered \cup Pending(call[c].reg)
  /\ UNCHANGED <<flights, spent, block, tornDown, last>>

\* An inbox converger awaits the login's pass, then looks at the teardown.
InboxMayRun == tail = "settled"

InboxDisposed(c) ==
  /\ call[c].at = "inbox" /\ InboxMayRun /\ tornDown
  /\ Settles(c, "clean")
  /\ spent' = spent \ {call[c].reg}
  /\ last' = [last EXCEPT ![call[c].reg] = "clean"]
  /\ UNCHANGED <<flights, block, tornDown, covered>>

\* runInboxPass serializes the passes of one session.
InboxConverges(c) ==
  /\ call[c].at = "inbox" /\ InboxMayRun /\ ~tornDown
  /\ \A d \in Calls : call[d].reg \in Inbox => call[d].at # "converging"
  /\ call' = [call EXCEPT ![c].at = "converging"]
  /\ UNCHANGED <<flights, spent, block, tornDown, history>>

\* The converger reports, the budget is spent or cleared.
\* Mutant of Budgeted: a failed run leaves the budget as it was.
BudgetedNever(r, outcome) ==
  spent' = IF outcome = "failed" THEN spent ELSE spent \ {r}
Budgeted(r, outcome) ==
  spent' = IF outcome = "failed" THEN spent \cup {r} ELSE spent \ {r}

Converge(c) ==
  /\ call[c].at = "converging"
  /\ \E outcome \in Converged :
       /\ Budgeted(call[c].reg, outcome)
       /\ Settles(c, outcome)
       /\ last' = [last EXCEPT ![call[c].reg] = outcome]
  /\ UNCHANGED <<flights, block, tornDown, covered>>

\* The caller that owns the run takes its entries and frees the flight: its
\* continuation was registered first, so it runs before any waiter's.
\* Mutant of OwnerReturns: a run that failed keeps its flight.
OwnerReturnsHolding(c) ==
  /\ call[c].at = "settled"
  /\ call' = [call EXCEPT ![c].at = IF call[c].on = "failed" THEN "settled"
                                    ELSE call[c].on, ![c].on = NoCall]
  /\ flights' = [flights EXCEPT ![call[c].reg] =
                   IF call[c].on = "failed" THEN @ ELSE NoCall]
  /\ UNCHANGED <<spent, block, tornDown, history>>
OwnerReturns(c) ==
  /\ call[c].at = "settled"
  /\ call' = [call EXCEPT ![c].at = call[c].on, ![c].on = NoCall]
  /\ flights' = [flights EXCEPT ![call[c].reg] = IF @ = c THEN NoCall ELSE @]
  /\ UNCHANGED <<spent, block, tornDown, history>>

Ended(c) == call[c].at \in Outcomes

JoinerReturns(c) ==
  /\ call[c].at = "joined" /\ Ended(call[c].on)
  /\ call' = [call EXCEPT ![c].at = call[call[c].on].at, ![c].on = NoCall]
  /\ UNCHANGED <<flights, spent, block, tornDown, history>>

\* A waiter looks again: it waits on a run started meanwhile, or starts its own.
\* Mutant of WaiterLooksAgain: it runs without looking.
WaiterRunsAnyway(c) == Fly(c, call[c].reg, TRUE)
WaiterLooksAgain(c) ==
  IF flights[call[c].reg] # NoCall
  THEN /\ call' = [call EXCEPT ![c].on = flights[call[c].reg]]
       /\ UNCHANGED flights
  ELSE Fly(c, call[c].reg, TRUE)

WaiterResumes(c) ==
  /\ call[c].at = "waiting" /\ Ended(call[c].on)
  /\ WaiterLooksAgain(c)
  /\ UNCHANGED <<spent, block, tornDown, history>>

\* disposeSession, at any await.
DisposeSession ==
  /\ ~tornDown
  /\ tornDown' = TRUE
  /\ UNCHANGED <<call, flights, spent, block, history>>

Raise(c) ==
  \E r \in Regs, fresh \in BOOLEAN :
    \/ RaiseRefused(c, r, fresh)
    \/ RaiseJoins(c, r, fresh)
    \/ RaiseWaits(c, r, fresh)
    \/ RaiseRuns(c, r, fresh)

Advance(c) ==
  \/ GateDisposed(c) \/ GateSpent(c) \/ GateConverges(c)
  \/ InboxDisposed(c) \/ InboxConverges(c)
  \/ Converge(c)
  \/ OwnerReturns(c) \/ JoinerReturns(c) \/ WaiterResumes(c)

Login ==
  \/ OpenEncounterGate \/ BlockStep \/ SeedFails \/ BlockEnds
  \/ TailStarts \/ TailSettles

RunnerNext ==
  \/ Login
  \/ DisposeSession
  \/ \E c \in Calls : Raise(c) \/ Advance(c)

RunnerSpec == RunnerInit /\ [][RunnerNext]_runnerVars

\* A settled promise resumes its awaiters, and every registration ends
\* (each of its remote calls has a timeout).
RunnerFairSpec ==
  /\ RunnerSpec
  /\ WF_runnerVars(Login)
  /\ \A c \in Calls : WF_runnerVars(Advance(c))

(***************************************************************************)
(* Properties.                                                             *)
(***************************************************************************)
InConverger(c) == call[c].at \in {"inbox", "converging"}

\* At most one run of a registration is past the gate and not settled, so
\* two sites that met the same damage never repair it beside each other
\* (runEncounter's "one run per session and invariant at a time").
OneRun ==
  \A c, d \in Calls :
    InConverger(c) /\ InConverger(d) /\ call[c].reg = call[d].reg => c = d

\* A caller with fresh evidence never gets the entries of a run that read the
\* state before its evidence landed ("its outcome does not cover it").
FreshIsCovered ==
  \A c \in Calls :
    call[c].fresh /\ call[c].at \in Converged => c \in covered

\* The session's limits on repairing hold.  A registration whose last run
\* failed does not converge again unless a caller brings fresh evidence (the
\* once-per-session budget, cleared by a run that converges); and once the
\* session is torn down no run starts to repair, though it was raised before.
LimitsHold ==
  [][\A c \in Calls :
       /\ /\ call[c].at = "gated" /\ call'[c].at \in {"inbox", "converging"}
          /\ ~call[c].fresh
          => last[call[c].reg] # "failed"
       /\ tornDown /\ call'[c].at = "converging" => call[c].at = "converging"]_runnerVars

\* No encounter converges beside a writer of the login: the gate opens behind
\* the last admitted registry writer of the block, or with the block's end, and
\* an encounter's inbox pass runs behind the login's own pass.
BehindWriters ==
  \A c \in Calls :
    /\ InConverger(c) => \A i \in at..Len(Block) : Block[i] \notin Writers \ Skipped
    /\ call[c].reg \in Inbox /\ call[c].at = "converging" => tail = "settled"

\* Whatever fails, every caller gets its entries, and the promises of the login
\* settle, a failed seed included.
EveryCallSettles ==
  /\ \A c \in Calls : call[c].at # "idle" ~> Ended(c)
  /\ <>(ready /\ gate /\ mends /\ tail = "settled")
====
