---- MODULE SessionProofs ----
(***************************************************************************)
(* What a session's background work guarantees: the encounter runner for   *)
(* every number of calls and registrations and for every login block, and  *)
(* the adoption of rotated user keys for every number of sites,            *)
(* ceremonies, collections and epochs, and the repair of the collections a *)
(* torn rotation left behind.  No theorem speaks of two of them: the last  *)
(* borrows the names of the session's roster, key and disposal.            *)
(***************************************************************************)
EXTENDS EncounterRunner, UserKeyAdoption, TLAPS

(***************************************************************************)
(* The encounter runner.                                                   *)
(***************************************************************************)
\* A call past its raise has a registration, and the flight of a run is its
\* owner's until it returns.
Owns ==
  \A c \in Calls :
    /\ call[c].at # "idle" => call[c].reg \in Regs
    /\ call[c].at \in Running => flights[call[c].reg] = c
    /\ call[c].at \in {"joined", "waiting"} => call[c].on \in Calls
    /\ call[c].at = "settled" => call[c].on \in Outcomes

\* A call with fresh evidence joins nobody, and is covered by its own run.
Covers ==
  \A c \in Calls : call[c].fresh =>
    /\ call[c].at # "joined"
    /\ call[c].at \in {"inbox", "converging"} \cup Converged => c \in covered
    /\ call[c].at = "settled" /\ call[c].on \in Converged => c \in covered

\* The gate opens behind the last admitted writer of the block, no run passes
\* before it, and an inbox one waits for the login's pass too.
Opens ==
  /\ gate => ready
  /\ \A i \in at..Len(Block) :
       Block[i] \in Writers \ Skipped => Block[i] \in awaited /\ ~ready
  /\ \A c \in Calls :
       /\ InConverger(c) => gate
       /\ call[c].reg \in Inbox /\ call[c].at = "converging" => tail = "settled"

\* A registration whose last run failed has spent its budget.
Spent == \A r \in Regs : last[r] = "failed" => r \in spent

RunnerInv == RunnerTypeOK /\ Owns /\ Covers /\ Opens /\ Spent

CallType ==
  [at : States, reg : Regs \cup {NoCall}, fresh : BOOLEAN,
   on : Calls \cup {NoCall} \cup Outcomes]

\* The block has a length.
LEMMA BlockLen ==
  ASSUME RunnerAssumption
  PROVE  Len(Block) \in Nat /\ \A i \in 1..Len(Block) : Block[i] \in BlockRegs
  BY DEF RunnerAssumption

\* The first state satisfies the invariant.
LEMMA RunnerStart == RunnerAssumption /\ RunnerInit => RunnerInv
<1> SUFFICES ASSUME RunnerAssumption, RunnerInit PROVE RunnerInv
  OBVIOUS
<1>1. RunnerTypeOK
  <2>1. ready \in BOOLEAN
    BY Zenon DEF RunnerInit
  <2>2. call \in [Calls -> CallType]
    BY DEF RunnerInit, Idle, CallType, States
  <2>3. flights \in [Regs -> Calls \cup {NoCall}] /\ last \in [Regs -> Converged]
    BY DEF RunnerInit, Converged
  <2>4. at \in 1..(Len(Block) + 1)
    BY BlockLen DEF RunnerInit
  <2> QED
    BY <2>1, <2>2, <2>3, <2>4 DEF RunnerInit, RunnerTypeOK, CallType
<1>2. Owns /\ Covers /\ Spent
  BY DEF RunnerInit, Owns, Covers, Spent, Idle, Running, Converged
<1>3. Opens
  BY DEF RunnerInit, Opens, Idle, InConverger
<1> QED
  BY <1>1, <1>2, <1>3 DEF RunnerInv

\* The shape of the state, step by step.
LEMMA RunnerTyped ==
  ASSUME RunnerAssumption, RunnerInv, [RunnerNext]_runnerVars PROVE RunnerTypeOK'
<1>1. CASE Login
  <2>1. /\ UNCHANGED <<call, flights, spent, tornDown, covered, last>>
        /\ gate' \in BOOLEAN /\ ready' \in BOOLEAN /\ mends' \in BOOLEAN
        /\ tail' \in {"none", "running", "settled"}
    BY <1>1
    DEF RunnerInv, RunnerTypeOK, Login, OpenEncounterGate, BlockStep, SeedFails, BlockEnds,
        TailStarts, TailSettles, history
  <2>2. at' \in 1..(Len(Block) + 1)
    BY <1>1, BlockLen
    DEF RunnerInv, RunnerTypeOK, Login, OpenEncounterGate, BlockStep, SeedFails, BlockEnds,
        TailStarts, TailSettles
  <2>3. awaited' \subseteq Writers
    BY <1>1
    DEF RunnerInv, RunnerTypeOK, Login, OpenEncounterGate, BlockStep, SeedFails, BlockEnds,
        TailStarts, TailSettles, Reports
  <2> QED
    BY <2>1, <2>2, <2>3 DEF RunnerInv, RunnerTypeOK
<1>2. ASSUME NEW c \in Calls, Raise(c) PROVE RunnerTypeOK'
  BY <1>2
  DEF RunnerInv, RunnerTypeOK, States, Running, Outcomes, block, history, RunnerAssumption,
      Raise, RaiseRefused, RaiseJoins, RaiseWaits, RaiseRuns, Joins, Fly
<1>3. ASSUME NEW c \in Calls, Advance(c) PROVE RunnerTypeOK'
  <2> USE DEF RunnerTypeOK, States, Running, Outcomes, Converged, Settles, block, history
  <2>1. call[c].at # "idle" => call[c].reg \in Regs
    BY DEF RunnerInv, Owns
  <2>2. CASE GateDisposed(c) \/ GateSpent(c) \/ GateConverges(c)
    BY <2>1, <2>2 DEF RunnerInv, GateDisposed, GateSpent, GateConverges, Pending
  <2>3. CASE InboxDisposed(c) \/ InboxConverges(c) \/ Converge(c)
    BY <2>1, <2>3 DEF RunnerInv, InboxDisposed, InboxConverges, Converge, Budgeted
  <2>4. CASE OwnerReturns(c)
    <3>1. /\ call[c] \in CallType /\ call[c].reg \in Regs
          /\ call[c].on \in Outcomes /\ Outcomes \subseteq States
      BY <2>1, <2>4 DEF RunnerInv, Owns, OwnerReturns, CallType
    <3>2. [call[c] EXCEPT !.at = call[c].on, !.on = NoCall] \in CallType
      BY <3>1 DEF CallType
    <3>3. call' = [call EXCEPT ![c] = [call[c] EXCEPT !.at = call[c].on, !.on = NoCall]]
      BY <2>4 DEF RunnerInv, OwnerReturns
    <3>4. call' \in [Calls -> CallType]
      BY <3>2, <3>3 DEF RunnerInv, CallType
    <3> QED
      BY <2>4, <3>1, <3>4 DEF RunnerInv, OwnerReturns, CallType
  <2>5. CASE JoinerReturns(c)
    BY <2>5 DEF RunnerInv, Owns, JoinerReturns, Ended
  <2>6. CASE WaiterResumes(c)
    <3>1. CASE flights[call[c].reg] = NoCall
      <4>1. /\ call[c].reg \in Regs
            /\ call' = [call EXCEPT ![c] = [at |-> "gated", reg |-> call[c].reg,
                                            fresh |-> TRUE, on |-> NoCall]]
            /\ flights' = [flights EXCEPT ![call[c].reg] = c]
            /\ UNCHANGED <<spent, block, tornDown, history>>
        BY <2>1, <2>6, <3>1 DEF RunnerInv, WaiterResumes, WaiterLooksAgain, Fly
      <4> QED
        BY <4>1 DEF RunnerInv
    <3>2. CASE flights[call[c].reg] # NoCall
      <4> DEFINE d == flights[call[c].reg]
      <4>1. d \in Calls /\ call[c] \in CallType
        BY <2>1, <2>6, <3>2 DEF RunnerInv, WaiterResumes, CallType
      <4>2. [call[c] EXCEPT !.on = d] \in CallType
        BY <4>1 DEF CallType
      <4>3. /\ call' = [call EXCEPT ![c] = [call[c] EXCEPT !.on = d]]
            /\ UNCHANGED <<flights, spent, block, tornDown, history>>
        BY <2>6, <3>2 DEF RunnerInv, WaiterResumes, WaiterLooksAgain
      <4> HIDE DEF d
      <4>4. call' \in [Calls -> CallType]
        BY <4>2, <4>3 DEF RunnerInv, CallType
      <4> QED
        BY <4>3, <4>4 DEF RunnerInv, CallType
    <3> QED
      BY <3>1, <3>2
  <2> QED
    BY <1>3, <2>2, <2>3, <2>4, <2>5, <2>6 DEF Advance
<1>4. CASE DisposeSession \/ UNCHANGED runnerVars
  BY <1>4 DEF RunnerInv, RunnerTypeOK, DisposeSession, runnerVars, block, history
<1> QED
  BY <1>1, <1>2, <1>3, <1>4 DEF RunnerNext

\* A run keeps its flight, which no other call takes.
LEMMA OwnsStep ==
  ASSUME RunnerAssumption, RunnerInv, [RunnerNext]_runnerVars PROVE Owns'
<1> USE DEF Running
<1>1. CASE Login
  BY <1>1
  DEF RunnerInv, Owns, Login, OpenEncounterGate, BlockStep, SeedFails, BlockEnds,
      TailStarts, TailSettles
<1>2. ASSUME NEW c \in Calls, Raise(c) PROVE Owns'
  <2>1. PICK r \in Regs, fresh \in BOOLEAN :
          \/ RaiseRefused(c, r, fresh) \/ RaiseJoins(c, r, fresh)
          \/ RaiseWaits(c, r, fresh) \/ RaiseRuns(c, r, fresh)
    BY <1>2 DEF Raise
  <2>2. CASE RaiseRefused(c, r, fresh)
    BY <2>2 DEF RunnerInv, RunnerTypeOK, Owns, RaiseRefused
  <2>3. CASE RaiseJoins(c, r, fresh) \/ RaiseWaits(c, r, fresh)
    BY <2>3, RunnerAssumption
    DEF RunnerInv, RunnerTypeOK, Owns, RaiseJoins, RaiseWaits, Joins, RunnerAssumption
  <2>4. CASE RaiseRuns(c, r, fresh)
    BY <2>4, RunnerAssumption
    DEF RunnerInv, RunnerTypeOK, Owns, RaiseRuns, Fly, RunnerAssumption
  <2> QED
    BY <2>1, <2>2, <2>3, <2>4
<1>3. ASSUME NEW c \in Calls, Advance(c) PROVE Owns'
  <2>1. CASE GateDisposed(c) \/ GateSpent(c) \/ GateConverges(c)
    BY <2>1
    DEF RunnerInv, RunnerTypeOK, Owns, GateDisposed, GateSpent, GateConverges, Settles,
        Outcomes
  <2>2. CASE InboxDisposed(c) \/ InboxConverges(c) \/ Converge(c)
    BY <2>2
    DEF RunnerInv, RunnerTypeOK, Owns, InboxDisposed, InboxConverges, Converge, Settles,
        Outcomes, Converged
  <2>3. CASE OwnerReturns(c)
    BY <2>3 DEF RunnerInv, RunnerTypeOK, Owns, OwnerReturns, Outcomes, Converged
  <2>4. CASE JoinerReturns(c)
    BY <2>4 DEF RunnerInv, RunnerTypeOK, Owns, JoinerReturns, Ended, Outcomes, Converged
  <2>5. CASE WaiterResumes(c)
    BY <2>5, RunnerAssumption
    DEF RunnerInv, RunnerTypeOK, Owns, WaiterResumes, WaiterLooksAgain, Fly, RunnerAssumption
  <2> QED
    BY <1>3, <2>1, <2>2, <2>3, <2>4, <2>5 DEF Advance
<1>4. CASE DisposeSession \/ UNCHANGED runnerVars
  BY <1>4 DEF RunnerInv, Owns, DisposeSession, runnerVars
<1> QED
  BY <1>1, <1>2, <1>3, <1>4 DEF RunnerNext

\* What a caller with fresh evidence gets, its own registration's run reports.
LEMMA CoversStep ==
  ASSUME RunnerAssumption, RunnerInv, [RunnerNext]_runnerVars PROVE Covers'
<1>1. CASE Login
  BY <1>1
  DEF RunnerInv, Covers, Login, OpenEncounterGate, BlockStep, SeedFails, BlockEnds,
      TailStarts, TailSettles, history
<1>2. ASSUME NEW c \in Calls, Raise(c) PROVE Covers'
  <2>1. PICK r \in Regs, fresh \in BOOLEAN :
          \/ RaiseRefused(c, r, fresh) \/ RaiseJoins(c, r, fresh)
          \/ RaiseWaits(c, r, fresh) \/ RaiseRuns(c, r, fresh)
    BY <1>2 DEF Raise
  <2>2. CASE RaiseRefused(c, r, fresh) \/ RaiseRuns(c, r, fresh)
    BY <2>2
    DEF RunnerInv, RunnerTypeOK, Covers, RaiseRefused, RaiseRuns, Fly, Converged, history
  <2>3. CASE RaiseJoins(c, r, fresh) \/ RaiseWaits(c, r, fresh)
    BY <2>3
    DEF RunnerInv, RunnerTypeOK, Covers, RaiseJoins, RaiseWaits, Joins, Converged, history
  <2> QED
    BY <2>1, <2>2, <2>3
<1>3. ASSUME NEW c \in Calls, Advance(c) PROVE Covers'
  <2>1. CASE GateDisposed(c) \/ GateSpent(c)
    BY <2>1
    DEF RunnerInv, RunnerTypeOK, Covers, GateDisposed, GateSpent, Settles, Converged, history
  <2>2. CASE GateConverges(c)
    BY <2>2 DEF RunnerInv, RunnerTypeOK, Covers, GateConverges, Pending, Converged
  <2>3. CASE InboxDisposed(c) \/ InboxConverges(c) \/ Converge(c)
    BY <2>3
    DEF RunnerInv, RunnerTypeOK, Covers, InboxDisposed, InboxConverges, Converge, Settles,
        Converged, history
  <2>4. CASE OwnerReturns(c) \/ JoinerReturns(c)
    BY <2>4
    DEF RunnerInv, RunnerTypeOK, Owns, Covers, OwnerReturns, JoinerReturns, Converged,
        Outcomes, history
  <2>5. CASE WaiterResumes(c)
    BY <2>5
    DEF RunnerInv, RunnerTypeOK, Covers, WaiterResumes, WaiterLooksAgain, Fly, Converged,
        history
  <2> QED
    BY <1>3, <2>1, <2>2, <2>3, <2>4, <2>5 DEF Advance
<1>4. CASE DisposeSession \/ UNCHANGED runnerVars
  BY <1>4 DEF RunnerInv, Covers, DisposeSession, runnerVars, history
<1> QED
  BY <1>1, <1>2, <1>3, <1>4 DEF RunnerNext

\* The gate and the inbox tail are waited for.
LEMMA OpensStep ==
  ASSUME RunnerAssumption, RunnerInv, [RunnerNext]_runnerVars PROVE Opens'
<1> USE DEF InConverger
<1>1. CASE Login
  <2>1. (gate => ready)'
    BY <1>1
    DEF RunnerInv, Opens, Login, OpenEncounterGate, BlockStep, SeedFails, BlockEnds,
        TailStarts, TailSettles
  <2>2. ASSUME NEW i \in at'..Len(Block), Block[i] \in Writers \ Skipped
        PROVE  Block[i] \in awaited' /\ ~ready'
    <3>1. CASE BlockStep
      <4>1. at \in Nat /\ Len(Block) \in Nat /\ at' = at + 1
        BY <3>1, BlockLen DEF RunnerInv, RunnerTypeOK, BlockStep
      <4>2. i \in at..Len(Block) /\ i # at /\ at \in 1..Len(Block) /\ i \in 1..Len(Block)
        BY <3>1, <4>1 DEF RunnerInv, RunnerTypeOK, BlockStep
      <4>3. Block[i] # Block[at] /\ Block[i] \in awaited /\ ~ready
        BY <2>2, <4>2 DEF RunnerInv, Opens, RunnerAssumption
      <4> QED
        BY <3>1, <4>3 DEF BlockStep, Reports
    <3>2. CASE SeedFails \/ BlockEnds
      <4>1. at' = Len(Block) + 1
        BY <3>2 DEF SeedFails, BlockEnds
      <4> QED
        BY <2>2, <4>1, BlockLen
    <3>3. CASE OpenEncounterGate \/ TailStarts \/ TailSettles
      BY <2>2, <3>3
      DEF RunnerInv, Opens, OpenEncounterGate, TailStarts, TailSettles
    <3> QED
      BY <1>1, <3>1, <3>2, <3>3 DEF Login
  <2>3. ASSUME NEW c \in Calls
        PROVE  (/\ InConverger(c) => gate
                /\ call[c].reg \in Inbox /\ call[c].at = "converging"
                     => tail = "settled")'
    BY <1>1
    DEF RunnerInv, Opens, Login, OpenEncounterGate, BlockStep, SeedFails, BlockEnds,
        TailStarts, TailSettles
  <2> QED
    BY <2>1, <2>2, <2>3 DEF Opens
<1>2. ASSUME NEW c \in Calls, Raise(c) PROVE Opens'
  BY <1>2
  DEF RunnerInv, RunnerTypeOK, Opens, Raise, RaiseRefused, RaiseJoins, RaiseWaits,
      RaiseRuns, Fly, block
<1>3. ASSUME NEW c \in Calls, Advance(c) PROVE Opens'
  <2>1. CASE GateDisposed(c) \/ GateSpent(c) \/ GateConverges(c)
    BY <2>1
    DEF RunnerInv, RunnerTypeOK, Opens, GateDisposed, GateSpent, GateConverges, Settles, block
  <2>2. CASE InboxDisposed(c) \/ InboxConverges(c) \/ Converge(c)
    BY <2>2
    DEF RunnerInv, RunnerTypeOK, Opens, InboxDisposed, InboxConverges, InboxMayRun, Converge,
        Settles, block
  <2>3. CASE OwnerReturns(c) \/ JoinerReturns(c)
    BY <2>3
    DEF RunnerInv, RunnerTypeOK, Owns, Opens, OwnerReturns, JoinerReturns, Ended, Outcomes,
        Converged, block
  <2>4. CASE WaiterResumes(c)
    BY <2>4
    DEF RunnerInv, RunnerTypeOK, Opens, WaiterResumes, WaiterLooksAgain, Fly, block
  <2> QED
    BY <1>3, <2>1, <2>2, <2>3, <2>4 DEF Advance
<1>4. CASE DisposeSession \/ UNCHANGED runnerVars
  BY <1>4 DEF RunnerInv, Opens, DisposeSession, runnerVars, block
<1> QED
  BY <1>1, <1>2, <1>3, <1>4 DEF RunnerNext

\* A run that fails spends the budget, and only one that converges gives it back.
LEMMA SpentStep ==
  ASSUME RunnerAssumption, RunnerInv, [RunnerNext]_runnerVars PROVE Spent'
<1>1. CASE spent' = spent /\ last' = last
  BY <1>1 DEF RunnerInv, Spent
<1>2. ASSUME NEW c \in Calls, InboxDisposed(c) \/ Converge(c) PROVE Spent'
  BY <1>2
  DEF RunnerInv, RunnerTypeOK, Spent, InboxDisposed, Converge, Budgeted, Converged
<1> QED
  BY <1>1, <1>2
  DEF RunnerNext, Login, OpenEncounterGate, BlockStep, SeedFails, BlockEnds, TailStarts,
      TailSettles, Raise, RaiseRefused, RaiseJoins, RaiseWaits, RaiseRuns, Advance,
      GateDisposed, GateSpent, GateConverges, InboxConverges, OwnerReturns,
      JoinerReturns, WaiterResumes, DisposeSession, runnerVars, history

LEMMA RunnerInductive == RunnerAssumption /\ RunnerInv /\ [RunnerNext]_runnerVars => RunnerInv'
  BY RunnerTyped, OwnsStep, CoversStep, OpensStep, SpentStep DEF RunnerInv

\* The runner's inductive invariant: flights have one owner, fresh evidence its
\* own run, the gate its writers behind it, and a failed run its budget.
THEOREM RunnerSafety == RunnerSpec => []RunnerInv
  BY RunnerAssumption, RunnerStart, RunnerInductive, PTL DEF RunnerSpec

\* However many sites raise a registration at once, one run of it is past the
\* gate.
THEOREM OneRunSafety == RunnerSpec => []OneRun
<1>1. RunnerInv => OneRun
  BY DEF RunnerInv, Owns, OneRun, InConverger, Running
<1> QED
  BY <1>1, RunnerSafety, PTL

\* Fresh evidence is read by the run its caller gets the entries of.
THEOREM FreshIsCoveredSafety == RunnerSpec => []FreshIsCovered
<1>1. RunnerInv => FreshIsCovered
  BY DEF RunnerInv, Covers, FreshIsCovered
<1> QED
  BY <1>1, RunnerSafety, PTL

\* No encounter converges beside a writer of the login's block, or beside its
\* inbox pass.
THEOREM BehindWritersSafety == RunnerSpec => []BehindWriters
<1>1. RunnerInv => BehindWriters
  BY DEF RunnerInv, Opens, BehindWriters
<1> QED
  BY <1>1, RunnerSafety, PTL

\* The once-per-session budget, and the teardown, limit what starts to repair.
THEOREM LimitsHoldSafety == RunnerSpec => LimitsHold
<1> DEFINE Limited ==
      \A c \in Calls :
        /\ /\ call[c].at = "gated" /\ call'[c].at \in {"inbox", "converging"}
           /\ ~call[c].fresh
           => last[call[c].reg] # "failed"
        /\ tornDown /\ call'[c].at = "converging" => call[c].at = "converging"
<1>1. ASSUME RunnerInv, RunnerNext, NEW c \in Calls
      PROVE  /\ /\ call[c].at = "gated" /\ call'[c].at \in {"inbox", "converging"}
                /\ ~call[c].fresh
                => last[call[c].reg] # "failed"
             /\ tornDown /\ call'[c].at = "converging" => call[c].at = "converging"
  <2>1. CASE Login \/ DisposeSession
    BY <1>1, <2>1
    DEF Login, OpenEncounterGate, BlockStep, SeedFails, BlockEnds, TailStarts,
        TailSettles, DisposeSession
  <2>2. ASSUME NEW d \in Calls, Raise(d)
        PROVE  /\ call[c].at = "gated" => call'[c].at = "gated"
               /\ call'[c].at = "converging" => call[c].at = "converging"
    BY <1>1, <2>2
    DEF RunnerInv, RunnerTypeOK, Raise, RaiseRefused, RaiseJoins, RaiseWaits, RaiseRuns, Fly
  <2>3. ASSUME NEW d \in Calls,
               GateDisposed(d) \/ GateSpent(d) \/ InboxDisposed(d) \/ Converge(d)
               \/ OwnerReturns(d) \/ JoinerReturns(d) \/ WaiterResumes(d)
        PROVE  call'[c].at \in {"inbox", "converging"} => call'[c].at = call[c].at
    BY <1>1, <2>3
    DEF RunnerInv, RunnerTypeOK, Owns, GateDisposed, GateSpent, InboxDisposed, Converge,
        Settles, OwnerReturns, JoinerReturns, Ended, WaiterResumes,
        WaiterLooksAgain, Fly, Outcomes, Converged
  <2>4. ASSUME NEW d \in Calls, GateConverges(d) \/ InboxConverges(d)
        PROVE  /\ ~tornDown
               /\ call[c].at = "gated" /\ call'[c].at # "gated" =>
                    c = d /\ ~Spends(c)
    BY <1>1, <2>4 DEF RunnerInv, RunnerTypeOK, GateConverges, InboxConverges
  <2>5. call[c].at = "gated" /\ ~Spends(c) /\ ~call[c].fresh
          => last[call[c].reg] # "failed"
    BY <1>1 DEF RunnerInv, Owns, Spent, Spends
  <2> QED
    BY <1>1, <2>1, <2>2, <2>3, <2>4, <2>5 DEF RunnerNext, Advance
<1>2. RunnerInv /\ [RunnerNext]_runnerVars => [Limited]_runnerVars
  BY <1>1
<1> QED
  BY <1>2, RunnerSafety, PTL DEF RunnerSpec, LimitsHold

(***************************************************************************)
(* The adoption of a rotated user key.                                     *)
(***************************************************************************)
\* While a ceremony waits, it waits for every adoption in flight; and once it
\* no longer does, there is none.
Alone ==
  \A o \in marks, s \in Sites :
    Adopting(s) => own[o].at = "join" /\ s \in own[o].waits

\* A ceremony past its rotation works with the epoch it minted, and only one
\* past its re-seal has re-sealed.
Minted ==
  /\ \A o \in Ceremonies :
       own[o].at \notin {"idle", "join", "rotate"} => own[o].epoch \in Epochs
  /\ \A s \in Sites :
       site[s].at \notin {"idle", "joined"} => site[s].epoch \in Epochs

AdoptionInv == TypeOK /\ Alone /\ Minted

LEMMA AdoptionStart == AdoptionAssumption /\ Init => AdoptionInv
<1> SUFFICES ASSUME AdoptionAssumption, Init PROVE AdoptionInv
  OBVIOUS
<1>1. 1 \in Epochs
  BY DEF AdoptionAssumption, Epochs
<1>2. site \in [Sites -> [at : SiteSteps, epoch : Epochs \cup {None}]]
  BY DEF Init, IdleSite, SiteSteps
<1>3. IdleOwn \in [at : OwnSteps, epoch : Epochs \cup {None}, waits : SUBSET Sites,
                   resealed : BOOLEAN]
  BY DEF IdleOwn, OwnSteps
<1>4. TypeOK
  BY <1>1, <1>2, <1>3 DEF Init, TypeOK
<1>5. Alone /\ Minted
  BY DEF Init, Alone, Minted, IdleSite, IdleOwn
<1> QED
  BY <1>4, <1>5 DEF AdoptionInv

\* The types, step by step.
LEMMA AdoptionTyped ==
  ASSUME AdoptionAssumption, AdoptionInv, [Next]_vars PROVE TypeOK' /\ Minted'
<1> USE DEF TypeOK, Minted, server, local, Epochs, None
<1>1. CASE Others
  BY <1>1
  DEF AdoptionAssumption, AdoptionInv, Others, OtherRotates, OtherReseals, OtherFansOut
<1>2. CASE Dispose \/ UNCHANGED vars
  BY <1>2 DEF AdoptionInv, Dispose, vars
<1>3. ASSUME NEW s \in Sites, Follow(s) PROVE TypeOK' /\ Minted'
  <2> USE DEF SiteSteps, Rest, IdleSite
  <2>1. CASE ReadRoster(s)
    BY <2>1 DEF AdoptionInv, ReadRoster
  <2>2. CASE AdoptNothing(s) \/ JoinReturns(s)
    BY <2>2 DEF AdoptionInv, AdoptNothing, JoinReturns, Current
  <2>3. CASE AdoptJoins(s) \/ AdoptWrites(s)
    BY <2>3 DEF AdoptionInv, AdoptJoins, AdoptWrites, Goes
  <2>4. CASE AdoptPin(s) \/ AdoptRecords(s)
    BY <2>4 DEF AdoptionInv, AdoptPin, AdoptRecords, Advanced, Goes
  <2>5. CASE AdoptStandsDown(s)
    BY <2>5 DEF AdoptionInv, AdoptStandsDown, Current
  <2>6. CASE AdoptMoves(s)
    BY <2>6 DEF AdoptionInv, AdoptMoves, Rebuilt, Goes
  <2>7. CASE RepairStarts(s) \/ Repair(s)
    BY <2>7 DEF AdoptionInv, RepairStarts, Repair
  <2> QED
    BY <1>3, <2>1, <2>2, <2>3, <2>4, <2>5, <2>6, <2>7 DEF Follow
<1>4. ASSUME NEW o \in Ceremonies, Rotate(o) PROVE TypeOK' /\ Minted'
  <2> USE DEF OwnSteps, Does, Ends, IdleOwn
  <2>1. CASE OwnMarks(o) \/ OwnJoins(o)
    BY <2>1 DEF AdoptionInv, OwnMarks, OwnJoins
  <2>2. CASE OwnRotates(o)
    <3>1. roster + 1 \in Epochs
      BY <2>2 DEF AdoptionInv, OwnRotates, AdoptionAssumption
    <3> QED
      BY <2>2, <3>1 DEF AdoptionInv, OwnRotates
  <2>3. CASE OwnReseals(o)
    BY <2>3 DEF AdoptionInv, OwnReseals
  <2>4. CASE OwnPins(o) \/ OwnRecords(o) \/ OwnHolds(o)
    BY <2>4 DEF AdoptionInv, OwnPins, OwnRecords, OwnHolds, Advanced
  <2>5. ASSUME NEW c \in Collections, OwnFansOut(o, c) PROVE TypeOK' /\ Minted'
    BY <2>5 DEF AdoptionInv, OwnFansOut
  <2>6. CASE OwnFannedOut(o) \/ OwnAdopts(o)
    BY <2>6 DEF AdoptionInv, OwnFannedOut, OwnAdopts
  <2>7. CASE OwnSwaps(o)
    BY <2>7 DEF AdoptionInv, OwnSwaps, Rebuilt
  <2>8. CASE OwnThrows(o)
    BY <2>8 DEF AdoptionInv, OwnThrows
  <2> QED
    BY <1>4, <2>1, <2>2, <2>3, <2>4, <2>5, <2>6, <2>7, <2>8 DEF Rotate
<1> QED
  BY <1>1, <1>2, <1>3, <1>4 DEF Next

\* A ceremony found no adoption it does not wait for, and its mark lets none
\* start.
LEMMA AloneStep ==
  ASSUME AdoptionAssumption, AdoptionInv, [Next]_vars PROVE Alone'
<1>1. CASE Others \/ Dispose \/ UNCHANGED vars
  BY <1>1
  DEF AdoptionInv, Alone, Adopting, Others, OtherRotates, OtherReseals, OtherFansOut,
      Dispose, vars
<1>2. ASSUME NEW s \in Sites, Follow(s) PROVE Alone'
  <2>1. CASE AdoptPin(s)
    BY <2>1 DEF AdoptPin, OwnsKey, Alone
  <2>2. ASSUME ~AdoptPin(s)
        PROVE  UNCHANGED <<own, marks>> /\ \A u \in Sites : Adopting(u)' => Adopting(u)
    BY <1>2, <2>2
    DEF AdoptionInv, TypeOK, Adopting, Follow, ReadRoster, AdoptNothing, AdoptJoins,
        JoinReturns, AdoptStandsDown, AdoptWrites, AdoptRecords, AdoptMoves,
        RepairStarts, Repair, Current, Goes, Rest, IdleSite
  <2> QED
    BY <2>1, <2>2 DEF AdoptionInv, Alone
<1>3. ASSUME NEW o \in Ceremonies, Rotate(o) PROVE Alone'
  <2>1. site' = site
    BY <1>3
    DEF Rotate, OwnMarks, OwnJoins, OwnRotates, OwnReseals, OwnPins, OwnRecords,
        OwnHolds, OwnFansOut, OwnFannedOut, OwnAdopts, OwnSwaps, OwnThrows
  <2>2. CASE OwnMarks(o)
    BY <2>1, <2>2 DEF AdoptionInv, TypeOK, Alone, Adopting, OwnMarks
  <2>3. CASE OwnJoins(o)
    BY <2>1, <2>3 DEF AdoptionInv, TypeOK, Alone, Adopting, OwnJoins, Joined
  <2>4. ASSUME ~OwnMarks(o), ~OwnJoins(o)
        PROVE  /\ marks' \subseteq marks
               /\ own[o].at # "join"
               /\ \A p \in Ceremonies \ {o} : own'[p] = own[p]
    BY <1>3, <2>4
    DEF AdoptionInv, TypeOK, Rotate, OwnRotates, OwnReseals, OwnPins, OwnRecords,
        OwnHolds, OwnFansOut, OwnFannedOut, OwnAdopts, OwnSwaps, OwnThrows, Does,
        Ends
  <2> QED
    BY <2>1, <2>2, <2>3, <2>4 DEF AdoptionInv, TypeOK, Alone, Adopting
<1> QED
  BY <1>1, <1>2, <1>3 DEF Next

LEMMA AdoptionInductive == AdoptionAssumption /\ AdoptionInv /\ [Next]_vars => AdoptionInv'
  BY AdoptionTyped, AloneStep DEF AdoptionInv

\* The adoption's inductive invariant: its shape, and that a rotating ceremony
\* waits for every adoption it found.
THEOREM AdoptionSafety == Spec => []AdoptionInv
  BY AdoptionAssumption, AdoptionStart, AdoptionInductive, PTL DEF Spec

\* While a rotating ceremony of the session runs, no follower adoption does,
\* however many sites and ceremonies there are.
THEOREM RotatesAloneSafety == Spec => []RotatesAlone
<1>1. AdoptionInv => RotatesAlone
  BY DEF AdoptionInv, Alone, RotatesAlone
<1> QED
  BY <1>1, AdoptionSafety, PTL

-----------------------------------------------------------------------------
\* What keeps the keys in order.

\* One ceremony rotates at a time, under its mark to its end, and a browser
\* that keeps a client-key record has one site that follows.
OneAtATime ==
  /\ HeldAdoption
  /\ \A o, p \in Ceremonies : o = p
  /\ Remembered => \A s, t \in Sites : s = t

\* The steps at which a ceremony holds the epoch it minted.
Holding == {"reseal", "pin", "record", "hold", "fanOut", "adopt", "swap"}

\* No key is ahead of the roster, and the browser's record is never ahead of
\* the pin.
Behindhand ==
  /\ key <= roster /\ sealed <= roster /\ pin <= roster /\ record <= pin
  /\ \A s \in Sites : site[s].epoch <= roster
  /\ \A o \in Ceremonies : own[o].epoch <= roster

\* A follower pins before it writes, and writes over an older record.
Followed ==
  \A s \in Sites :
    /\ Adopting(s) => site[s].epoch <= pin
    /\ site[s].at = "writing" => Remembered /\ record <= site[s].epoch

\* A ceremony marks the session until its end, and whatever it writes is not
\* older than what stands.
Minting ==
  \A o \in Ceremonies :
    /\ own[o].at \in Holding => o \in marks /\ key <= own[o].epoch
    /\ own[o].at \in {"join", "rotate"} => o \in marks
    /\ own[o].at \in {"reseal", "pin", "record"} => record <= own[o].epoch
    /\ own[o].at = "record" => own[o].epoch <= pin

Forward == Behindhand /\ Followed /\ Minting

LEMMA ForwardStart == AdoptionAssumption /\ Init => Forward
  BY DEF AdoptionAssumption, Init, Forward, Behindhand, Followed, Minting, Holding,
     Adopting, IdleSite, IdleOwn, None

\* Every epoch is a number.
LEMMA EpochsAreNumbers ==
  ASSUME AdoptionAssumption, AdoptionInv
  PROVE  /\ roster \in Nat /\ sealed \in Nat /\ key \in Nat /\ pin \in Nat
         /\ record \in Nat
         /\ \A s \in Sites : site[s].epoch \in Nat
         /\ \A o \in Ceremonies : own[o].epoch \in Nat
         /\ \A c \in Collections : current[c] \in Nat
  BY DEF AdoptionAssumption, AdoptionInv, TypeOK, Epochs, None

\* No follower is in the middle of an adoption while a ceremony goes on.
LEMMA NobodyFollows ==
  ASSUME AdoptionInv, Minting, NEW o \in Ceremonies,
         own[o].at \in Holding \cup {"rotate"}
  PROVE  \A s \in Sites : ~Adopting(s)
  BY DEF AdoptionInv, Alone, Minting, Holding

LEMMA FollowForward ==
  ASSUME AdoptionAssumption, OneAtATime, AdoptionInv, Forward, NEW s \in Sites, Follow(s)
  PROVE  Forward' /\ key' >= key /\ record' >= record /\ sealed' >= sealed
<1> USE EpochsAreNumbers DEF Forward, Behindhand, Followed, server, local
<1>1. /\ roster' = roster /\ own' = own /\ marks' = marks
      /\ \A t \in Sites \ {s} : site'[t] = site[t]
      /\ site \in [Sites -> [at : SiteSteps, epoch : Epochs \cup {None}]]
  BY DEF Follow, ReadRoster, AdoptNothing, AdoptJoins, JoinReturns, AdoptPin,
     AdoptStandsDown, AdoptWrites, AdoptRecords, AdoptMoves, RepairStarts, Repair,
     Current, Goes, Rest, AdoptionInv, TypeOK
<1>2. CASE ReadRoster(s) \/ AdoptNothing(s) \/ AdoptJoins(s) \/ JoinReturns(s)
           \/ AdoptStandsDown(s) \/ RepairStarts(s)
  <2>1. /\ UNCHANGED <<sealed, key, pin, record>>
        /\ site'[s].epoch \in {site[s].epoch, roster, key, None}
        /\ ~Adopting(s)' /\ site'[s].at # "writing"
    BY <1>1, <1>2
    DEF ReadRoster, AdoptNothing, AdoptJoins, JoinReturns, AdoptStandsDown,
        RepairStarts, Current, Goes, Rest, IdleSite, Adopting
  <2> QED
    BY <1>1, <2>1 DEF Minting, Adopting, None
<1>3. CASE AdoptPin(s)
  <2>1. /\ UNCHANGED <<sealed, key, record>>
        /\ pin' = IF pin <= site[s].epoch THEN site[s].epoch ELSE pin
        /\ site'[s].epoch = site[s].epoch /\ site'[s].at = "pinned"
    BY <1>1, <1>3 DEF AdoptPin, Advanced, Goes
  <2>2. pin' \in Nat /\ pin <= pin' /\ site[s].epoch <= pin' /\ pin' <= roster
    BY <2>1
  <2>3. Behindhand'
    BY <1>1, <2>1, <2>2
  <2>4. Followed'
    BY <1>1, <2>1, <2>2 DEF Adopting
  <2>5. Minting'
    BY <1>1, <2>1, <2>2 DEF Minting
  <2> QED
    BY <2>1, <2>3, <2>4, <2>5
<1>4. CASE AdoptWrites(s)
  <2>1. /\ UNCHANGED <<sealed, key, pin, record>>
        /\ site'[s].epoch = site[s].epoch /\ site'[s].at \in {"writing", "recorded"}
        /\ site'[s].at = "writing" => Remembered
        /\ site[s].at = "pinned" /\ pin <= site[s].epoch
    BY <1>1, <1>4 DEF AdoptWrites, StandsDown, PinStands, Goes
  <2> QED
    BY <1>1, <2>1 DEF Minting, Adopting
<1>5. CASE AdoptRecords(s)
  <2>1. /\ UNCHANGED <<sealed, key, pin>> /\ record' \in {record, site[s].epoch}
        /\ site'[s].epoch = site[s].epoch /\ site'[s].at = "recorded"
        /\ site[s].at = "writing" /\ Adopting(s)
    BY <1>1, <1>5 DEF AdoptRecords, Goes, Adopting
  <2>2. /\ record <= record' /\ record' <= pin /\ record' \in Nat
        /\ \A t \in Sites : t = s
    BY <2>1 DEF OneAtATime
  <2>3. \A o \in Ceremonies : own[o].at \notin {"reseal", "pin", "record"}
    BY <2>1, NobodyFollows DEF Holding
  <2> QED
    BY <1>1, <2>1, <2>2, <2>3 DEF Minting, Adopting
<1>6. CASE AdoptMoves(s)
  <2>1. /\ UNCHANGED <<sealed, pin, record>> /\ key' = site[s].epoch
        /\ site'[s].epoch \in {site[s].epoch, None}
        /\ ~Adopting(s)' /\ site'[s].at # "writing"
        /\ Adopting(s) /\ key < site[s].epoch
    BY <1>1, <1>6 DEF AdoptMoves, StandsDown, Behind, Goes, Rest, IdleSite, Adopting
  <2>2. \A o \in Ceremonies : own[o].at \notin Holding
    BY <2>1, NobodyFollows
  <2> QED
    BY <1>1, <2>1, <2>2 DEF Minting, Adopting, None
<1>7. CASE Repair(s)
  <2>1. /\ UNCHANGED <<key, pin, record>> /\ site'[s].epoch = None
        /\ sealed' = sealed \/ (sealed' = site[s].epoch /\ sealed < site[s].epoch)
        /\ ~Adopting(s)' /\ site'[s].at # "writing"
    BY <1>1, <1>7 DEF Repair, Repairable, Rest, IdleSite, Adopting
  <2> QED
    BY <1>1, <2>1 DEF Minting, Adopting, None
<1> QED
  BY <1>2, <1>3, <1>4, <1>5, <1>6, <1>7 DEF Follow

LEMMA RotateForward ==
  ASSUME AdoptionAssumption, OneAtATime, AdoptionInv, Forward, NEW o \in Ceremonies,
         Rotate(o)
  PROVE  Forward' /\ key' >= key /\ record' >= record /\ sealed' >= sealed
<1> USE EpochsAreNumbers DEF Forward, Behindhand, server, local
<1>1. /\ site' = site /\ \A p \in Ceremonies : p = o
      /\ \A s \in Sites : Adopting(s)' <=> Adopting(s)
      /\ own \in [Ceremonies -> [at : OwnSteps, epoch : Epochs \cup {None},
                                 waits : SUBSET Sites, resealed : BOOLEAN]]
  BY DEF OneAtATime, Rotate, OwnMarks, OwnJoins, OwnRotates, OwnReseals, OwnPins,
     OwnRecords, OwnHolds, OwnFansOut, OwnFannedOut, OwnAdopts, OwnSwaps, OwnThrows,
     AdoptionInv, TypeOK, Adopting
<1>2. CASE OwnMarks(o) \/ OwnJoins(o) \/ OwnThrows(o) \/ OwnFannedOut(o)
           \/ \E c \in Collections : OwnFansOut(o, c)
  <2>1. /\ UNCHANGED <<roster, sealed, key, pin, record>>
        /\ own'[o].epoch \in {own[o].epoch, None}
    BY <1>1, <1>2
    DEF OwnMarks, OwnJoins, OwnThrows, OwnFannedOut, OwnFansOut, Ends, Does, IdleOwn
  <2>2. Minting'
    BY <1>1, <1>2, <2>1
    DEF OwnMarks, OwnJoins, OwnThrows, OwnFannedOut, OwnFansOut, Ends, Does, IdleOwn,
        Minting, Holding, OneAtATime, AdoptionInv, Alone, TypeOK
  <2> QED
    BY <1>1, <2>1, <2>2 DEF Followed, None
<1>3. CASE OwnRotates(o)
  <2>1. /\ roster' = roster + 1 /\ UNCHANGED <<sealed, key, pin, record, marks>>
        /\ own'[o].at = "reseal" /\ own'[o].epoch = roster + 1 /\ own[o].at = "rotate"
    BY <1>1, <1>3 DEF OwnRotates
  <2> QED
    BY <1>1, <2>1 DEF Followed, Minting, Holding
<1>4. CASE OwnReseals(o)
  <2>1. /\ UNCHANGED <<roster, key, pin, record, marks>>
        /\ sealed' = sealed \/ (sealed = key /\ sealed' = own[o].epoch)
        /\ own'[o].at = "pin" /\ own'[o].epoch = own[o].epoch /\ own[o].at = "reseal"
    BY <1>1, <1>4 DEF OwnReseals
  <2> QED
    BY <1>1, <2>1 DEF Followed, Minting, Holding
<1>5. CASE OwnPins(o)
  <2>1. /\ UNCHANGED <<roster, sealed, key, record, marks>>
        /\ pin' = IF pin <= own[o].epoch THEN own[o].epoch ELSE pin
        /\ own'[o].at = "record" /\ own'[o].epoch = own[o].epoch /\ own[o].at = "pin"
    BY <1>1, <1>5 DEF OwnPins, Advanced, Does
  <2>2. pin' \in Nat /\ pin <= pin' /\ own[o].epoch <= pin' /\ pin' <= roster
    BY <2>1
  <2> QED
    BY <1>1, <2>1, <2>2 DEF Followed, Minting, Holding
<1>6. CASE OwnRecords(o)
  <2>1. /\ UNCHANGED <<roster, sealed, key, pin, marks>>
        /\ record' \in {record, own[o].epoch}
        /\ own'[o].at = "hold" /\ own'[o].epoch = own[o].epoch /\ own[o].at = "record"
    BY <1>1, <1>6 DEF OwnRecords, Does
  <2>2. \A s \in Sites : ~Adopting(s)
    BY <2>1, NobodyFollows DEF Holding
  <2> QED
    BY <1>1, <2>1, <2>2 DEF Followed, Minting, Holding, Adopting
<1>7. CASE OwnHolds(o)
  <2>1. /\ UNCHANGED <<roster, sealed, pin, record, marks>>
        /\ key' \in {key, own[o].epoch}
        /\ own'[o].at = "fanOut" /\ own'[o].epoch = own[o].epoch /\ own[o].at = "hold"
    BY <1>1, <1>7 DEF OwnHolds, Does
  <2> QED
    BY <1>1, <2>1 DEF Followed, Minting, Holding
<1>8. CASE OwnAdopts(o)
  <2>1. /\ UNCHANGED <<roster, key, pin, record, marks>>
        /\ sealed' = sealed \/ (sealed = key /\ sealed' = own[o].epoch)
        /\ own'[o].at = "swap" /\ own'[o].epoch = own[o].epoch /\ own[o].at = "adopt"
    BY <1>1, <1>8 DEF OwnAdopts, Does
  <2> QED
    BY <1>1, <2>1 DEF Followed, Minting, Holding
<1>9. CASE OwnSwaps(o)
  <2>1. /\ UNCHANGED <<roster, sealed, pin, record>> /\ key' = own[o].epoch
        /\ own'[o] = IdleOwn /\ own[o].at = "swap"
    BY <1>1, <1>9 DEF OwnSwaps, Ends
  <2> QED
    BY <1>1, <2>1 DEF Followed, Minting, Holding, IdleOwn, None
<1> QED
  BY <1>2, <1>3, <1>4, <1>5, <1>6, <1>7, <1>8, <1>9 DEF Rotate

LEMMA ForwardStep ==
  ASSUME AdoptionAssumption, OneAtATime, AdoptionInv, Forward, [Next]_vars
  PROVE  Forward' /\ key' >= key /\ record' >= record /\ sealed' >= sealed
<1>1. CASE Others
  BY <1>1, EpochsAreNumbers
  DEF Others, OtherRotates, OtherReseals, OtherFansOut, server, local, Forward,
      Behindhand, Followed, Minting, Adopting
<1>2. CASE Dispose \/ UNCHANGED vars
  BY <1>2, EpochsAreNumbers
  DEF Dispose, vars, server, local, Forward, Behindhand, Followed, Minting, Adopting
<1> QED
  BY <1>1, <1>2, FollowForward, RotateForward DEF Next

\* A site that leaves its recorded step with another key has just moved there,
\* and its rebuild refuses what is older than the key.
LEMMA SealsStep ==
  ASSUME AdoptionAssumption, OneAtATime, AdoptionInv, Forward, Next,
         NEW s \in Sites, site[s].at = "recorded", site'[s] # site[s], key' # key
  PROVE  \A c \in Collections : cipher'[c] = None \/ cipher'[c] >= key'
<1>1. ASSUME NEW t \in Sites, Follow(t) PROVE AdoptMoves(t)
  BY <1>1
  DEF Follow, ReadRoster, AdoptNothing, AdoptJoins, JoinReturns, AdoptPin,
      AdoptStandsDown, AdoptWrites, AdoptRecords, RepairStarts, Repair, server, local
<1>2. PICK t \in Sites : AdoptMoves(t)
  BY <1>1
  DEF Next, Others, OtherRotates, OtherReseals, OtherFansOut, Dispose, Rotate, OwnMarks,
      OwnJoins, OwnRotates, OwnReseals, OwnPins, OwnRecords, OwnHolds, OwnFansOut,
      OwnFannedOut, OwnAdopts, OwnSwaps, OwnThrows
<1>3. key' = site[t].epoch /\ cipher' = Rebuilt(key')
  BY <1>2 DEF AdoptMoves
<1> QED
  BY <1>3, EpochsAreNumbers DEF Rebuilt

\* Whatever the order of adoptions, repairs and ceremonies, no key, client-key
\* record or registry seal goes back to an older generation, and no collection
\* is sealed under an epoch older than the key the session followed; provided
\* one ceremony rotates at a time and holds its mark to the end, and that a
\* browser with a client-key record follows from one site.
THEOREM NothingGoesBackSafety ==
  ASSUME OneAtATime PROVE Spec => NothingGoesBack
<1> DEFINE Onward == key' >= key /\ record' >= record /\ sealed' >= sealed
           Sealed ==
             \A s \in Sites :
               site[s].at = "recorded" /\ site'[s] # site[s] /\ key' # key
                 => \A c \in Collections : cipher'[c] = None \/ cipher'[c] >= key'
<1>1. AdoptionInv /\ Forward /\ [Next]_vars => Forward' /\ [Onward]_vars
  BY OneAtATime, AdoptionAssumption, ForwardStep
<1>2. AdoptionInv /\ Forward /\ [Next]_vars => [Sealed]_vars
  BY OneAtATime, AdoptionAssumption, SealsStep
<1>3. Init => Forward
  BY AdoptionAssumption, ForwardStart
<1> QED
  BY <1>1, <1>2, <1>3, AdoptionSafety, PTL
  DEF Spec, NothingGoesBack, KeysForward, SealsForward

(***************************************************************************)
(* The stranded collections.                                               *)
(***************************************************************************)
CONSTANT MaxFailures
VARIABLES broken, coll, view, stranded, reports, opened, rotating,
          running, dirty, seen, run, budget, met, failures

S == INSTANCE StrandedCollections
       WITH MaxKey <- MaxEpoch, gate <- opened, spent <- budget

RunStages == {"idle", "gated", "list", "read", "follow", "check", "cascade",
              "refresh", "grade"}
\* A run behind a roster of n generations.
Runs(n) ==
  [at : RunStages, fresh : BOOLEAN, read : 0..n, behind : BOOLEAN,
   candidates : SUBSET Collections, moved : BOOLEAN]

\* The keys and the ciphers; the binding and its run.
CiphersOK ==
  /\ roster \in S!Keys /\ key \in 1..roster
  /\ coll \in [Collections -> 1..roster] /\ broken \subseteq Collections
  /\ \A c \in Collections : view[c] \in 1..coll[c]
  /\ stranded = {c \in Collections : view[c] < key}
  /\ met \subseteq Collections
BindingOK ==
  /\ run \in Runs(roster)
  /\ running <=> run.at # "idle"
  /\ dirty => running
  /\ seen \subseteq Collections /\ budget \in BOOLEAN
FlagsOK ==
  /\ {reports, opened, disposed, rotating} \subseteq BOOLEAN
  /\ failures \in 0..MaxFailures

StrandInv == CiphersOK /\ BindingOK /\ FlagsOK

LEMMA StrandParts == StrandInv => S!TypeOK
  BY DEF S!TypeOK, StrandInv, CiphersOK, BindingOK, FlagsOK, Runs, RunStages

\* No run, and a run that begins.
LEMMA NoRunIsARun == \A n \in Nat : S!NoRun \in Runs(n) /\ S!NoRun.at = "idle"
  BY DEF S!NoRun, Runs, RunStages

Begun(f) == [S!NoRun EXCEPT !.at = "gated", !.fresh = f]

LEMMA RunsBegin ==
  \A n \in Nat, f \in BOOLEAN : Begun(f) \in Runs(n) /\ Begun(f).at = "gated"
<1> SUFFICES ASSUME NEW n \in Nat, NEW f \in BOOLEAN
             PROVE  Begun(f) \in Runs(n) /\ Begun(f).at = "gated"
  OBVIOUS
<1>1. S!NoRun \in Runs(n)
  BY NoRunIsARun
<1>2. \A r \in Runs(n) :
        /\ [r EXCEPT !.at = "gated"] \in Runs(n)
        /\ [r EXCEPT !.fresh = f] \in Runs(n) /\ [r EXCEPT !.fresh = f].at = r.at
        /\ [r EXCEPT !.at = "gated"].at = "gated"
  BY DEF Runs, RunStages
<1> QED
  BY <1>1, <1>2, Zenon DEF Begun

LEMMA StrandsStart == S!StrandsAssumption /\ S!Init => StrandInv
<1> SUFFICES ASSUME S!StrandsAssumption, S!Init PROVE StrandInv
  OBVIOUS
<1>1. CiphersOK
  BY DEF S!StrandsAssumption, S!Init, S!Keys, CiphersOK
<1>2. BindingOK
  <2>1. roster \in Nat
    BY DEF S!StrandsAssumption, S!Init, S!Keys
  <2>2. run \in Runs(roster) /\ run.at = "idle"
    BY <2>1, NoRunIsARun, Zenon DEF S!Init
  <2>3. running = FALSE /\ dirty = FALSE /\ seen = {} /\ budget = FALSE
    BY DEF S!Init
  <2>4. running <=> run.at # "idle"
    BY <2>2, <2>3
  <2> QED
    BY <2>2, <2>3, <2>4 DEF BindingOK
<1>3. FlagsOK
  <2>1. failures = 0 /\ reports = FALSE /\ opened = FALSE /\ disposed = FALSE
        /\ rotating = FALSE
    BY DEF S!Init
  <2>2. 0 \in 0..MaxFailures
    BY DEF S!StrandsAssumption
  <2> QED
    BY <2>1, <2>2 DEF FlagsOK
<1> QED
  BY <1>1, <1>2, <1>3 DEF StrandInv

\* A run that begins, and one that ends.
LEMMA StartOfRun ==
  ASSUME CiphersOK, BindingOK, S!StartRun, UNCHANGED <<dirty, budget, roster>>
  PROVE  BindingOK'
<1>1. S!Fresh(stranded) \in BOOLEAN /\ stranded \subseteq Collections /\ roster \in Nat
  BY DEF S!Fresh, CiphersOK, S!Keys
<1>2. run' = Begun(S!Fresh(stranded))
      /\ seen' = seen \cup stranded /\ running' = TRUE
  BY DEF S!StartRun, Begun
<1>3. run' \in Runs(roster) /\ run'.at = "gated"
  BY <1>1, <1>2, RunsBegin, Zenon
<1>4. running' <=> run'.at # "idle"
  BY <1>2, <1>3
<1>5. seen' \subseteq Collections
  BY <1>1, <1>2 DEF BindingOK
<1>6. budget' \in BOOLEAN /\ dirty' = dirty /\ roster' = roster
  BY DEF BindingOK
<1> QED
  BY <1>2, <1>3, <1>4, <1>5, <1>6 DEF BindingOK

LEMMA EndOfRun ==
  ASSUME CiphersOK, BindingOK, NEW o \in {"clean", "failed", "skipped"}, S!Ends(o),
         roster' = roster
  PROVE  BindingOK'
<1>1. S!Fresh(stranded) \in BOOLEAN /\ stranded \subseteq Collections /\ roster \in Nat
  BY DEF S!Fresh, CiphersOK, S!Keys
<1>2. budget' \in BOOLEAN /\ dirty' = FALSE
  BY DEF S!Ends, BindingOK
<1>3. CASE dirty /\ ~disposed
  <2>1. S!StartRun
    BY <1>3 DEF S!Ends
  <2>2. run' = Begun(S!Fresh(stranded))
        /\ seen' = seen \cup stranded /\ running' = TRUE
    BY <2>1 DEF S!StartRun, Begun
  <2>3. run' \in Runs(roster) /\ run'.at = "gated"
    BY <1>1, <2>2, RunsBegin, Zenon
  <2>4. running' <=> run'.at # "idle"
    BY <2>2, <2>3
  <2>5. seen' \subseteq Collections
    BY <1>1, <2>2 DEF BindingOK
  <2> QED
    BY <1>2, <2>3, <2>4, <2>5 DEF BindingOK
<1>4. CASE ~(dirty /\ ~disposed)
  <2>1. running' = FALSE /\ run' = S!NoRun /\ seen' = seen
    BY <1>4 DEF S!Ends
  <2>2. run' \in Runs(roster) /\ run'.at = "idle"
    BY <1>1, <2>1, NoRunIsARun, Zenon
  <2>3. running' <=> run'.at # "idle"
    BY <2>1, <2>2
  <2> QED
    BY <1>2, <2>1, <2>2, <2>3 DEF BindingOK
<1> QED
  BY <1>3, <1>4

\* A run that goes on to its next stage.
LEMMA NextStage ==
  ASSUME BindingOK, NEW a \in RunStages \ {"idle"}, run.at # "idle", S!Goes(a),
         UNCHANGED <<running, dirty, seen, budget, roster>>
  PROVE  BindingOK'
  BY DEF S!Goes, BindingOK, Runs

\* The report of a strand starts a run, or marks the one under way.
LEMMA OnStrandedKeeps ==
  ASSUME CiphersOK, BindingOK, S!OnStranded, UNCHANGED <<budget, roster>>
  PROVE  BindingOK'
<1>1. CASE UNCHANGED <<S!binding, run>>
  BY <1>1 DEF BindingOK, S!binding
<1>2. CASE running /\ dirty' = TRUE /\ UNCHANGED <<running, seen, run>>
  BY <1>2 DEF BindingOK
<1>3. CASE S!StartRun /\ UNCHANGED dirty
  BY <1>3, StartOfRun
<1>4. \/ UNCHANGED <<S!binding, run>>
      \/ running /\ dirty' = TRUE /\ UNCHANGED <<running, seen, run>>
      \/ S!StartRun /\ UNCHANGED dirty
  BY DEF S!OnStranded
<1> QED
  BY <1>1, <1>2, <1>3, <1>4, Zenon

\* A rebuild under a key of the roster.
LEMMA RebuildKeeps ==
  ASSUME CiphersOK, NEW k \in 1..roster, NEW F \in SUBSET Collections, S!Rebuilds(k, F),
         UNCHANGED <<roster, broken, coll>>
  PROVE  CiphersOK' /\ reports' = (reports \/ stranded' # {})
  BY DEF CiphersOK, S!Rebuilds, S!Keys

LEMMA SpendKeeps ==
  ASSUME S!StrandsAssumption, FlagsOK, S!Spend PROVE failures' \in 0..MaxFailures
  BY DEF S!StrandsAssumption, FlagsOK, S!Spend

Forwards == \A c \in Collections : coll'[c] >= coll[c]

LEMMA CollsAreNumbers ==
  ASSUME CiphersOK
  PROVE  /\ roster \in Nat /\ key \in Nat
         /\ \A c \in Collections : coll[c] \in Nat /\ coll[c] <= roster /\ coll[c] >= 1
  BY DEF CiphersOK, S!Keys

\* Every step keeps the shape, and moves no collection back.
LEMMA StrandStep ==
  ASSUME S!StrandsAssumption, StrandInv, [S!Next]_(S!vars)
  PROVE  StrandInv' /\ Forwards
<1>0. CiphersOK /\ BindingOK /\ FlagsOK
  BY DEF StrandInv
<1>s. ASSUME UNCHANGED coll PROVE Forwards
  BY <1>0, <1>s, CollsAreNumbers DEF Forwards
<1>c. ASSUME UNCHANGED <<roster, broken, coll, key, view, stranded>>, met' \subseteq Collections
      PROVE  CiphersOK' /\ Forwards
  BY <1>0, <1>c, <1>s DEF CiphersOK, S!Keys
<1>b. ASSUME UNCHANGED <<running, dirty, seen, run, budget>>, roster' \in Nat, roster' >= roster
      PROVE  BindingOK'
  BY <1>0, <1>b, CollsAreNumbers DEF BindingOK, Runs
<1>f. ASSUME UNCHANGED <<reports, opened, disposed, rotating, failures>>
      PROVE  FlagsOK'
  BY <1>0, <1>f DEF FlagsOK
<1>1. CASE S!Refresh
  <2>1. PICK F \in SUBSET Collections : S!Rebuilds(key, F)
    BY <1>1 DEF S!Refresh
  <2>2. UNCHANGED <<roster, broken, coll, opened, disposed, rotating, running, dirty, seen,
                    run, budget, failures>>
    BY <1>1 DEF S!Refresh, S!account, S!session, S!binding
  <2>3. key \in 1..roster
    BY <1>0 DEF CiphersOK
  <2>4. CiphersOK' /\ reports' = (reports \/ stranded' # {})
    BY <1>0, <2>1, <2>2, <2>3, RebuildKeeps
  <2>5. FlagsOK'
    BY <1>0, <2>2, <2>4 DEF FlagsOK
  <2> QED
    BY <1>0, <1>s, <1>b, <2>2, <2>4, <2>5, CollsAreNumbers DEF StrandInv
<1>2. CASE S!Reported
  <2>1. UNCHANGED <<roster, broken, coll, key, view, stranded, opened, disposed, rotating,
                    budget, met, failures>> /\ reports' = FALSE
    BY <1>2 DEF S!Reported, S!account, S!session
  <2>2. BindingOK'
    BY <1>0, <1>2, <2>1, OnStrandedKeeps DEF S!Reported
  <2>3. CiphersOK' /\ Forwards
    BY <1>0, <1>c, <2>1 DEF CiphersOK
  <2>4. FlagsOK'
    BY <1>0, <2>1 DEF FlagsOK
  <2> QED
    BY <2>2, <2>3, <2>4 DEF StrandInv
<1>3. CASE S!OpenGate
  <2>1. UNCHANGED <<roster, broken, coll, key, view, stranded, reports, disposed, rotating,
                    budget, met, failures>> /\ opened' = TRUE
    BY <1>3 DEF S!OpenGate, S!account, S!ciphers
  <2>2. BindingOK'
    <3>1. CASE UNCHANGED <<running, dirty, seen, run>>
      BY <1>0, <2>1, <3>1 DEF BindingOK
    <3>2. CASE S!OnStranded
      BY <1>0, <2>1, <3>2, OnStrandedKeeps
    <3> QED
      BY <1>3, <3>1, <3>2 DEF S!OpenGate, S!Replays, S!binding
  <2>3. CiphersOK' /\ Forwards
    BY <1>0, <1>c, <2>1 DEF CiphersOK
  <2>4. FlagsOK'
    BY <1>0, <2>1 DEF FlagsOK
  <2> QED
    BY <2>2, <2>3, <2>4 DEF StrandInv
<1>e. ASSUME NEW o \in {"clean", "failed", "skipped"}, S!Ends(o), roster' = roster
      PROVE  BindingOK'
  BY <1>0, <1>e, EndOfRun
<1>g. ASSUME NEW a \in RunStages \ {"idle"}, run.at # "idle", S!Goes(a),
             UNCHANGED <<running, dirty, seen, budget, roster>>
      PROVE  BindingOK'
  BY <1>0, <1>g, NextStage
<1>4. CASE S!Gated
  <2>1. UNCHANGED <<roster, broken, coll, key, view, stranded, reports, opened, disposed,
                    rotating, met, failures>> /\ run.at = "gated"
    BY <1>4 DEF S!Gated, S!account, S!ciphers, S!session
  <2>2. BindingOK'
    BY <1>4, <1>e, <1>g, <2>1 DEF S!Gated, S!binding, RunStages
  <2> QED
    BY <1>0, <1>c, <1>f, <2>1, <2>2 DEF StrandInv, CiphersOK
<1>5. CASE S!Listed
  <2>1. UNCHANGED <<roster, broken, coll, key, view, stranded, reports, opened, disposed,
                    rotating, failures>> /\ run.at = "list" /\ met' = met \cup stranded
    BY <1>5 DEF S!Listed, S!account, S!ciphers, S!session
  <2>2. BindingOK'
    BY <1>5, <1>e, <1>g, <2>1 DEF S!Listed, S!binding, RunStages
  <2>3. met' \subseteq Collections
    BY <1>0, <2>1 DEF CiphersOK
  <2> QED
    BY <1>c, <1>f, <2>1, <2>2, <2>3 DEF StrandInv
<1>6. CASE S!ReadRoster
  <2>1. UNCHANGED <<roster, broken, coll, key, view, stranded, reports, opened, disposed,
                    rotating, met>> /\ run.at = "read"
    BY <1>6 DEF S!ReadRoster, S!account, S!ciphers, S!session
  <2>2. BindingOK' /\ failures' \in 0..MaxFailures
    <3>1. CASE S!Spend /\ S!Ends("failed")
      BY <1>0, <1>e, <2>1, <3>1, SpendKeeps
    <3>2. CASE /\ run' = [run EXCEPT !.at = IF key < roster THEN "follow" ELSE "check",
                                     !.read = roster, !.behind = key < roster]
               /\ UNCHANGED <<S!binding, budget, failures>>
      <4>1. (IF key < roster THEN "follow" ELSE "check") \in RunStages \ {"idle"}
            /\ (key < roster) \in BOOLEAN /\ roster \in 0..roster
        BY <1>0, CollsAreNumbers DEF RunStages
      <4>2. BindingOK'
        BY <1>0, <2>1, <3>2, <4>1 DEF BindingOK, Runs, S!binding
      <4> QED
        BY <1>0, <3>2, <4>2 DEF FlagsOK
    <3> QED
      BY <1>6, <3>1, <3>2 DEF S!ReadRoster
  <2>3. FlagsOK'
    BY <1>0, <2>1, <2>2 DEF FlagsOK
  <2> QED
    BY <1>0, <1>c, <2>1, <2>2, <2>3 DEF StrandInv, CiphersOK
<1>7. CASE S!Follow
  <2>1. UNCHANGED <<roster, broken, coll, opened, disposed, rotating>> /\ run.at = "follow"
    BY <1>7 DEF S!Follow, S!account, S!session
  <2>s. ASSUME UNCHANGED <<key, view, stranded, reports, met>>
        PROVE  CiphersOK' /\ reports' \in BOOLEAN
    BY <1>0, <1>c, <2>1, <2>s DEF CiphersOK, FlagsOK
  <2>2. CiphersOK' /\ BindingOK' /\ reports' \in BOOLEAN /\ failures' \in 0..MaxFailures
    <3>1. CASE /\ key < run.read
               /\ \E F \in SUBSET Collections : S!Rebuilds(run.read, F)
               /\ S!Goes("check") /\ UNCHANGED <<S!binding, budget, failures>>
      <4>1. run.read \in 1..roster
        BY <1>0, <3>1, CollsAreNumbers DEF BindingOK, Runs
      <4>2. PICK F \in SUBSET Collections : S!Rebuilds(run.read, F)
        BY <3>1
      <4>3. CiphersOK' /\ reports' = (reports \/ stranded' # {})
        BY <1>0, <2>1, <4>1, <4>2, RebuildKeeps
      <4>4. BindingOK'
        BY <1>g, <2>1, <3>1 DEF S!binding, RunStages
      <4> QED
        BY <1>0, <3>1, <4>3, <4>4 DEF FlagsOK
    <3>2. CASE S!Goes("check") /\ UNCHANGED <<S!ciphers, met, S!binding, budget, failures>>
      BY <1>0, <1>g, <2>1, <2>s, <3>2 DEF S!binding, S!ciphers, RunStages, FlagsOK
    <3>3. CASE S!Ends("clean") /\ UNCHANGED <<S!ciphers, met, failures>>
      BY <1>0, <1>e, <2>1, <2>s, <3>3 DEF S!ciphers, FlagsOK
    <3>4. CASE S!Spend /\ S!Ends("failed") /\ UNCHANGED <<S!ciphers, met>>
      BY <1>0, <1>e, <2>1, <2>s, <3>4, SpendKeeps DEF S!ciphers
    <3> QED
      BY <1>7, <3>1, <3>2, <3>3, <3>4 DEF S!Follow
  <2>3. FlagsOK'
    BY <1>0, <2>1, <2>2 DEF FlagsOK
  <2> QED
    BY <1>s, <2>1, <2>2, <2>3 DEF StrandInv
<1>8. CASE S!Check
  <2>1. UNCHANGED <<roster, broken, coll, key, view, stranded, reports, opened, disposed,
                    rotating, met, failures>> /\ run.at = "check"
    BY <1>8 DEF S!Check, S!account, S!ciphers, S!session
  <2>2. BindingOK'
    <3>1. CASE S!Ends("clean")
      BY <1>e, <2>1, <3>1
    <3>2. CASE /\ run' = [run EXCEPT !.at = "cascade", !.candidates = stranded]
               /\ UNCHANGED <<S!binding, budget>>
      <4>1. stranded \subseteq Collections
        BY <1>0 DEF CiphersOK
      <4>2. run' \in Runs(roster) /\ run'.at = "cascade"
        BY <1>0, <3>2, <4>1 DEF BindingOK, Runs, RunStages
      <4> QED
        BY <1>0, <2>1, <3>2, <4>2 DEF BindingOK, S!binding
    <3> QED
      BY <1>8, <3>1, <3>2 DEF S!Check
  <2> QED
    BY <1>0, <1>c, <1>f, <2>1, <2>2 DEF StrandInv, CiphersOK
<1>9. CASE S!Cascade
  <2>1. UNCHANGED <<roster, broken, key, view, stranded, reports, opened, disposed, rotating,
                    running, dirty, seen, budget, met>> /\ run.at = "cascade"
    BY <1>9 DEF S!Cascade, S!ciphers, S!session, S!binding
  <2>2. PICK done \in SUBSET (run.candidates \ broken) :
          /\ IF done = run.candidates \ broken THEN UNCHANGED failures ELSE S!Spend
          /\ coll' = [c \in Collections |-> IF c \in done THEN S!Onto(c) ELSE coll[c]]
    BY <1>9 DEF S!Cascade
  <2>3. failures' \in 0..MaxFailures
    BY <1>0, <2>2, SpendKeeps DEF FlagsOK
  <2>4. run.read \in 0..roster
    BY <1>0 DEF BindingOK, Runs
  <2>5. \A c \in Collections : S!Onto(c) \in 1..roster /\ S!Onto(c) >= coll[c]
    BY <1>0, <2>4, CollsAreNumbers DEF S!Onto
  <2>6. /\ coll' \in [Collections -> 1..roster]
        /\ \A c \in Collections : coll'[c] >= coll[c] /\ coll'[c] \in 1..roster
    BY <1>0, <2>2, <2>5, CollsAreNumbers DEF CiphersOK
  <2>7. CiphersOK' /\ Forwards
    BY <1>0, <2>1, <2>6, CollsAreNumbers DEF CiphersOK, Forwards, S!Keys
  <2>8. BindingOK'
    <3>1. run' = [run EXCEPT !.at = "refresh", !.moved = coll' # coll]
      BY <1>9 DEF S!Cascade
    <3>2. (coll' # coll) \in BOOLEAN
      OBVIOUS
    <3> QED
      BY <1>0, <2>1, <3>1, <3>2 DEF BindingOK, Runs, RunStages
  <2>9. FlagsOK'
    BY <1>0, <2>1, <2>3 DEF FlagsOK
  <2> QED
    BY <2>7, <2>8, <2>9 DEF StrandInv
<1>10. CASE S!RefreshCascaded
  <2>1. UNCHANGED <<roster, broken, coll, opened, disposed, rotating, running, dirty, seen,
                    budget>> /\ run.at = "refresh" /\ S!Goes("grade")
    BY <1>10 DEF S!RefreshCascaded, S!account, S!session, S!binding
  <2>2. CiphersOK' /\ reports' \in BOOLEAN /\ failures' \in 0..MaxFailures
    <3>1. CASE UNCHANGED <<S!ciphers, met, failures>>
      BY <1>0, <1>c, <2>1, <3>1 DEF S!ciphers, CiphersOK, FlagsOK
    <3>2. CASE \E F \in SUBSET Collections :
                 /\ IF F = Collections THEN UNCHANGED failures ELSE S!Spend
                 /\ S!Rebuilds(key, F)
      <4>1. PICK F \in SUBSET Collections :
              /\ IF F = Collections THEN UNCHANGED failures ELSE S!Spend
              /\ S!Rebuilds(key, F)
        BY <3>2
      <4>2. failures' \in 0..MaxFailures
        BY <1>0, <4>1, SpendKeeps DEF FlagsOK
      <4>3. key \in 1..roster
        BY <1>0 DEF CiphersOK
      <4>4. CiphersOK' /\ reports' = (reports \/ stranded' # {})
        BY <1>0, <2>1, <4>1, <4>3, RebuildKeeps
      <4> QED
        BY <1>0, <4>2, <4>4 DEF FlagsOK
    <3> QED
      BY <1>10, <3>1, <3>2 DEF S!RefreshCascaded
  <2>3. BindingOK'
    BY <1>g, <2>1 DEF RunStages
  <2>4. FlagsOK'
    BY <1>0, <2>1, <2>2 DEF FlagsOK
  <2> QED
    BY <1>s, <2>1, <2>2, <2>3, <2>4 DEF StrandInv
<1>11. CASE S!Grade
  <2>1. UNCHANGED <<roster, broken, coll, key, view, stranded, reports, opened, disposed,
                    rotating, met, failures>>
    BY <1>11 DEF S!Grade, S!account, S!ciphers, S!session
  <2>2. BindingOK'
    BY <1>11, <1>e, <2>1 DEF S!Grade
  <2> QED
    BY <1>0, <1>c, <1>f, <2>1, <2>2 DEF StrandInv, CiphersOK
<1>12. CASE S!RotateStarts
  <2>1. UNCHANGED <<roster, broken, coll, key, view, stranded, reports, opened, disposed,
                    running, dirty, seen, run, budget, met, failures>> /\ rotating' = TRUE
    BY <1>12 DEF S!RotateStarts, S!account, S!ciphers, S!binding
  <2>2. BindingOK' /\ FlagsOK'
    BY <1>0, <2>1 DEF BindingOK, FlagsOK
  <2> QED
    BY <1>0, <1>c, <2>1, <2>2 DEF StrandInv, CiphersOK
<1>m. ASSUME NEW moved \in SUBSET Collections, roster < MaxEpoch, roster' = roster + 1,
             coll' = [c \in Collections |-> IF c \in moved THEN roster' ELSE coll[c]]
      PROVE  /\ coll' \in [Collections -> 1..roster'] /\ Forwards /\ roster' \in S!Keys
             /\ \A c \in Collections : coll'[c] \in 1..roster' /\ coll'[c] >= coll[c]
             /\ roster' \in Nat /\ roster' >= roster /\ roster' >= 1
  <2>1. \A c \in Collections : coll'[c] = IF c \in moved THEN roster' ELSE coll[c]
    BY <1>m
  <2>2. roster' \in Nat /\ roster' >= roster /\ roster' >= 1 /\ roster' \in S!Keys
    BY <1>0, <1>m, CollsAreNumbers DEF S!StrandsAssumption, S!Keys, CiphersOK
  <2>3. \A c \in Collections : coll'[c] \in 1..roster' /\ coll'[c] >= coll[c]
    BY <1>0, <1>m, <2>1, <2>2, CollsAreNumbers
  <2> QED
    BY <1>m, <2>1, <2>2, <2>3 DEF Forwards
<1>13. CASE S!RotateLands
  <2>1. /\ UNCHANGED <<broken, opened, disposed, running, dirty, seen, run, budget, met>>
        /\ rotating' = FALSE /\ roster < MaxEpoch /\ roster' = roster + 1
        /\ key' = roster' /\ view' = coll'
        /\ stranded' = {c \in Collections : view'[c] < key'}
        /\ reports' = (reports \/ stranded' # {})
    BY <1>13 DEF S!RotateLands, S!binding
  <2>2. PICK moved \in SUBSET (Collections \ broken) :
          /\ IF moved = Collections \ broken THEN UNCHANGED failures ELSE S!Spend
          /\ coll' = [c \in Collections |-> IF c \in moved THEN roster' ELSE coll[c]]
    BY <1>13 DEF S!RotateLands
  <2>3. failures' \in 0..MaxFailures
    BY <1>0, <2>2, SpendKeeps DEF FlagsOK
  <2>4. moved \in SUBSET Collections
    OBVIOUS
  <2>5. /\ coll' \in [Collections -> 1..roster'] /\ Forwards /\ roster' \in S!Keys
        /\ \A c \in Collections : coll'[c] \in 1..roster' /\ coll'[c] >= coll[c]
        /\ roster' \in Nat /\ roster' >= roster /\ roster' >= 1
    BY <1>m, <2>1, <2>2, <2>4
  <2>6. CiphersOK'
    BY <1>0, <2>1, <2>5 DEF CiphersOK
  <2>7. FlagsOK'
    BY <1>0, <2>1, <2>3 DEF FlagsOK
  <2> QED
    BY <1>b, <2>1, <2>5, <2>6, <2>7 DEF StrandInv
<1>14. CASE S!OtherRotates
  <2>1. /\ UNCHANGED <<broken, key, view, stranded, reports, opened, disposed, rotating,
                       running, dirty, seen, run, budget, met, failures>>
        /\ roster < MaxEpoch /\ roster' = roster + 1
    BY <1>14 DEF S!OtherRotates, S!ciphers, S!session, S!binding
  <2>2. PICK moved \in SUBSET (Collections \ broken) :
          coll' = [c \in Collections |-> IF c \in moved THEN roster' ELSE coll[c]]
    BY <1>14 DEF S!OtherRotates
  <2>3. moved \in SUBSET Collections
    OBVIOUS
  <2>4. /\ coll' \in [Collections -> 1..roster'] /\ Forwards /\ roster' \in S!Keys
        /\ \A c \in Collections : coll'[c] \in 1..roster' /\ coll'[c] >= coll[c]
        /\ roster' \in Nat /\ roster' >= roster /\ roster' >= 1
    BY <1>m, <2>1, <2>2, <2>3
  <2>5. CiphersOK'
    BY <1>0, <2>1, <2>4, CollsAreNumbers DEF CiphersOK
  <2> QED
    BY <1>b, <1>f, <2>1, <2>4, <2>5 DEF StrandInv
<1>15. CASE S!DisposeSession
  <2>1. UNCHANGED <<roster, broken, coll, key, view, stranded, reports, opened, rotating,
                    running, dirty, seen, run, budget, met, failures>> /\ disposed' = TRUE
    BY <1>15 DEF S!DisposeSession, S!account, S!ciphers, S!binding
  <2>2. BindingOK' /\ FlagsOK'
    BY <1>0, <2>1 DEF BindingOK, FlagsOK
  <2> QED
    BY <1>0, <1>c, <2>1, <2>2 DEF StrandInv, CiphersOK
<1>16. CASE UNCHANGED S!vars
  <2>1. UNCHANGED <<roster, broken, coll, key, view, stranded, reports, opened, disposed,
                    rotating, running, dirty, seen, run, budget, met, failures>>
    BY <1>16 DEF S!vars, S!account, S!ciphers, S!session, S!binding
  <2>2. BindingOK'
    BY <1>0, <2>1 DEF BindingOK
  <2> QED
    BY <1>0, <1>c, <1>f, <2>1, <2>2 DEF StrandInv, CiphersOK
<1> QED
  BY <1>1, <1>2, <1>3, <1>4, <1>5, <1>6, <1>7, <1>8, <1>9, <1>10, <1>11, <1>12, <1>13,
     <1>14, <1>15, <1>16
  DEF S!Next, S!Repair

\* The binding always counts the run that is under way, and a cipher refuses
\* exactly when it was built from an epoch older than the session's key, never
\* from one ahead of its collection.
THEOREM StrandsSafety ==
  ASSUME S!StrandsAssumption PROVE S!Spec => []S!TypeOK
<1>1. S!Init => StrandInv
  BY StrandsStart
<1>2. StrandInv /\ [S!Next]_(S!vars) => StrandInv'
  BY StrandStep
<1>3. StrandInv => S!TypeOK
  BY StrandParts
<1> QED
  BY <1>1, <1>2, <1>3, PTL DEF S!Spec

\* No collection is moved back onto a retired generation, by the repair, which
\* writes behind a roster read that may be old by then, or by any rotation,
\* for every number of collections, generations and failures.
THEOREM CollectionsForwardSafety ==
  ASSUME S!StrandsAssumption PROVE S!Spec => S!CollectionsForward
<1>1. S!Init => StrandInv
  BY StrandsStart
<1>2. StrandInv /\ [S!Next]_(S!vars)
        => StrandInv' /\ [\A c \in Collections : coll'[c] >= coll[c]]_(S!vars)
  BY StrandStep DEF Forwards
<1> QED
  BY <1>1, <1>2, PTL DEF S!Spec, S!CollectionsForward
====
