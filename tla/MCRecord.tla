---- MODULE MCRecord ----
(***************************************************************************)
(* UnlockRecord with one remembered tab: beside a visit, at one time, with *)
(* one renewal and one failure; and alone, while time passes.              *)
(***************************************************************************)
EXTENDS UnlockRecord

CONSTANTS a, v

VARIABLE scene

recordVars == <<vars, scene>>
Taken(A) ==
  /\ A /\ UNCHANGED scene
  /\ IF scene = "beside" THEN now' = 1 /\ renewals' < MaxRenewals /\ failures' < MaxFailures
     ELSE job'[v] = Idle

RecordInit == Init /\ scene \in {"beside", "alone"}
Records ==
  /\ RecordInit
  /\ [][Taken(Next)]_recordVars
  /\ \A t \in Tabs :
       /\ WF_recordVars(Taken(Step(t))) /\ WF_recordVars(Taken(Fetch(t)))
       /\ SF_recordVars(Taken(Heal(t))) /\ WF_recordVars(Taken(Leave(t)))

\* The sibling comes to aim at the Space the document points at, unless the
\* credential is retired, as long as visits go on; and no record on the way
\* carries a delegation of an earlier seed.
Aims ==
  /\ []OneAuthority
  /\ scene = "beside" => []<>(retired # 0 \/ Served.sibling.space = pointed)
====
