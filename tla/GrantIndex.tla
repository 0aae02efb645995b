---- MODULE GrantIndex ----
(***************************************************************************)
(* What the `connections` directory promises (decision 0034, "the          *)
(* directory is the grant index"): a capability some party holds and that  *)
(* still verifies can be found there, so it can be revoked.  A capability  *)
(* enters the index before it is handed over, and leaves it only once it   *)
(* is dead or was never handed over.                                       *)
(***************************************************************************)
CONSTANT Grants

VARIABLES index, held, dead

Init ==
  /\ index = {}
  /\ held = {}
  /\ dead = {}

Record(S) ==
  /\ index' = index \cup S
  /\ UNCHANGED <<held, dead>>

Deliver(S) ==
  /\ S \ dead \subseteq index
  /\ held' = held \cup S
  /\ UNCHANGED <<index, dead>>

Kill(S) ==
  /\ dead' = dead \cup S
  /\ UNCHANGED <<index, held>>

Remove(S) ==
  /\ S \cap held \subseteq dead
  /\ index' = index \ S
  /\ UNCHANGED <<held, dead>>

Next == \E S \in SUBSET Grants : Record(S) \/ Deliver(S) \/ Kill(S) \/ Remove(S)

Spec == Init /\ [][Next]_<<index, held, dead>>
====
